---------------------------- MODULE NetlinkProofs -----------------------------
(***************************************************************************)
(* Proofs about Rtnetlink, for any links, addresses and routes, any number *)
(* of changes of the kernel and any room in the socket.                    *)
(*                                                                         *)
(* The argument is in RtnetlinkInvariant: a message that joins the queue   *)
(* says what the kernel has come to, the one that leaves it makes the      *)
(* enumerator know what it says, and so the last message about something,  *)
(* or what is known if there is none, is right.                            *)
(***************************************************************************)
EXTENDS RtnetlinkInvariant, SequenceTheorems, TLAPS

-----------------------------------------------------------------------------
(* Queues.                                                                 *)

LEMMA Appended ==
    ASSUME NEW q \in Seq(Messages), NEW m \in Messages
    PROVE  /\ Append(q, m) \in Seq(Messages) /\ Append(q, m) # <<>>
           /\ Len(q) \in Nat /\ Len(Append(q, m)) = Len(q) + 1
           /\ \A i \in 1 .. Len(q) : Append(q, m)[i] = q[i]
           /\ Append(q, m)[Len(q) + 1] = m
<1> HIDE DEF Messages
<1> QED  BY SMT

LEMMA Removed ==
    ASSUME NEW q \in Seq(Messages), q # <<>>
    PROVE  /\ Tail(q) \in Seq(Messages) /\ Head(q) \in Messages /\ Head(q) = q[1]
           /\ Len(q) \in Nat \ {0} /\ Len(Tail(q)) = Len(q) - 1
           /\ \A i \in 1 .. Len(q) - 1 : Tail(q)[i] = q[i + 1]
<1> HIDE DEF Messages
<1> QED  BY SMT

\* What a message does to what a queue says, when it joins and when it leaves.
LEMMA SilentAppended ==
    ASSUME NEW q \in Seq(Messages), NEW m \in Messages, NEW about
    PROVE  Silent(Append(q, m), about) <=> Silent(q, about) /\ m \notin about
<1> HIDE DEF Messages
<1> QED  BY Appended, SMT DEF Silent

LEMMA SilentRemoved ==
    ASSUME NEW q \in Seq(Messages), q # <<>>, NEW about
    PROVE  Silent(q, about) <=> Silent(Tail(q), about) /\ Head(q) \notin about
<1> DEFINE t == Tail(q)
<1>0. /\ Len(q) \in Nat \ {0} /\ Len(t) = Len(q) - 1 /\ Head(q) = q[1]
      /\ \A i \in 1 .. Len(q) - 1 : t[i] = q[i + 1]
  BY Removed
<1> HIDE DEF t
<1>1. ASSUME Silent(q, about) PROVE Silent(t, about) /\ Head(q) \notin about
  BY <1>0, <1>1, SMT DEF Silent
<1>2. ASSUME Silent(t, about), Head(q) \notin about, NEW i \in 1 .. Len(q)
      PROVE  q[i] \notin about
  <2>1. CASE i = 1
    BY <1>0, <1>2, <2>1
  <2>2. CASE i # 1
    <3>1. i - 1 \in 1 .. Len(t) /\ q[i] = t[i - 1]
      BY <1>0, <2>2, SMT
    <3>2. QED BY <1>2, <3>1 DEF Silent
  <2>3. QED BY <2>1, <2>2
<1>3. QED BY <1>1, <1>2 DEF Silent, t

LEMMA SaysLastAppended ==
    ASSUME NEW q \in Seq(Messages), NEW m \in Messages, NEW about, NEW so
    PROVE  /\ m \in about \cap so => SaysLast(Append(q, m), about, so)
           /\ m \notin about /\ SaysLast(q, about, so) => SaysLast(Append(q, m), about, so)
<1> HIDE DEF Messages
<1> DEFINE p == Append(q, m)
<1>0. /\ Len(q) \in Nat /\ Len(p) = Len(q) + 1 /\ p[Len(q) + 1] = m
      /\ \A i \in 1 .. Len(q) : p[i] = q[i]
  BY Appended
<1> HIDE DEF p
<1>1. ASSUME m \in about \cap so PROVE SaysLast(p, about, so)
  BY <1>0, <1>1, SMT DEF SaysLast
<1>2. ASSUME m \notin about, SaysLast(q, about, so), NEW i \in 1 .. Len(p),
             p[i] \in about \ so
      PROVE  \E j \in i + 1 .. Len(p) : p[j] \in about \cap so
  <2>1. i \in 1 .. Len(q) /\ p[i] = q[i]
    BY <1>0, <1>2, SMT
  <2>2. PICK j \in i + 1 .. Len(q) : q[j] \in about \cap so
    BY <1>2, <2>1 DEF SaysLast
  <2>3. j \in i + 1 .. Len(p) /\ p[j] = q[j]
    BY <1>0, <2>1, SMT
  <2>4. QED BY <2>2, <2>3
<1>3. QED BY <1>1, <1>2 DEF SaysLast, p

LEMMA SaysLastRemoved ==
    ASSUME NEW q \in Seq(Messages), q # <<>>, NEW about, NEW so, SaysLast(q, about, so)
    PROVE  /\ SaysLast(Tail(q), about, so)
           /\ Head(q) \in about /\ Silent(Tail(q), about) => Head(q) \in so
<1> DEFINE t == Tail(q)
<1>0. /\ Len(q) \in Nat \ {0} /\ Len(t) = Len(q) - 1 /\ Head(q) = q[1]
      /\ \A i \in 1 .. Len(q) - 1 : t[i] = q[i + 1]
  BY Removed
<1> HIDE DEF t
<1>1. ASSUME NEW i \in 1 .. Len(t), t[i] \in about \ so
      PROVE  \E j \in i + 1 .. Len(t) : t[j] \in about \cap so
  <2>1. i + 1 \in 1 .. Len(q) /\ q[i + 1] = t[i] /\ i \in Nat
    BY <1>0, SMT
  <2>2. PICK j \in (i + 1) + 1 .. Len(q) : q[j] \in about \cap so
    BY <1>1, <2>1 DEF SaysLast
  <2>3. j - 1 \in i + 1 .. Len(t) /\ t[j - 1] = q[j]
    BY <1>0, <2>1, SMT
  <2>4. QED BY <2>2, <2>3
<1>2. ASSUME Head(q) \in about, Silent(t, about) PROVE Head(q) \in so
  <2> SUFFICES ASSUME Head(q) \notin so PROVE FALSE
    OBVIOUS
  <2>1. 1 \in 1 .. Len(q) /\ q[1] \in about \ so
    BY <1>0, <1>2, SMT
  <2>2. PICK j \in 1 + 1 .. Len(q) : q[j] \in about \cap so
    BY <2>1 DEF SaysLast
  <2>3. j - 1 \in 1 .. Len(t) /\ t[j - 1] = q[j]
    BY <1>0, SMT
  <2>4. QED BY <1>2, <2>2, <2>3 DEF Silent
<1>3. QED BY <1>1, <1>2 DEF SaysLast, t

\* A message that neither takes the address nor the link leaves what the queue
\* brings; an address is brought to a link that is known in the end.
LEMMA BringsAppended ==
    ASSUME NEW q \in Seq(Messages), NEW m \in Messages, NEW now, NEW id, NEW a
    PROVE  /\ m \notin Downs(id) \cup Drops(id, a) /\ Brings(q, now, id, a)
                => Brings(Append(q, m), now, id, a)
           /\ m \in Gains(id, a) /\ SaysLast(q, OnLink(id), Ups(id))
                /\ (Silent(q, OnLink(id)) => now)
                => Brings(Append(q, m), now, id, a)
<1> HIDE DEF Messages
<1> DEFINE p == Append(q, m)
<1>0. /\ Len(q) \in Nat /\ Len(p) = Len(q) + 1 /\ p[Len(q) + 1] = m
      /\ \A i \in 1 .. Len(q) : p[i] = q[i]
  BY Appended
<1> HIDE DEF p
<1>1. ASSUME NEW i \in 1 .. Len(q), KnownAt(q, now, id, i) PROVE KnownAt(p, now, id, i)
  <2>1. \A k \in 1 .. i - 1 : k \in 1 .. Len(q) /\ p[k] = q[k]
    BY <1>0, SMT
  <2>2. ASSUME NEW j \in 1 .. i - 1, p[j] \in Downs(id)
        PROVE  \E k \in j + 1 .. i - 1 : p[k] \in Ups(id)
    <3>1. PICK k \in j + 1 .. i - 1 : q[k] \in Ups(id)
      BY <1>1, <2>1, <2>2 DEF KnownAt
    <3>2. k \in 1 .. i - 1
      BY <1>0, SMT
    <3>3. QED BY <2>1, <3>1, <3>2
  <2>3. QED BY <1>1, <2>1, <2>2 DEF KnownAt
<1>2. ASSUME m \notin Downs(id) \cup Drops(id, a), Brings(q, now, id, a)
      PROVE  Brings(p, now, id, a)
  <2>1. PICK i \in 1 .. Len(q) :
               /\ q[i] \in Gains(id, a) /\ KnownAt(q, now, id, i)
               /\ \A j \in i + 1 .. Len(q) : q[j] \notin Downs(id) \cup Drops(id, a)
    BY <1>2 DEF Brings
  <2>2. i \in 1 .. Len(p) /\ p[i] \in Gains(id, a) /\ KnownAt(p, now, id, i)
    BY <1>0, <1>1, <2>1, SMT
  <2>3. ASSUME NEW j \in i + 1 .. Len(p) PROVE p[j] \notin Downs(id) \cup Drops(id, a)
    <3>1. CASE j = Len(q) + 1
      BY <1>0, <1>2, <3>1
    <3>2. CASE j # Len(q) + 1
      <4>1. j \in i + 1 .. Len(q) /\ p[j] = q[j]
        BY <1>0, <3>2, SMT
      <4>2. QED BY <2>1, <4>1
    <3>3. QED BY <3>1, <3>2
  <2>4. QED BY <2>2, <2>3 DEF Brings
<1>3. ASSUME m \in Gains(id, a), SaysLast(q, OnLink(id), Ups(id)),
             Silent(q, OnLink(id)) => now
      PROVE  Brings(p, now, id, a)
  <2> DEFINE i == Len(q) + 1
  <2>1. ASSUME NEW j \in 1 .. i - 1, p[j] \in Downs(id)
        PROVE  \E k \in j + 1 .. i - 1 : p[k] \in Ups(id)
    <3>1. j \in 1 .. Len(q) /\ p[j] = q[j]
      BY <1>0, SMT
    <3>2. q[j] \in OnLink(id) \ Ups(id)
      BY <2>1, <3>1 DEF OnLink, Downs, Ups
    <3>3. PICK k \in j + 1 .. Len(q) : q[k] \in OnLink(id) \cap Ups(id)
      BY <1>3, <3>1, <3>2 DEF SaysLast
    <3>4. k \in j + 1 .. i - 1 /\ p[k] = q[k]
      BY <1>0, <3>1, SMT
    <3>5. QED BY <3>3, <3>4
  <2>2. now \/ \E k \in 1 .. i - 1 : p[k] \in Ups(id)
    <3> SUFFICES ASSUME ~now PROVE \E k \in 1 .. i - 1 : p[k] \in Ups(id)
      OBVIOUS
    <3>1. PICK j \in 1 .. Len(q) : q[j] \in OnLink(id)
      BY <1>3 DEF Silent
    <3>2. PICK k \in 1 .. Len(q) : q[k] \in Ups(id)
      <4>1. CASE q[j] \in Ups(id)
        BY <4>1
      <4>2. CASE q[j] \notin Ups(id)
        <5>1. PICK k \in j + 1 .. Len(q) : q[k] \in OnLink(id) \cap Ups(id)
          BY <1>3, <3>1, <4>2 DEF SaysLast
        <5>2. k \in 1 .. Len(q)
          BY <1>0, SMT
        <5>3. QED BY <5>1, <5>2
      <4>3. QED BY <4>1, <4>2
    <3>3. k \in 1 .. i - 1 /\ p[k] = q[k]
      BY <1>0, SMT
    <3>4. QED BY <3>2, <3>3
  <2>3. i \in 1 .. Len(p) /\ p[i] = m /\ \A j \in i + 1 .. Len(p) : FALSE
    BY <1>0, SMT
  <2> HIDE DEF i
  <2>4. KnownAt(p, now, id, i)
    BY <2>1, <2>2 DEF KnownAt
  <2>5. QED BY <1>3, <2>3, <2>4 DEF Brings
<1>4. QED BY <1>2, <1>3 DEF p

\* The first message is read: what the queue brings it goes on bringing, unless
\* this was it.
LEMMA BringsRemoved ==
    ASSUME NEW q \in Seq(Messages), q # <<>>, NEW now, NEW next, NEW id, NEW a,
           Brings(q, now, id, a),
           Head(q) \in Ups(id) => next,
           Head(q) \notin OnLink(id) => (now => next)
    PROVE  \/ Brings(Tail(q), next, id, a)
           \/ now /\ Head(q) \in Gains(id, a) /\ Silent(Tail(q), Downs(id) \cup Drops(id, a))
<1> DEFINE t == Tail(q)
<1>0. /\ Len(q) \in Nat \ {0} /\ Len(t) = Len(q) - 1 /\ Head(q) = q[1]
      /\ \A i \in 1 .. Len(q) - 1 : t[i] = q[i + 1]
  BY Removed
<1> HIDE DEF t
<1>1. PICK i \in 1 .. Len(q) :
             /\ q[i] \in Gains(id, a) /\ KnownAt(q, now, id, i)
             /\ \A j \in i + 1 .. Len(q) : q[j] \notin Downs(id) \cup Drops(id, a)
  BY DEF Brings
<1>2. CASE i = 1
  <2>1. now
    <3>1. \A k \in 1 .. i - 1 : FALSE
      BY <1>2, SMT
    <3>2. QED BY <1>1, <3>1 DEF KnownAt
  <2>2. ASSUME NEW j \in 1 .. Len(t) PROVE t[j] \notin Downs(id) \cup Drops(id, a)
    <3>1. j + 1 \in i + 1 .. Len(q) /\ t[j] = q[j + 1]
      BY <1>0, <1>2, SMT
    <3>2. QED BY <1>1, <3>1
  <2>3. QED BY <1>0, <1>1, <1>2, <2>1, <2>2 DEF Silent, t
<1>3. CASE i # 1
  <2> DEFINE h == i - 1
  <2>1. h \in 1 .. Len(t) /\ h + 1 = i /\ t[h] = q[i]
    BY <1>0, <1>3, SMT
  <2>2. ASSUME NEW j \in h + 1 .. Len(t) PROVE t[j] \notin Downs(id) \cup Drops(id, a)
    <3>1. j + 1 \in i + 1 .. Len(q) /\ t[j] = q[j + 1]
      BY <1>0, <2>1, SMT
    <3>2. QED BY <1>1, <3>1
  <2>3. ASSUME NEW j \in 1 .. h - 1, t[j] \in Downs(id)
        PROVE  \E k \in j + 1 .. h - 1 : t[k] \in Ups(id)
    <3>1. j + 1 \in 1 .. i - 1 /\ t[j] = q[j + 1]
      BY <1>0, <2>1, SMT
    <3>2. PICK k \in (j + 1) + 1 .. i - 1 : q[k] \in Ups(id)
      BY <1>1, <2>3, <3>1 DEF KnownAt
    <3>3. k - 1 \in j + 1 .. h - 1 /\ t[k - 1] = q[k]
      BY <1>0, <2>1, SMT
    <3>4. QED BY <3>2, <3>3
  <2>4. ASSUME ~next PROVE \E k \in 1 .. h - 1 : t[k] \in Ups(id)
    <3>1. PICK k \in 1 .. i - 1 : q[k] \in Ups(id) /\ k # 1
      <4>1. CASE Head(q) \in Downs(id)
        <5>1. 1 \in 1 .. i - 1 /\ q[1] \in Downs(id)
          BY <1>0, <1>3, <4>1, SMT
        <5>2. PICK k \in 1 + 1 .. i - 1 : q[k] \in Ups(id)
          BY <1>1, <5>1 DEF KnownAt
        <5>3. k \in 1 .. i - 1 /\ k # 1
          BY SMT
        <5>4. QED BY <5>2, <5>3
      <4>2. CASE Head(q) \notin Downs(id)
        <5>1. ~now /\ Head(q) \notin Ups(id)
          BY <2>4, <4>2 DEF OnLink
        <5>2. PICK k \in 1 .. i - 1 : q[k] \in Ups(id)
          BY <1>1, <5>1 DEF KnownAt
        <5>3. QED BY <1>0, <5>1, <5>2
      <4>3. QED BY <4>1, <4>2
    <3>2. k - 1 \in 1 .. h - 1 /\ t[k - 1] = q[k]
      BY <1>0, <2>1, <3>1, SMT
    <3>3. QED BY <3>1, <3>2
  <2> HIDE DEF h
  <2>5. KnownAt(t, next, id, h)
    BY <2>3, <2>4 DEF KnownAt
  <2>6. Brings(t, next, id, a)
    BY <1>1, <2>1, <2>2, <2>5 DEF Brings
  <2>7. QED BY <2>6 DEF t
<1>4. QED BY <1>2, <1>3
-----------------------------------------------------------------------------
(* Messages.                                                               *)

LEMMA MessageParts ==
    ASSUME NEW m \in Messages
    PROVE  /\ m.type = "NEWLINK" => m.id \in Ids /\ m.attr \in Attrs /\ m.wireless \in BOOLEAN
           /\ m.type = "DELLINK" => m.id \in Ids
           /\ m.type \in {"NEWADDR", "DELADDR"} => m.id \in Ids /\ m.addr \in Addrs
           /\ m.type \in {"NEWROUTE", "DELROUTE"} => m.route \in Routes
BY SMT DEF Messages

LEMMA MessagesMade ==
    /\ \A id \in Ids, attr \in Attrs, w \in BOOLEAN :
          LET m == NewLink(id, attr, w)
          IN  /\ m \in Messages /\ m.type = "NEWLINK" /\ m.id = id /\ m.attr = attr
              /\ m.wireless = w
    /\ \A id \in Ids : LET m == DelLinkMsg(id)
                       IN  m \in Messages /\ m.type = "DELLINK" /\ m.id = id
    /\ \A type \in {"NEWADDR", "DELADDR"}, id \in Ids, a \in Addrs :
          LET m == AddrMsg(type, id, a)
          IN  m \in Messages /\ m.type = type /\ m.id = id /\ m.addr = a
    /\ \A type \in {"NEWROUTE", "DELROUTE"}, r \in Routes :
          LET m == RouteMsg(type, r)
          IN  m \in Messages /\ m.type = type /\ m.route = r
    /\ \A type \in {"DONE", "ERROR"} :
          LET m == [type |-> type] IN m \in Messages /\ m.type = type
BY SMT DEF Messages, NewLink, DelLinkMsg, AddrMsg, RouteMsg

\* What a step of the kernel that notifies does to the socket.
LEMMA Notified ==
    ASSUME TypeOK, NEW m \in Messages, Notify(<<m>>)
    PROVE  /\ queue' \in Seq(Messages) /\ overrun' \in BOOLEAN /\ edge' \in BOOLEAN
           /\ lost' \in BOOLEAN
           /\ ~lost' => ~lost
           /\ ~lost' => IF Listening THEN queue' = Append(queue, m) ELSE UNCHANGED queue
           /\ queue' \in {queue, Append(queue, m)}
<1>0. queue \in Seq(Messages) /\ overrun \in BOOLEAN /\ edge \in BOOLEAN /\ lost \in BOOLEAN
  BY DEF TypeOK
<1>1. queue \o <<m>> = Append(queue, m) /\ Append(queue, m) \in Seq(Messages)
  BY <1>0, AppendIsConcat, Appended
<1>2. CASE ~Listening
  BY <1>0, <1>2 DEF Notify
<1>3. CASE Listening
  BY <1>0, <1>1, <1>3 DEF Notify
<1>4. QED BY <1>2, <1>3

LEMMA Enqueued ==
    ASSUME TypeOK, NEW m \in Messages, Enqueue(m)
    PROVE  /\ queue' = Append(queue, m) /\ queue' \in Seq(Messages) /\ edge' \in BOOLEAN
           /\ UNCHANGED <<linksVars, routesVars, ownVars, kLinks, kRoutes, events,
                          overrun, refused, mixed, known, clash>>
BY Appended DEF TypeOK, Enqueue

-----------------------------------------------------------------------------
(* Types.                                                                  *)

LEMMA KernelTypes == TypeOK /\ Kernel => TypeOK'
<1> SUFFICES ASSUME TypeOK, Kernel PROVE TypeOK'
  OBVIOUS
<1>1. ASSUME NEW m \in Messages, Notify(<<m>>), Changing,
             kLinks' \in [Ids -> Facts \cup {Absent}], kRoutes' \subseteq Routes
      PROVE  TypeOK'
  <2>1. events' \in 0 .. MaxEvents
    BY <1>1, RtnetlinkAssumption, SMT DEF Changing, TypeOK
  <2>2. LinksTypeOK' /\ RoutesTypeOK'
    BY <1>1, Zenon
    DEF TypeOK, LinksTypeOK, RoutesTypeOK, Changing, linksVars, routesVars
  <2>3. /\ queue' \in Seq(Messages) /\ overrun' \in BOOLEAN /\ edge' \in BOOLEAN
        /\ lost' \in BOOLEAN
    BY <1>1, Notified
  <2> HIDE DEF Messages
  <2> QED
    BY <1>1, <2>1, <2>2, <2>3, Zenon
    DEF TypeOK, Changing, linksVars, routesVars, ownVars
<1>2. CASE KernelAddsLink \/ KernelSetsLink
  <2>1. PICK id \in Ids, attr \in Attrs :
               /\ Changing /\ Notify(<<NewLink(id, attr, FALSE)>>) /\ UNCHANGED kRoutes
               /\ \/ kLinks' = [kLinks EXCEPT ![id] = [attr |-> attr, addrs |-> {}]]
                  \/ kLinks[id] # Absent /\ kLinks' = [kLinks EXCEPT ![id].attr = attr]
    BY <1>2 DEF KernelAddsLink, KernelSetsLink
  <2>2. kLinks' \in [Ids -> Facts \cup {Absent}]
    BY <2>1, SMT DEF TypeOK, Facts
  <2>3. QED BY <1>1, <2>1, <2>2, MessagesMade DEF TypeOK
<1>3. CASE KernelRemovesLink
  <2>1. PICK id \in Ids :
               /\ Changing /\ Notify(<<DelLinkMsg(id)>>) /\ UNCHANGED kRoutes
               /\ kLinks' = [kLinks EXCEPT ![id] = Absent]
    BY <1>3 DEF KernelRemovesLink
  <2>2. kLinks' \in [Ids -> Facts \cup {Absent}]
    BY <2>1, Zenon DEF TypeOK
  <2>3. QED BY <1>1, <2>1, <2>2, MessagesMade DEF TypeOK
<1>4. CASE KernelAddsAddr \/ KernelDelsAddr
  <2>1. PICK id \in Ids, a \in Addrs, type \in {"NEWADDR", "DELADDR"} :
               /\ Changing /\ Notify(<<AddrMsg(type, id, a)>>) /\ UNCHANGED kRoutes
               /\ kLinks[id] # Absent
               /\ \/ kLinks' = [kLinks EXCEPT ![id].addrs = @ \cup {a}]
                  \/ kLinks' = [kLinks EXCEPT ![id].addrs = @ \ {a}]
    BY <1>4 DEF KernelAddsAddr, KernelDelsAddr
  <2>2. kLinks' \in [Ids -> Facts \cup {Absent}]
    BY <2>1, SMT DEF TypeOK, Facts
  <2>3. QED BY <1>1, <2>1, <2>2, MessagesMade DEF TypeOK
<1>5. CASE KernelAddsRoute \/ KernelDelsRoute
  <2>1. PICK r \in Routes, type \in {"NEWROUTE", "DELROUTE"} :
               /\ Changing /\ Notify(<<RouteMsg(type, r)>>) /\ UNCHANGED kLinks
               /\ kRoutes' \in {kRoutes \cup {r}, kRoutes \ {r}}
    BY <1>5 DEF KernelAddsRoute, KernelDelsRoute
  <2>2. QED BY <1>1, <2>1, MessagesMade DEF TypeOK
<1>6. CASE WirelessEvent
  <2>1. PICK id \in Ids, attr \in Attrs :
               /\ Changing /\ Notify(<<NewLink(id, attr, TRUE)>>)
               /\ UNCHANGED <<kLinks, kRoutes>>
    BY <1>6 DEF WirelessEvent
  <2>2. QED BY <1>1, <2>1, MessagesMade DEF TypeOK
<1>7. QED BY <1>2, <1>3, <1>4, <1>5, <1>6 DEF Kernel

LEMMA DumpTypes == TypeOK /\ Dump => TypeOK'
<1> SUFFICES ASSUME TypeOK, Dump PROVE TypeOK'
  OBVIOUS
<1>1. ASSUME NEW m \in Messages, Enqueue(m), dump' \in Dumps \cup {"none"},
             todo' \subseteq Universe(dump'), lost' \in {lost, TRUE}
      PROVE  TypeOK'
  <2>1. queue' \in Seq(Messages) /\ edge' \in BOOLEAN
    BY <1>1, Enqueued
  <2>2. LinksTypeOK' /\ RoutesTypeOK'
    BY <1>1, Zenon
    DEF TypeOK, LinksTypeOK, RoutesTypeOK, Enqueue, linksVars, routesVars
  <2> HIDE DEF Messages
  <2> QED
    BY <1>1, <2>1, <2>2, Zenon DEF TypeOK, Enqueue, ownVars
<1>2. CASE DumpReports
  <2>1. PICK x \in todo \cap Subjects(dump) :
               /\ Enqueue(Report(dump, x)) /\ todo' = todo \ {x} /\ dump' = dump
               /\ lost' = lost
    BY <1>2 DEF DumpReports
  <2>2. Report(dump, x) \in Messages
    <3>1. CASE dump = "link"
      <4>1. x \in Ids /\ kLinks[x].attr \in Attrs
        BY <2>1, <3>1 DEF Subjects, TypeOK, Facts
      <4>2. QED BY <3>1, <4>1, MessagesMade DEF Report
    <3>2. CASE dump = "addr"
      <4>1. x[1] \in Ids /\ x[2] \in Addrs
        BY <2>1, <3>2 DEF Subjects
      <4>2. QED BY <3>2, <4>1, MessagesMade DEF Report
    <3>3. CASE dump = "route"
      BY <2>1, <3>3, MessagesMade DEF Subjects, Report, TypeOK
    <3>4. QED BY <1>2, <3>1, <3>2, <3>3 DEF DumpReports, TypeOK, Dumps
  <2>3. todo' \subseteq Universe(dump') /\ dump' \in Dumps \cup {"none"}
    BY <2>1 DEF TypeOK
  <2>4. QED BY <1>1, <2>1, <2>2, <2>3
<1>3. CASE DumpEnds \/ DumpRejected
  <2>1. \E m \in Messages : Enqueue(m)
    BY <1>3, MessagesMade DEF DumpEnds, DumpRejected
  <2>2. dump' \in Dumps \cup {"none"} /\ todo' \subseteq Universe(dump') /\ lost' \in {lost, TRUE}
    BY <1>3 DEF DumpEnds, DumpRejected
  <2>3. QED BY <1>1, <2>1, <2>2
<1>4. QED BY <1>2, <1>3 DEF Dump

\* What the enumerator does with a link and with the table.
LEMMA GetLinkType ==
    ASSUME LinksTypeOK, NEW id \in Ids PROVE GetLink(id) \in LinkObjects \cup {Absent}
BY DEF LinksTypeOK, GetLink

LEMMA UpdatedType ==
    ASSUME NEW link \in LinkObjects, NEW attr \in Attrs, NEW addrs \in SUBSET Addrs
    PROVE  /\ Updated(link, attr, addrs) \in LinkObjects
           /\ Updated(link, attr, addrs).attr = attr /\ Updated(link, attr, addrs).addrs = addrs
           /\ ~Updated(link, attr, addrs).changed
                => ~link.changed /\ link.attr = attr /\ link.addrs = addrs
<1>1. PICK c \in BOOLEAN : c = (link.changed \/ link.attr # attr \/ link.addrs # addrs)
  OBVIOUS
<1>2. Updated(link, attr, addrs) = [attr |-> attr, addrs |-> addrs, changed |-> c]
  BY <1>1, Zenon DEF Updated
<1>3. [attr |-> attr, addrs |-> addrs, changed |-> c] \in LinkObjects
  BY DEF LinkObjects
<1> DEFINE u == Updated(link, attr, addrs)
<1>4. u \in LinkObjects
  BY <1>2, <1>3
<1>5. u.attr = attr /\ u.addrs = addrs /\ u.changed = c
  BY <1>2
<1> HIDE DEF u
<1>6. ~c => ~link.changed /\ link.attr = attr /\ link.addrs = addrs
  BY <1>1, Zenon
<1>7. ~u.changed => ~link.changed /\ link.attr = attr /\ link.addrs = addrs
  BY <1>5, <1>6, Zenon
<1>8. QED BY <1>4, <1>5, <1>7, Zenon DEF u

LEMMA ObjectsPresent == Absent \notin Facts /\ Absent \notin LinkObjects
BY LinksAssumption DEF Facts, LinkObjects

\* A message about a link that is known, and one that makes a link.
LEMMA LinkUpdated ==
    ASSUME LinksTypeOK, NEW id \in Ids, GetLink(id) # Absent,
           NEW attr \in Attrs, NEW addrs \in SUBSET Addrs,
           SetLink(id, Updated(GetLink(id), attr, addrs)),
           UNCHANGED <<interfaces, deleted, told>>
    PROVE  LinksTypeOK'
<1>1. Updated(GetLink(id), attr, addrs) \in LinkObjects
  BY GetLinkType, UpdatedType
<1>2. QED BY <1>1, Zenon DEF SetLink, LinksTypeOK

LEMMA SetAttrTypes ==
    ASSUME LinksTypeOK, NEW id \in Ids, GetLink(id) # Absent, NEW attr \in Attrs,
           SetAttr(id, attr)
    PROVE  LinksTypeOK'
<1>1. GetLink(id) \in LinkObjects /\ GetLink(id).addrs \in SUBSET Addrs
  BY GetLinkType DEF LinkObjects
<1>2. QED BY <1>1, LinkUpdated DEF SetAttr

LEMMA AddressTypes ==
    ASSUME LinksTypeOK, NEW id \in Ids, GetLink(id) # Absent, NEW a \in Addrs,
           AddAddr(id, a) \/ DelAddr(id, a)
    PROVE  LinksTypeOK'
<1>1. /\ GetLink(id).attr \in Attrs
      /\ GetLink(id).addrs \cup {a} \in SUBSET Addrs /\ GetLink(id).addrs \ {a} \in SUBSET Addrs
  BY GetLinkType DEF LinkObjects
<1>2. QED BY <1>1, LinkUpdated DEF AddAddr, DelAddr

LEMMA AllocLinkTypes ==
    ASSUME LinksTypeOK, NEW id \in Ids, NEW attr \in Attrs, AllocLink(id, attr)
    PROVE  LinksTypeOK'
<1>1. [attr |-> attr, addrs |-> {}, changed |-> TRUE] \in LinkObjects
  BY DEF LinkObjects
<1>2. QED BY <1>1, Zenon DEF AllocLink, LinksTypeOK

LEMMA FlushTypes ==
    /\ LinksTypeOK /\ FlushLinks => LinksTypeOK'
    /\ RoutesTypeOK /\ FlushRoutes => RoutesTypeOK'
<1>1. ASSUME LinksTypeOK, FlushLinks PROVE LinksTypeOK'
  <2> DEFINE leaving == {i \in deleted : implementations[i] # Absent}
             entering == {i \in Ids : added[i] # Absent}
             left(i) == IF i \in leaving THEN Absent ELSE implementations[i]
             next(i) == IF i \in entering THEN added[i] ELSE left(i)
  <2>1. \A i \in Ids : next(i) \in LinkObjects \cup {Absent}
    BY <1>1 DEF LinksTypeOK
  <2>2. \A i \in Ids : next(i) # Absent => /\ [next(i) EXCEPT !.changed = FALSE] \in LinkObjects
                                           /\ FactsOf(next(i)) \in Facts
    BY <2>1 DEF LinkObjects, Facts, FactsOf
  <2>3. /\ implementations' = [i \in Ids |-> IF next(i) = Absent THEN Absent
                                             ELSE [next(i) EXCEPT !.changed = FALSE]]
        /\ interfaces' = (interfaces \ leaving) \cup entering
        /\ told' = [i \in Ids |-> CASE next(i) = Absent -> Absent
                                    [] next(i) # Absent /\ (next(i).changed \/ i \in entering)
                                         -> FactsOf(next(i))
                                    [] OTHER -> told[i]]
        /\ added' = [i \in Ids |-> Absent] /\ deleted' = {}
    BY <1>1 DEF FlushLinks
  <2>4. interfaces' \subseteq Ids
    BY <1>1, <2>3 DEF LinksTypeOK
  <2> HIDE DEF next, leaving, entering
  <2>5. implementations' \in [Ids -> LinkObjects \cup {Absent}]
    BY <2>2, <2>3, Zenon
  <2>6. told' \in [Ids -> Facts \cup {Absent}]
    BY <1>1, <2>2, <2>3 DEF LinksTypeOK
  <2>7. QED BY <2>3, <2>4, <2>5, <2>6 DEF LinksTypeOK
<1>2. ASSUME RoutesTypeOK, FlushRoutes PROVE RoutesTypeOK'
  <2>1. \A r \in Routes : Left(r) + addedRoutes[r] \in Nat /\ toldRoutes[r] \in Nat
    BY <1>2, SMT DEF RoutesTypeOK, Left
  <2>2. table' \in [Routes -> Nat] /\ \A r \in Routes : table'[r] \in Nat
    BY <1>2, <2>1, Zenon DEF FlushRoutes
  <2>3. toldRoutes' \in [Routes -> Nat]
    BY <1>2, <2>1, <2>2, Zenon DEF FlushRoutes
  <2>4. QED BY <1>2, <2>2, <2>3, SMT DEF RoutesTypeOK, FlushRoutes, None
<1>3. QED BY <1>1, <1>2

LEMMA EnumeratorTypes == TypeOK /\ (OpenSock \/ FirstRequest \/ OnSock) => TypeOK'
<1> SUFFICES ASSUME TypeOK, OpenSock \/ FirstRequest \/ OnSock PROVE TypeOK'
  OBVIOUS
<1> HIDE DEF Messages
<1> DEFINE m == Head(queue)
<1>0. UNCHANGED linksVars => LinksTypeOK'
  BY Zenon DEF TypeOK, LinksTypeOK, linksVars
<1>1. UNCHANGED routesVars => RoutesTypeOK'
  BY Zenon DEF TypeOK, RoutesTypeOK, routesVars
<1>2. ASSUME DoNextRequest \/ UNCHANGED <<requested, dump, todo, refused>>
      PROVE  /\ requested' \subseteq Dumps /\ dump' \in Dumps \cup {"none"}
             /\ todo' \subseteq Universe(dump') /\ refused' \in BOOLEAN
  BY <1>2 DEF DoNextRequest, Request, Dumps, TypeOK
<1>3. CASE OpenSock \/ SockError \/ SockReady
  BY <1>0, <1>1, <1>3, Zenon
  DEF OpenSock, SockError, SockReady, TypeOK, ownVars, kernelVars, sockVars, histVars
<1>4. CASE FirstRequest
  BY <1>0, <1>1, <1>2, <1>4, Zenon DEF FirstRequest, TypeOK, sockVars
<1>5. CASE RecvEnds
  BY <1>5, FlushTypes, Zenon DEF RecvEnds, TypeOK, kernelVars, histVars
<1>6. ASSUME NEW types, Receives(types)
      PROVE  queue' \in Seq(Messages) /\ m \in Messages /\ m.type \in types
  BY <1>6, Removed DEF Receives, TypeOK
<1>7. CASE RecvDone
  <2>1. /\ Receives({"DONE"}) /\ DoNextRequest
        /\ UNCHANGED <<linksVars, routesVars, mixed, known, clash>>
    BY <1>7 DEF RecvDone
  <2>2. queue' \in Seq(Messages)
    BY <1>6, <2>1
  <2>3. QED BY <1>0, <1>1, <1>2, <2>1, <2>2, Zenon DEF Receives, TypeOK
<1>8. ASSUME NEW types, ReceivesReport(types), LinksTypeOK', RoutesTypeOK',
             mixed' \subseteq Ids, known' \subseteq Routes, clash' \subseteq Routes
      PROVE  TypeOK'
  <2>1. queue' \in Seq(Messages)
    BY <1>6, <1>8 DEF ReceivesReport
  <2>2. QED BY <1>2, <1>8, <2>1, Zenon DEF ReceivesReport, Receives, TypeOK
<1>9. CASE RecvNewLink
  <2>1. /\ ReceivesReport({"NEWLINK"}) /\ UNCHANGED <<routesVars, known, clash>>
        /\ \/ GetLink(m.id) # Absent /\ SetAttr(m.id, m.attr)
           \/ UNCHANGED linksVars \/ AllocLink(m.id, m.attr)
        /\ mixed' \in {mixed, mixed \cup {m.id}}
    BY <1>9 DEF RecvNewLink
  <2>2. m.id \in Ids /\ m.attr \in Attrs
    BY <1>6, <2>1, MessageParts DEF ReceivesReport
  <2>3. LinksTypeOK'
    BY <1>0, <2>1, <2>2, SetAttrTypes, AllocLinkTypes DEF TypeOK
  <2>4. mixed' \subseteq Ids /\ known' \subseteq Routes /\ clash' \subseteq Routes
    BY <2>1, <2>2 DEF TypeOK
  <2>5. QED BY <1>1, <1>8, <2>1, <2>3, <2>4
<1>10. CASE RecvDelLink
  <2>1. /\ ReceivesReport({"DELLINK"}) /\ UNCHANGED <<routesVars, known, clash>>
        /\ DelLink(m.id) /\ mixed' \in {mixed, mixed \cup {m.id}}
    BY <1>10 DEF RecvDelLink
  <2>2. m.id \in Ids
    BY <1>6, <2>1, MessageParts DEF ReceivesReport
  <2>3. LinksTypeOK'
    BY <2>1, <2>2 DEF TypeOK, LinksTypeOK, DelLink
  <2>4. mixed' \subseteq Ids /\ known' \subseteq Routes /\ clash' \subseteq Routes
    BY <2>1, <2>2 DEF TypeOK
  <2>5. QED BY <1>1, <1>8, <2>1, <2>3, <2>4
<1>11. CASE RecvAddr
  <2>1. /\ ReceivesReport({"NEWADDR", "DELADDR"}) /\ UNCHANGED <<routesVars, mixed, known, clash>>
        /\ \/ UNCHANGED linksVars
           \/ GetLink(m.id) # Absent /\ (AddAddr(m.id, m.addr) \/ DelAddr(m.id, m.addr))
    BY <1>11 DEF RecvAddr
  <2>2. m.id \in Ids /\ m.addr \in Addrs
    BY <1>6, <2>1, MessageParts DEF ReceivesReport
  <2>3. LinksTypeOK'
    BY <1>0, <2>1, <2>2, AddressTypes DEF TypeOK
  <2>4. mixed' \subseteq Ids /\ known' \subseteq Routes /\ clash' \subseteq Routes
    BY <2>1 DEF TypeOK
  <2>5. QED BY <1>1, <1>8, <2>1, <2>3, <2>4
<1>12. CASE RecvNewRoute \/ RecvDelRoute
  <2>1. PICK types \in {{"NEWROUTE"}, {"DELROUTE"}} :
           /\ ReceivesReport(types) /\ UNCHANGED <<linksVars, mixed>>
           /\ AddRoute(m.route) \/ DelRoute(m.route)
           /\ known' \in {known \cup {m.route}, known \ {m.route}}
           /\ clash' \in {clash, clash \cup {m.route}}
    BY <1>12, SMT DEF RecvNewRoute, RecvDelRoute
  <2>2. m.route \in Routes
    BY <1>6, <2>1, MessageParts DEF ReceivesReport
  <2>3. RoutesTypeOK'
    BY <2>1, <2>2, SMT DEF TypeOK, RoutesTypeOK, AddRoute, DelRoute
  <2>4. mixed' \subseteq Ids /\ known' \subseteq Routes /\ clash' \subseteq Routes
    BY <2>1, <2>2 DEF TypeOK
  <2>5. QED BY <1>0, <1>8, <2>1, <2>3, <2>4
<1>13. CASE RecvError
  <2>1. ReceivesReport({"ERROR"}) /\ UNCHANGED <<linksVars, routesVars, mixed, known, clash>>
    BY <1>13 DEF RecvError
  <2>2. mixed' \subseteq Ids /\ known' \subseteq Routes /\ clash' \subseteq Routes
    BY <2>1 DEF TypeOK
  <2>3. QED BY <1>0, <1>1, <1>8, <2>1, <2>2
<1>14. QED
  BY <1>3, <1>4, <1>5, <1>7, <1>9, <1>10, <1>11, <1>12, <1>13 DEF OnSock

-----------------------------------------------------------------------------
(* Links.                                                                  *)

\* What of the invariant is about links by themselves.
LinksSound == LinksTypeOK /\ AllocatedOnce /\ LinksTold /\ EntersOrLeaves

LEMMA Views ==
    ASSUME LinksTypeOK, NEW id \in Ids
    PROVE  /\ GetLink(id) # Absent => /\ GetLink(id) \in LinkObjects
                                      /\ GetLink(id).attr \in Attrs
                                      /\ GetLink(id).addrs \in SUBSET Addrs
           /\ Known(id) <=> id \notin deleted /\ GetLink(id) # Absent
           /\ Known(id) => /\ View(id) = FactsOf(GetLink(id)) /\ View(id) \in Facts
                           /\ View(id).attr = GetLink(id).attr
                           /\ View(id).addrs = GetLink(id).addrs
<1>1. GetLink(id) \in LinkObjects \cup {Absent}
  BY GetLinkType
<1>2. \A l \in LinkObjects : /\ l.attr \in Attrs /\ l.addrs \in SUBSET Addrs
                             /\ FactsOf(l) \in Facts
                             /\ FactsOf(l).attr = l.attr /\ FactsOf(l).addrs = l.addrs
  BY DEF LinkObjects, Facts, FactsOf
<1>3. QED BY <1>1, <1>2, ObjectsPresent DEF View, Known

\* A link that is known becomes another.
LEMMA LinkSet ==
    ASSUME LinksTypeOK, NEW id \in Ids, GetLink(id) # Absent, NEW link \in LinkObjects,
           SetLink(id, link), UNCHANGED deleted
    PROVE  /\ GetLink(id)' = link
           /\ \A i \in Ids \ {id} : GetLink(i)' = GetLink(i)
           /\ \A i \in Ids : /\ implementations'[i] = Absent <=> implementations[i] = Absent
                             /\ added'[i] = Absent <=> added[i] = Absent
           /\ \A i \in Ids \ {id} : implementations'[i] = implementations[i]
           /\ implementations[id] # Absent => implementations'[id] = link
<1>0. link # Absent
  BY ObjectsPresent
<1>1. CASE implementations[id] # Absent
  BY <1>0, <1>1, Zenon DEF SetLink, LinksTypeOK, GetLink
<1>2. CASE implementations[id] = Absent
  BY <1>0, <1>2, Zenon DEF SetLink, LinksTypeOK, GetLink
<1>3. QED BY <1>1, <1>2

LEMMA LinkUpdatedSound ==
    ASSUME LinksSound, NEW id \in Ids, GetLink(id) # Absent,
           NEW attr \in Attrs, NEW addrs \in SUBSET Addrs,
           SetLink(id, Updated(GetLink(id), attr, addrs)),
           UNCHANGED <<interfaces, deleted, told>>, mixed \subseteq mixed'
    PROVE  /\ LinksSound'
           /\ \A i \in Ids \ {id} : View(i)' = View(i)
           /\ Known(id)' <=> Known(id)
           /\ Known(id) => View(id)'.attr = attr /\ View(id)'.addrs = addrs
<1> DEFINE link == Updated(GetLink(id), attr, addrs)
<1>0. LinksTypeOK /\ GetLink(id) \in LinkObjects
  BY Views DEF LinksSound
<1>1. /\ link \in LinkObjects /\ link.attr = attr /\ link.addrs = addrs
      /\ ~link.changed => /\ ~GetLink(id).changed
                          /\ GetLink(id).attr = attr /\ GetLink(id).addrs = addrs
  BY <1>0, UpdatedType
<1> HIDE DEF link
<1>2. SetLink(id, link)
  BY DEF link
<1>3. /\ GetLink(id)' = link
      /\ \A i \in Ids \ {id} : GetLink(i)' = GetLink(i)
      /\ \A i \in Ids : /\ implementations'[i] = Absent <=> implementations[i] = Absent
                        /\ added'[i] = Absent <=> added[i] = Absent
      /\ \A i \in Ids \ {id} : implementations'[i] = implementations[i]
      /\ implementations[id] # Absent => implementations'[id] = link
  BY <1>0, <1>1, <1>2, LinkSet
<1>4. LinksTypeOK'
  BY <1>0, LinkUpdated
<1>5. AllocatedOnce' /\ EntersOrLeaves'
  BY <1>0, <1>3 DEF LinksSound, AllocatedOnce, EntersOrLeaves, LinksTypeOK
<1>6. LinksTold'
  <2>1. ASSUME NEW i \in Ids
        PROVE  \/ told'[i] = (IF implementations'[i] = Absent THEN Absent
                              ELSE FactsOf(implementations'[i]))
               \/ implementations'[i] # Absent /\ implementations'[i].changed
    <3>1. CASE i # id \/ implementations[id] = Absent
      <4>1. implementations'[i] = implementations[i] /\ told'[i] = told[i]
        BY <1>3, <3>1
      <4>2. QED BY <4>1 DEF LinksSound, LinksTold
    <3>2. CASE i = id /\ implementations[id] # Absent
      <4>1. /\ implementations'[i] = link /\ implementations'[i] # Absent /\ told'[i] = told[i]
            /\ GetLink(id) = implementations[i]
        BY <1>3, <3>2 DEF GetLink
      <4>2. CASE link.changed
        BY <4>1, <4>2
      <4>3. CASE ~link.changed
        <5>1. told[i] = FactsOf(implementations[i])
          BY <1>1, <3>2, <4>1, <4>3 DEF LinksSound, LinksTold
        <5>2. FactsOf(implementations[i]) = FactsOf(link)
          BY <1>1, <4>1, <4>3 DEF FactsOf
        <5>3. QED BY <4>1, <5>1, <5>2
      <4>4. QED BY <4>2, <4>3
    <3>3. QED BY <3>1, <3>2
  <2>2. interfaces' = {i \in Ids : implementations'[i] # Absent}
    BY <1>3 DEF LinksSound, LinksTold
  <2>3. QED BY <2>1, <2>2 DEF LinksTold
<1>7. \A i \in Ids \ {id} : View(i)' = View(i)
  BY <1>3 DEF View
<1>8. /\ View(id)' = (IF id \in deleted THEN Absent ELSE FactsOf(link))
      /\ View(id) = (IF id \in deleted THEN Absent ELSE FactsOf(GetLink(id)))
  BY <1>1, <1>3, ObjectsPresent DEF View
<1>9. /\ FactsOf(link) \in Facts /\ FactsOf(GetLink(id)) \in Facts
      /\ FactsOf(link).attr = attr /\ FactsOf(link).addrs = addrs
  BY <1>0, <1>1 DEF FactsOf, Facts, LinkObjects
<1>10. /\ Known(id)' <=> Known(id)
       /\ Known(id) => View(id)'.attr = attr /\ View(id)'.addrs = addrs
  BY <1>8, <1>9, ObjectsPresent DEF Known
<1>11. QED BY <1>4, <1>5, <1>6, <1>7, <1>10 DEF LinksSound

LEMMA AllocLinkSound ==
    ASSUME LinksSound, NEW id \in Ids, GetLink(id) = Absent, NEW attr \in Attrs,
           AllocLink(id, attr), mixed \subseteq mixed', id \notin mixed' => id \notin deleted
    PROVE  /\ LinksSound'
           /\ \A i \in Ids \ {id} : View(i)' = View(i)
           /\ id \notin mixed' => Known(id)' /\ View(id)'.attr = attr /\ View(id)'.addrs = {}
<1> DEFINE link == [attr |-> attr, addrs |-> {}, changed |-> TRUE]
<1>0. LinksTypeOK /\ implementations[id] = Absent
  BY DEF LinksSound, GetLink
<1>1. LinksTypeOK'
  BY <1>0, AllocLinkTypes
<1>2. link \in LinkObjects /\ FactsOf(link) \in Facts
      /\ FactsOf(link).attr = attr /\ FactsOf(link).addrs = {}
  BY DEF LinkObjects, Facts, FactsOf
<1>3. /\ UNCHANGED <<implementations, interfaces, deleted, told>>
      /\ added'[id] = link /\ \A i \in Ids \ {id} : added'[i] = added[i]
  BY <1>0, Zenon DEF AllocLink, LinksTypeOK
<1> HIDE DEF link
<1>4. AllocatedOnce' /\ LinksTold' /\ EntersOrLeaves'
  <2>1. AllocatedOnce'
    BY <1>0, <1>3 DEF LinksSound, AllocatedOnce
  <2>2. LinksTold'
    BY <1>3 DEF LinksSound, LinksTold
  <2>3. EntersOrLeaves'
    BY <1>0, <1>3 DEF LinksSound, EntersOrLeaves, LinksTypeOK
  <2>4. QED BY <2>1, <2>2, <2>3
<1>5. GetLink(id)' = link /\ \A i \in Ids \ {id} : GetLink(i)' = GetLink(i)
  BY <1>0, <1>3 DEF GetLink
<1>6. \A i \in Ids \ {id} : View(i)' = View(i)
  BY <1>3, <1>5 DEF View
<1>7. id \notin deleted => View(id)' = FactsOf(link)
  BY <1>2, <1>3, <1>5, ObjectsPresent DEF View
<1>8. QED BY <1>1, <1>2, <1>4, <1>6, <1>7, ObjectsPresent DEF LinksSound, Known

LEMMA DelLinkSound ==
    ASSUME LinksSound, NEW id \in Ids, DelLink(id), mixed \subseteq mixed',
           id \notin mixed' => added[id] = Absent
    PROVE  /\ LinksSound'
           /\ \A i \in Ids \ {id} : View(i)' = View(i)
           /\ ~Known(id)'
<1>1. LinksTypeOK' /\ AllocatedOnce' /\ LinksTold'
  BY DEF LinksSound, LinksTypeOK, AllocatedOnce, LinksTold, DelLink
<1>2. EntersOrLeaves'
  BY DEF LinksSound, EntersOrLeaves, DelLink
<1>3. \A i \in Ids : GetLink(i)' = GetLink(i)
  BY DEF DelLink, GetLink
<1>4. (\A i \in Ids \ {id} : View(i)' = View(i)) /\ ~Known(id)'
  BY <1>3 DEF View, Known, DelLink
<1>5. QED BY <1>1, <1>2, <1>4 DEF LinksSound

\* The end of a batch: what was to be said of a link is said.
LEMMA FlushLinksSound ==
    ASSUME LinksSound, FlushLinks, UNCHANGED mixed
    PROVE  /\ LinksSound'
           /\ deleted' = {}
           /\ \A i \in Ids : /\ added'[i] = Absent
                             /\ implementations'[i] # Absent => ~implementations'[i].changed
           /\ \A i \in Ids \ mixed : View(i)' = View(i)
<1> DEFINE leaving == {i \in deleted : implementations[i] # Absent}
           entering == {i \in Ids : added[i] # Absent}
           left(i) == IF i \in leaving THEN Absent ELSE implementations[i]
           next(i) == IF i \in entering THEN added[i] ELSE left(i)
<1>0. LinksTypeOK /\ LinksTypeOK'
  BY FlushTypes DEF LinksSound
<1>1. \A i \in Ids : next(i) \in LinkObjects \cup {Absent}
  BY <1>0 DEF LinksTypeOK
<1>2. /\ \A i \in Ids : implementations'[i] = (IF next(i) = Absent THEN Absent
                                               ELSE [next(i) EXCEPT !.changed = FALSE])
      /\ interfaces' = (interfaces \ leaving) \cup entering
      /\ \A i \in Ids : told'[i] = (CASE next(i) = Absent -> Absent
                                      [] next(i) # Absent /\ (next(i).changed \/ i \in entering)
                                           -> FactsOf(next(i))
                                      [] OTHER -> told[i])
      /\ \A i \in Ids : added'[i] = Absent
      /\ deleted' = {}
  BY Zenon DEF FlushLinks
<1>3. \A l \in LinkObjects : /\ [l EXCEPT !.changed = FALSE] \in LinkObjects
                             /\ ~[l EXCEPT !.changed = FALSE].changed
                             /\ FactsOf([l EXCEPT !.changed = FALSE]) = FactsOf(l)
  BY DEF LinkObjects, FactsOf
<1>4. \A i \in Ids : i \notin entering => next(i) = left(i)
  OBVIOUS
<1>5. \A i \in Ids : i \in entering => next(i) = added[i] /\ next(i) # Absent
  OBVIOUS
<1>6. \A i \in Ids : left(i) = Absent \/ (left(i) = implementations[i] /\ i \notin leaving)
  OBVIOUS
<1> HIDE DEF next, left
<1>7. ASSUME NEW i \in Ids
      PROVE  /\ next(i) = Absent => implementations'[i] = Absent /\ told'[i] = Absent
             /\ next(i) # Absent => /\ next(i) \in LinkObjects
                                    /\ implementations'[i] \in LinkObjects
                                    /\ implementations'[i] # Absent
                                    /\ ~implementations'[i].changed
                                    /\ FactsOf(implementations'[i]) = FactsOf(next(i))
                                    /\ told'[i] = FactsOf(next(i))
  <2>1. CASE next(i) = Absent
    BY <1>2, <2>1
  <2>2. CASE next(i) # Absent
    <3>1. next(i) \in LinkObjects
      BY <1>1, <2>2
    <3>2. implementations'[i] = [next(i) EXCEPT !.changed = FALSE]
      BY <1>2, <2>2
    <3>3. told'[i] = FactsOf(next(i))
      <4>1. CASE next(i).changed \/ i \in entering
        BY <1>2, <2>2, <4>1
      <4>2. CASE ~next(i).changed /\ i \notin entering
        <5>1. next(i) = implementations[i]
          BY <1>4, <1>6, <2>2, <4>2
        <5>2. told[i] = FactsOf(implementations[i])
          BY <2>2, <4>2, <5>1 DEF LinksSound, LinksTold
        <5>3. QED BY <1>2, <2>2, <4>2, <5>1, <5>2
      <4>3. QED BY <4>1, <4>2
    <3>4. QED BY <1>3, <2>2, <3>1, <3>2, <3>3, ObjectsPresent
  <2>3. QED BY <2>1, <2>2
<1>8. LinksTold'
  <2>1. ASSUME NEW i \in Ids PROVE i \in interfaces' <=> next(i) # Absent
    <3>1. i \in interfaces <=> implementations[i] # Absent
      BY DEF LinksSound, LinksTold
    <3>2. QED BY <1>2, <3>1 DEF next, left
  <2>2. interfaces' \subseteq Ids
    BY <1>0 DEF LinksTypeOK
  <2>3. QED BY <1>7, <2>1, <2>2 DEF LinksTold
<1>9. AllocatedOnce' /\ EntersOrLeaves'
  BY <1>2 DEF AllocatedOnce, EntersOrLeaves
<1>10. ASSUME NEW i \in Ids \ mixed PROVE View(i)' = View(i)
  <2>1. View(i)' = (IF next(i) = Absent THEN Absent ELSE FactsOf(next(i)))
    BY <1>2, <1>7 DEF View, GetLink
  <2>2. CASE i \in deleted
    <3>1. added[i] = Absent
      BY <2>2 DEF LinksSound, EntersOrLeaves
    <3>2. next(i) = Absent
      BY <2>2, <3>1 DEF next, left
    <3>3. QED BY <2>1, <2>2, <3>2 DEF View
  <2>3. CASE i \notin deleted
    <3>1. next(i) = GetLink(i)
      BY <2>3 DEF next, left, GetLink, LinksSound, AllocatedOnce
    <3>2. QED BY <2>1, <2>3, <3>1 DEF View
  <2>4. QED BY <2>2, <2>3
<1>11. QED BY <1>0, <1>2, <1>7, <1>8, <1>9, <1>10 DEF LinksSound

-----------------------------------------------------------------------------
(* Routes.                                                                 *)

RoutesSound == RoutesTypeOK /\ toldRoutes = table /\ RoutesCounted

LEMMA AddRouteSound ==
    ASSUME RoutesSound, NEW r \in Routes, AddRoute(r), known' = known \cup {r},
           clash' = IF r \in known THEN clash \cup {r} ELSE clash
    PROVE  RoutesSound'
<1>1. RoutesTypeOK'
  BY SMT DEF RoutesSound, RoutesTypeOK, AddRoute
<1>2. /\ addedRoutes'[r] = addedRoutes[r] + 1 /\ addedRoutes[r] \in Nat
      /\ \A x \in Routes \ {r} : addedRoutes'[x] = addedRoutes[x]
      /\ \A x \in Routes : Left(x)' = Left(x) /\ Left(x) \in Nat
  BY SMT DEF RoutesSound, RoutesTypeOK, AddRoute, Left
<1> HIDE DEF Left
<1>3. RoutesCounted'
  BY <1>2, SMT DEF RoutesSound, RoutesCounted
<1>4. QED BY <1>1, <1>3 DEF RoutesSound, AddRoute

LEMMA DelRouteSound ==
    ASSUME RoutesSound, NEW r \in Routes, DelRoute(r), known' = known \ {r},
           clash' = IF addedRoutes[r] > 0 THEN clash \cup {r} ELSE clash
    PROVE  RoutesSound'
<1>1. RoutesTypeOK'
  BY SMT DEF RoutesSound, RoutesTypeOK, DelRoute
<1>2. /\ deletedRoutes'[r] = deletedRoutes[r] + 1
      /\ addedRoutes[r] \in Nat /\ deletedRoutes[r] \in Nat /\ table[r] \in Nat
      /\ \A x \in Routes \ {r} : deletedRoutes'[x] = deletedRoutes[x]
  BY SMT DEF RoutesSound, RoutesTypeOK, DelRoute
<1>3. \A x \in Routes \ {r} : Left(x)' = Left(x)
  BY <1>2 DEF DelRoute, Left
<1>4. Left(r) + addedRoutes[r] \in {0, 1} /\ addedRoutes[r] = 0
        => Left(r)' + addedRoutes'[r] = 0
  BY <1>2, SMT DEF DelRoute, Left
<1>5. RoutesCounted'
  BY <1>2, <1>3, <1>4, SMT DEF RoutesSound, RoutesCounted, DelRoute
<1>6. QED BY <1>1, <1>5 DEF RoutesSound, DelRoute

\* A table is told of if anything of its family changes.
LEMMA FlushRoutesSound ==
    ASSUME RoutesSound, FlushRoutes, UNCHANGED <<known, clash>>
    PROVE  RoutesSound' /\ addedRoutes' = None /\ deletedRoutes' = None
<1>1. RoutesTypeOK'
  BY FlushTypes DEF RoutesSound
<1>2. /\ \A r \in Routes : table'[r] = Left(r) + addedRoutes[r]
      /\ \A r \in Routes : addedRoutes'[r] = 0 /\ deletedRoutes'[r] = 0
  BY SMT DEF FlushRoutes, None
<1>3. \A r \in Routes : Left(r)' + addedRoutes'[r] = Left(r) + addedRoutes[r]
  BY <1>1, <1>2, SMT DEF Left, RoutesTypeOK
<1>4. RoutesCounted'
  BY <1>3 DEF RoutesSound, RoutesCounted
<1>5. ASSUME NEW r \in Routes, ~Signals(FamilyOf(r)) PROVE table'[r] = toldRoutes[r]
  <2>1. r \in FamilyOf(r)
    BY DEF FamilyOf, Routes
  <2>2. ~(addedRoutes[r] > 0) /\ Left(r) = table[r]
    BY <1>5, <2>1 DEF Signals, SomeAdded, SomeDeleted
  <2>3. QED BY <1>2, <2>2, SMT DEF RoutesSound, RoutesTypeOK
<1>6. toldRoutes' = table'
  <2>1. toldRoutes' = [r \in Routes |-> IF Signals(FamilyOf(r)) THEN table'[r]
                                        ELSE toldRoutes[r]]
    BY DEF FlushRoutes
  <2>2. \A r \in Routes : toldRoutes'[r] = table'[r]
    BY <1>5, <2>1, Zenon
  <2>3. table' \in [Routes -> Nat] /\ toldRoutes' \in [Routes -> Nat]
    BY <1>1 DEF RoutesTypeOK
  <2>4. QED BY <2>2, <2>3
<1>7. QED BY <1>1, <1>4, <1>6 DEF RoutesSound, FlushRoutes

-----------------------------------------------------------------------------
(* The enumerator follows the kernel, message by message: what is needed   *)
(* of a message that is read for each of the facts it may be about.        *)

Reads == queue \in Seq(Messages) /\ queue # <<>> /\ queue' = Tail(queue)

LEMMA RouteFollowsRead ==
    ASSUME Reads, NEW r \in Routes, RouteFollows(r), UNCHANGED kRoutes,
           Unreported("route", r) => Unreported("route", r)',
           Head(queue) \in Enters(r) => r \in known',
           Head(queue) \in Leaves(r) => r \notin known',
           Head(queue) \notin OnRoute(r) => (r \in known' <=> r \in known)
    PROVE  RouteFollows(r)'
<1> DEFINE so == IF r \in kRoutes THEN Enters(r) ELSE Leaves(r)
<1>1. /\ SaysLast(queue', OnRoute(r), so)
      /\ Head(queue) \in OnRoute(r) /\ Silent(queue', OnRoute(r)) => Head(queue) \in so
      /\ Silent(queue, OnRoute(r)) <=> Silent(queue', OnRoute(r)) /\ Head(queue) \notin OnRoute(r)
  BY SaysLastRemoved, SilentRemoved DEF Reads, RouteFollows
<1>2. QED BY <1>1 DEF RouteFollows

LEMMA LinkFollowsRead ==
    ASSUME Reads, NEW id \in Ids, LinkFollows(id), UNCHANGED kLinks,
           Unreported("link", id) => Unreported("link", id)',
           Head(queue) \in Ups(id) => Known(id)',
           Head(queue) \in Downs(id) => ~Known(id)',
           Head(queue) \notin OnLink(id) => (Known(id)' <=> Known(id))
    PROVE  LinkFollows(id)'
<1> DEFINE so == IF kLinks[id] = Absent THEN Downs(id) ELSE Ups(id)
<1>1. /\ SaysLast(queue', OnLink(id), so)
      /\ Head(queue) \in OnLink(id) /\ Silent(queue', OnLink(id)) => Head(queue) \in so
      /\ Silent(queue, OnLink(id)) <=> Silent(queue', OnLink(id)) /\ Head(queue) \notin OnLink(id)
  BY SaysLastRemoved, SilentRemoved DEF Reads, LinkFollows
<1>2. QED BY <1>1 DEF LinkFollows

LEMMA AttrFollowsRead ==
    ASSUME Reads, NEW id \in Ids, AttrFollows(id), UNCHANGED kLinks,
           Head(queue) \in OnAttr(id) /\ Known(id)' => View(id)'.attr = Head(queue).attr,
           Head(queue) \notin OnAttr(id) /\ Known(id)'
               => Known(id) /\ View(id)'.attr = View(id).attr
    PROVE  AttrFollows(id)'
<1> SUFFICES ASSUME kLinks[id] # Absent PROVE AttrFollows(id)'
  BY DEF AttrFollows
<1> DEFINE so == {m \in OnAttr(id) : m.attr = kLinks[id].attr}
<1>1. /\ SaysLast(queue', OnAttr(id), so)
      /\ Head(queue) \in OnAttr(id) /\ Silent(queue', OnAttr(id)) => Head(queue) \in so
      /\ Silent(queue, OnAttr(id)) <=> Silent(queue', OnAttr(id)) /\ Head(queue) \notin OnAttr(id)
  BY SaysLastRemoved, SilentRemoved DEF Reads, AttrFollows
<1>2. QED BY <1>1 DEF AttrFollows

LEMMA AddrLeavesRead ==
    ASSUME Reads, NEW id \in Ids, NEW a \in Addrs, AddrLeaves(id, a), UNCHANGED kLinks,
           Head(queue) \in Drops(id, a) /\ Known(id)' => a \notin View(id)'.addrs,
           Head(queue) \notin OnAddr(id, a) /\ Known(id)' /\ a \in View(id)'.addrs
               => Known(id) /\ a \in View(id).addrs
    PROVE  AddrLeaves(id, a)'
<1> DEFINE so == IF HasAddr(id, a) THEN Gains(id, a) ELSE Drops(id, a)
<1>0. HasAddr(id, a)' <=> HasAddr(id, a)
  BY DEF HasAddr
<1>1. /\ SaysLast(queue', OnAddr(id, a), so)
      /\ Head(queue) \in OnAddr(id, a) /\ Silent(queue', OnAddr(id, a)) => Head(queue) \in so
      /\ Silent(queue, OnAddr(id, a))
           <=> Silent(queue', OnAddr(id, a)) /\ Head(queue) \notin OnAddr(id, a)
  BY SaysLastRemoved, SilentRemoved DEF Reads, AddrLeaves
<1>2. QED BY <1>0, <1>1 DEF AddrLeaves

LEMMA AddrArrivesRead ==
    ASSUME Reads, NEW id \in Ids, NEW a \in Addrs, AddrArrives(id, a), UNCHANGED kLinks,
           Unreported("addr", <<id, a>>) => Unreported("addr", <<id, a>>)',
           Head(queue) \in Ups(id) => Known(id)',
           Head(queue) \notin OnLink(id) => (Known(id) => Known(id)'),
           Head(queue) \in Gains(id, a) /\ Known(id) => Known(id)' /\ a \in View(id)'.addrs,
           Head(queue) \notin Downs(id) \cup Drops(id, a) /\ Known(id) /\ a \in View(id).addrs
               => Known(id)' /\ a \in View(id)'.addrs
    PROVE  AddrArrives(id, a)'
<1> SUFFICES ASSUME HasAddr(id, a)' PROVE AddrArrives(id, a)'
  BY DEF AddrArrives
<1>0. HasAddr(id, a)
  BY DEF HasAddr
<1>1. CASE Unreported("addr", <<id, a>>)
  BY <1>1 DEF AddrArrives
<1>2. CASE Brings(queue, Known(id), id, a)
  <2>1. \/ Brings(Tail(queue), Known(id)', id, a)
        \/ /\ Known(id) /\ Head(queue) \in Gains(id, a)
           /\ Silent(Tail(queue), Downs(id) \cup Drops(id, a))
    BY <1>2, BringsRemoved DEF Reads
  <2>2. QED BY <2>1 DEF AddrArrives, Reads
<1>3. CASE Known(id) /\ a \in View(id).addrs /\ Silent(queue, Downs(id) \cup Drops(id, a))
  <2>1. /\ Silent(Tail(queue), Downs(id) \cup Drops(id, a))
        /\ Head(queue) \notin Downs(id) \cup Drops(id, a)
    BY <1>3, SilentRemoved DEF Reads
  <2>2. QED BY <1>3, <2>1 DEF AddrArrives, Reads
<1>4. QED BY <1>0, <1>1, <1>2, <1>3 DEF AddrArrives

\* The same of a message that is queued, while the enumerator does nothing.
Joins(m) == /\ queue \in Seq(Messages) /\ m \in Messages /\ queue' = Append(queue, m)
            /\ UNCHANGED <<linksVars, known>>

LEMMA ViewsUntouched ==
    ASSUME UNCHANGED linksVars, NEW id
    PROVE  View(id)' = View(id) /\ Known(id)' = Known(id)
BY DEF linksVars, View, Known, GetLink

LEMMA RouteFollowsJoined ==
    ASSUME NEW m, Joins(m), NEW r \in Routes, RouteFollows(r),
           m \in OnRoute(r) => m \in (IF r \in kRoutes' THEN Enters(r) ELSE Leaves(r)),
           m \notin OnRoute(r) =>
               /\ r \in kRoutes' <=> r \in kRoutes
               /\ r \in kRoutes /\ Unreported("route", r) => Unreported("route", r)'
    PROVE  RouteFollows(r)'
<1> DEFINE so == IF r \in kRoutes' THEN Enters(r) ELSE Leaves(r)
<1>1. m \in OnRoute(r) => SaysLast(queue', OnRoute(r), so)
  BY SaysLastAppended DEF Joins
<1>2. m \notin OnRoute(r) => SaysLast(queue', OnRoute(r), so)
  BY SaysLastAppended DEF Joins, RouteFollows
<1>3. Silent(queue', OnRoute(r)) <=> Silent(queue, OnRoute(r)) /\ m \notin OnRoute(r)
  BY SilentAppended DEF Joins
<1>4. QED BY <1>1, <1>2, <1>3 DEF RouteFollows, Joins

LEMMA LinkFollowsJoined ==
    ASSUME NEW m, Joins(m), NEW id \in Ids, LinkFollows(id),
           m \in OnLink(id) => m \in (IF kLinks'[id] = Absent THEN Downs(id) ELSE Ups(id)),
           m \notin OnLink(id) =>
               /\ kLinks'[id] = Absent <=> kLinks[id] = Absent
               /\ kLinks[id] # Absent /\ Unreported("link", id) => Unreported("link", id)'
    PROVE  LinkFollows(id)'
<1> DEFINE so == IF kLinks'[id] = Absent THEN Downs(id) ELSE Ups(id)
<1>0. Known(id)' = Known(id)
  BY ViewsUntouched DEF Joins
<1>1. m \in OnLink(id) => SaysLast(queue', OnLink(id), so)
  BY SaysLastAppended DEF Joins
<1>2. m \notin OnLink(id) => SaysLast(queue', OnLink(id), so)
  BY SaysLastAppended DEF Joins, LinkFollows
<1>3. Silent(queue', OnLink(id)) <=> Silent(queue, OnLink(id)) /\ m \notin OnLink(id)
  BY SilentAppended DEF Joins
<1>4. QED BY <1>0, <1>1, <1>2, <1>3 DEF LinkFollows

LEMMA AttrFollowsJoined ==
    ASSUME NEW m, Joins(m), NEW id \in Ids, AttrFollows(id),
           kLinks'[id] # Absent =>
               /\ m \in OnAttr(id) => m.attr = kLinks'[id].attr
               /\ m \notin OnAttr(id) => /\ kLinks[id] # Absent
                                         /\ kLinks'[id].attr = kLinks[id].attr
    PROVE  AttrFollows(id)'
<1> SUFFICES ASSUME kLinks'[id] # Absent PROVE AttrFollows(id)'
  BY DEF AttrFollows
<1> DEFINE so == {x \in OnAttr(id) : x.attr = kLinks'[id].attr}
<1>0. Known(id)' = Known(id) /\ View(id)' = View(id)
  BY ViewsUntouched DEF Joins
<1>1. m \in OnAttr(id) => SaysLast(queue', OnAttr(id), so)
  BY SaysLastAppended DEF Joins
<1>2. m \notin OnAttr(id) => SaysLast(queue', OnAttr(id), so)
  BY SaysLastAppended DEF Joins, AttrFollows
<1>3. Silent(queue', OnAttr(id)) <=> Silent(queue, OnAttr(id)) /\ m \notin OnAttr(id)
  BY SilentAppended DEF Joins
<1>4. QED BY <1>0, <1>1, <1>2, <1>3 DEF AttrFollows

LEMMA AddrLeavesJoined ==
    ASSUME NEW m, Joins(m), NEW id \in Ids, NEW a \in Addrs, AddrLeaves(id, a),
           m \in OnAddr(id, a)
               => m \in (IF HasAddr(id, a)' THEN Gains(id, a) ELSE Drops(id, a)),
           m \notin OnAddr(id, a) => (HasAddr(id, a)' <=> HasAddr(id, a))
    PROVE  AddrLeaves(id, a)'
<1> DEFINE so == IF HasAddr(id, a)' THEN Gains(id, a) ELSE Drops(id, a)
<1>0. Known(id)' = Known(id) /\ View(id)' = View(id)
  BY ViewsUntouched DEF Joins
<1>1. m \in OnAddr(id, a) => SaysLast(queue', OnAddr(id, a), so)
  BY SaysLastAppended DEF Joins
<1>2. m \notin OnAddr(id, a) => SaysLast(queue', OnAddr(id, a), so)
  BY SaysLastAppended DEF Joins, AddrLeaves
<1>3. Silent(queue', OnAddr(id, a)) <=> Silent(queue, OnAddr(id, a)) /\ m \notin OnAddr(id, a)
  BY SilentAppended DEF Joins
<1>4. QED BY <1>0, <1>1, <1>2, <1>3 DEF AddrLeaves

LEMMA AddrArrivesJoined ==
    ASSUME NEW m, Joins(m), NEW id \in Ids, NEW a \in Addrs, AddrArrives(id, a),
           HasAddr(id, a)' => m \notin Downs(id) \cup Drops(id, a),
           HasAddr(id, a)' /\ m \notin Gains(id, a) =>
               /\ HasAddr(id, a)
               /\ Unreported("addr", <<id, a>>) => Unreported("addr", <<id, a>>)',
           m \in Gains(id, a) =>
               /\ kLinks[id] # Absent /\ LinkFollows(id)
               /\ Unreported("link", id) => Unreported("addr", <<id, a>>)'
    PROVE  AddrArrives(id, a)'
<1> SUFFICES ASSUME HasAddr(id, a)' PROVE AddrArrives(id, a)'
  BY DEF AddrArrives
<1>0. Known(id)' = Known(id) /\ View(id)' = View(id)
  BY ViewsUntouched DEF Joins
<1>1. CASE m \in Gains(id, a)
  <2>1. SaysLast(queue, OnLink(id), Ups(id))
    BY <1>1 DEF LinkFollows
  <2>2. CASE Silent(queue, OnLink(id)) => Known(id)
    <3>1. Brings(queue', Known(id), id, a)
      BY <1>1, <2>1, <2>2, BringsAppended DEF Joins
    <3>2. QED BY <1>0, <3>1 DEF AddrArrives
  <2>3. CASE Silent(queue, OnLink(id)) /\ ~Known(id)
    BY <1>1, <2>3 DEF LinkFollows, AddrArrives
  <2>4. QED BY <2>2, <2>3
<1>2. CASE m \notin Gains(id, a)
  <2>1. HasAddr(id, a)
    BY <1>2
  <2>2. CASE Unreported("addr", <<id, a>>)
    BY <1>2, <2>2 DEF AddrArrives
  <2>3. CASE Brings(queue, Known(id), id, a)
    BY <1>0, <2>3, BringsAppended DEF Joins, AddrArrives
  <2>4. CASE Known(id) /\ a \in View(id).addrs /\ Silent(queue, Downs(id) \cup Drops(id, a))
    BY <1>0, <2>4, SilentAppended DEF Joins, AddrArrives
  <2>5. QED BY <2>1, <2>2, <2>3, <2>4 DEF AddrArrives
<1>3. QED BY <1>1, <1>2

-----------------------------------------------------------------------------
(* The enumerator follows the kernel, step by step.                        *)

\* No dump is given up.
StillDue ==
    /\ \A id \in Ids : Unreported("link", id) => Unreported("link", id)'
    /\ \A id \in Ids, a \in Addrs :
          Unreported("addr", <<id, a>>) => Unreported("addr", <<id, a>>)'
    /\ \A r \in Routes : Unreported("route", r) => Unreported("route", r)'

LEMMA RequestStillDue ==
    ASSUME dump = "none", DoNextRequest
    PROVE  StillDue
<1>1. \/ UNCHANGED <<requested, dump, todo>>
      \/ \E kind \in Dumps : /\ requested' = requested \cup {kind}
                             /\ dump' = kind /\ todo' = Universe(kind)
  BY DEF DoNextRequest, Request, Dumps
<1>2. CASE UNCHANGED <<requested, dump, todo>>
  BY <1>2 DEF StillDue, Unreported
<1>3. ASSUME NEW kind \in Dumps, requested' = requested \cup {kind},
             dump' = kind, todo' = Universe(kind)
      PROVE  StillDue
  BY <1>3 DEF StillDue, Unreported, Universe, Dumps
<1>4. QED BY <1>1, <1>2, <1>3

LEMMA DueUntouched == ASSUME UNCHANGED <<requested, dump, todo>> PROVE StillDue
BY DEF StillDue, Unreported

\* Steps that neither queue nor read a message.
LEMMA FollowsStill ==
    ASSUME Follows, UNCHANGED <<queue, kLinks, kRoutes, known, lost, mixed>>, StillDue,
           \A id \in Ids \ mixed : View(id)' = View(id) /\ Known(id)' = Known(id)
    PROVE  Follows'
<1> SUFFICES ASSUME ~lost PROVE Follows'
  BY DEF Follows
<1>1. ASSUME NEW r \in Routes PROVE RouteFollows(r)'
  BY <1>1 DEF Follows, RouteFollows, StillDue
<1>2. ASSUME NEW id \in Ids \ mixed
      PROVE  /\ LinkFollows(id)' /\ AttrFollows(id)'
             /\ \A a \in Addrs : AddrLeaves(id, a)' /\ AddrArrives(id, a)'
  <2>1. LinkFollows(id)' /\ AttrFollows(id)'
    BY <1>2 DEF Follows, LinkFollows, AttrFollows, StillDue
  <2>2. ASSUME NEW a \in Addrs PROVE AddrLeaves(id, a)' /\ AddrArrives(id, a)'
    <3>0. HasAddr(id, a)' = HasAddr(id, a)
      BY DEF HasAddr
    <3>1. QED BY <1>2, <2>2, <3>0 DEF Follows, AddrLeaves, AddrArrives, StillDue
  <2>3. QED BY <2>1, <2>2
<1>3. QED BY <1>1, <1>2 DEF Follows

\* What reading the first message does to what is known of a route, and of a
\* link and an address.
RouteRead(r) ==
    /\ Head(queue) \in Enters(r) => r \in known'
    /\ Head(queue) \in Leaves(r) => r \notin known'
    /\ Head(queue) \notin OnRoute(r) => (r \in known' <=> r \in known)

LinkRead(id) ==
    /\ Head(queue) \in Ups(id) => Known(id)'
    /\ Head(queue) \in Downs(id) => ~Known(id)'
    /\ Head(queue) \notin OnLink(id) => (Known(id)' <=> Known(id))
    /\ Head(queue) \in OnAttr(id) /\ Known(id)' => View(id)'.attr = Head(queue).attr
    /\ Head(queue) \notin OnAttr(id) /\ Known(id)' => Known(id) /\ View(id)'.attr = View(id).attr

AddrRead(id, a) ==
    /\ Head(queue) \in Drops(id, a) /\ Known(id)' => a \notin View(id)'.addrs
    /\ Head(queue) \notin OnAddr(id, a) /\ Known(id)' /\ a \in View(id)'.addrs
           => Known(id) /\ a \in View(id).addrs
    /\ Head(queue) \in Gains(id, a) /\ Known(id) => Known(id)' /\ a \in View(id)'.addrs
    /\ Head(queue) \notin Downs(id) \cup Drops(id, a) /\ Known(id) /\ a \in View(id).addrs
           => Known(id)' /\ a \in View(id)'.addrs

LEMMA FollowsRead ==
    ASSUME Follows, Reads, StillDue, UNCHANGED <<kLinks, kRoutes, lost>>, mixed \subseteq mixed',
           \A r \in Routes : RouteRead(r),
           \A id \in Ids \ mixed' : LinkRead(id) /\ \A a \in Addrs : AddrRead(id, a)
    PROVE  Follows'
<1> SUFFICES ASSUME ~lost PROVE Follows'
  BY DEF Follows
<1>1. ASSUME NEW r \in Routes PROVE RouteFollows(r)'
  <2>1. RouteFollows(r) /\ RouteRead(r) /\ (Unreported("route", r) => Unreported("route", r)')
    BY <1>1 DEF Follows, StillDue
  <2>2. QED BY <2>1, RouteFollowsRead DEF RouteRead
<1>2. ASSUME NEW id \in Ids \ mixed'
      PROVE  /\ LinkFollows(id)' /\ AttrFollows(id)'
             /\ \A a \in Addrs : AddrLeaves(id, a)' /\ AddrArrives(id, a)'
  <2>1. /\ LinkFollows(id) /\ AttrFollows(id) /\ LinkRead(id)
        /\ Unreported("link", id) => Unreported("link", id)'
    BY <1>2 DEF Follows, StillDue
  <2>2. LinkFollows(id)'
    BY <1>2, <2>1, LinkFollowsRead DEF LinkRead
  <2>3. AttrFollows(id)'
    BY <1>2, <2>1, AttrFollowsRead DEF LinkRead
  <2>4. ASSUME NEW a \in Addrs PROVE AddrLeaves(id, a)' /\ AddrArrives(id, a)'
    <3>1. /\ AddrLeaves(id, a) /\ AddrArrives(id, a) /\ AddrRead(id, a)
          /\ Unreported("addr", <<id, a>>) => Unreported("addr", <<id, a>>)'
      BY <1>2, <2>4 DEF Follows, StillDue
    <3>2. AddrLeaves(id, a)'
      BY <1>2, <3>1, AddrLeavesRead DEF AddrRead
    <3>3. AddrArrives(id, a)'
      BY <1>2, <2>1, <3>1, AddrArrivesRead DEF AddrRead, LinkRead
    <3>4. QED BY <3>2, <3>3
  <2>5. QED BY <2>2, <2>3, <2>4
<1>3. QED BY <1>1, <1>2 DEF Follows

LEMMA ReadMessage ==
    ASSUME TypeOK, NEW types, Receives(types)
    PROVE  Reads /\ Head(queue) \in Messages /\ Head(queue).type \in types
BY Removed DEF Receives, Reads, TypeOK

LEMMA ReadNewLink ==
    ASSUME TypeOK, LinksSound, RecvNewLink
    PROVE  /\ LinksSound'
           /\ \A r \in Routes : RouteRead(r)
           /\ \A id \in Ids \ mixed' : LinkRead(id) /\ \A a \in Addrs : AddrRead(id, a)
<1>0. PICK m \in Messages : m = Head(queue) /\ m.type = "NEWLINK"
  BY ReadMessage DEF RecvNewLink, ReceivesReport
<1>1. PICK i \in Ids : i = m.id /\ m.attr \in Attrs /\ m.wireless \in BOOLEAN
  BY <1>0, MessageParts
<1>2. /\ \/ GetLink(i) # Absent /\ SetAttr(i, m.attr)
         \/ GetLink(i) = Absent /\ m.wireless /\ UNCHANGED linksVars
         \/ GetLink(i) = Absent /\ ~m.wireless /\ AllocLink(i, m.attr)
      /\ mixed \subseteq mixed' /\ (i \notin mixed' => i \notin deleted)
      /\ UNCHANGED known
  BY <1>0, <1>1 DEF RecvNewLink
<1>3. LinksTypeOK
  BY DEF LinksSound
<1>4. /\ LinksSound'
      /\ \A id \in Ids \ {i} : View(id)' = View(id)
      /\ i \notin mixed' =>
             /\ ~m.wireless => Known(i)'
             /\ m.wireless => (Known(i)' <=> Known(i))
             /\ Known(i) => Known(i)' /\ View(i)'.addrs = View(i).addrs
             /\ Known(i)' => View(i)'.attr = m.attr /\ (~Known(i) => View(i)'.addrs = {})
  <2>1. CASE GetLink(i) # Absent /\ SetAttr(i, m.attr)
    <3>1. GetLink(i).addrs \in SUBSET Addrs
      BY <1>1, <1>3, <2>1, Views
    <3>2. /\ LinksSound'
          /\ \A id \in Ids \ {i} : View(id)' = View(id)
          /\ Known(i)' <=> Known(i)
          /\ Known(i) => View(i)'.attr = m.attr /\ View(i)'.addrs = GetLink(i).addrs
      BY <1>1, <1>2, <2>1, <3>1, LinkUpdatedSound DEF SetAttr
    <3>3. i \notin mixed' => Known(i) /\ View(i).addrs = GetLink(i).addrs
      BY <1>1, <1>2, <1>3, <2>1, Views
    <3>4. QED BY <3>2, <3>3
  <2>2. CASE GetLink(i) = Absent /\ m.wireless /\ UNCHANGED linksVars
    <3>1. LinksSound'
      BY <1>2, <2>2 DEF LinksSound, LinksTypeOK, AllocatedOnce, LinksTold, EntersOrLeaves,
         linksVars
    <3>2. \A id \in Ids : View(id)' = View(id) /\ Known(id)' = Known(id)
      BY <2>2, ViewsUntouched
    <3>3. ~Known(i)
      BY <1>1, <1>3, <2>2, Views
    <3>4. QED BY <1>1, <2>2, <3>1, <3>2, <3>3
  <2>3. CASE GetLink(i) = Absent /\ ~m.wireless /\ AllocLink(i, m.attr)
    <3>1. /\ LinksSound'
          /\ \A id \in Ids \ {i} : View(id)' = View(id)
          /\ i \notin mixed' => Known(i)' /\ View(i)'.attr = m.attr /\ View(i)'.addrs = {}
      BY <1>1, <1>2, <2>3, AllocLinkSound
    <3>2. ~Known(i)
      BY <1>1, <1>3, <2>3, Views
    <3>3. QED BY <2>3, <3>1, <3>2
  <2>4. QED BY <1>2, <2>1, <2>2, <2>3
<1>5. \A r \in Routes : RouteRead(r)
  BY <1>0, <1>2 DEF RouteRead, OnRoute, Enters, Leaves
<1>6. ASSUME NEW id \in Ids \ mixed' PROVE LinkRead(id) /\ \A a \in Addrs : AddrRead(id, a)
  <2>0. /\ m \notin Downs(id)
        /\ \A a \in Addrs : m \notin OnAddr(id, a) /\ m \notin Gains(id, a) /\ m \notin Drops(id, a)
    BY <1>0 DEF Downs, OnAddr, Gains, Drops
  <2>1. CASE id = i
    <3>1. (m \in Ups(id) <=> ~m.wireless) /\ m \in OnAttr(id)
      BY <1>0, <1>1, <2>1 DEF Ups, OnAttr
    <3>2. LinkRead(id)
      BY <1>0, <1>1, <1>4, <2>0, <2>1, <3>1 DEF LinkRead, OnLink
    <3>3. \A a \in Addrs : AddrRead(id, a)
      BY <1>0, <1>4, <2>0, <2>1 DEF AddrRead
    <3>4. QED BY <3>2, <3>3
  <2>2. CASE id # i
    <3>1. m \notin Ups(id) /\ m \notin OnAttr(id)
      BY <1>1, <2>2 DEF Ups, OnAttr
    <3>2. View(id)' = View(id) /\ Known(id)' = Known(id)
      BY <1>4, <2>2 DEF Known
    <3>3. QED BY <1>0, <2>0, <3>1, <3>2 DEF LinkRead, AddrRead, OnLink
  <2>3. QED BY <2>1, <2>2
<1>7. QED BY <1>4, <1>5, <1>6

LEMMA ReadDelLink ==
    ASSUME TypeOK, LinksSound, RecvDelLink
    PROVE  /\ LinksSound'
           /\ \A r \in Routes : RouteRead(r)
           /\ \A id \in Ids \ mixed' : LinkRead(id) /\ \A a \in Addrs : AddrRead(id, a)
<1>0. PICK m \in Messages : m = Head(queue) /\ m.type = "DELLINK"
  BY ReadMessage DEF RecvDelLink, ReceivesReport
<1>1. PICK i \in Ids : i = m.id
  BY <1>0, MessageParts
<1>2. /\ DelLink(i) /\ UNCHANGED known
      /\ mixed \subseteq mixed' /\ (i \notin mixed' => added[i] = Absent)
  BY <1>0, <1>1 DEF RecvDelLink
<1>3. LinksSound' /\ ~Known(i)' /\ \A id \in Ids \ {i} : View(id)' = View(id)
  BY <1>2, DelLinkSound
<1>4. \A r \in Routes : RouteRead(r)
  BY <1>0, <1>2 DEF RouteRead, OnRoute, Enters, Leaves
<1>5. ASSUME NEW id \in Ids \ mixed' PROVE LinkRead(id) /\ \A a \in Addrs : AddrRead(id, a)
  <2>0. /\ m \notin Ups(id) /\ m \notin OnAttr(id)
        /\ \A a \in Addrs : m \notin OnAddr(id, a) /\ m \notin Gains(id, a) /\ m \notin Drops(id, a)
    BY <1>0 DEF Ups, OnAttr, OnAddr, Gains, Drops
  <2>1. CASE id = i
    <3>1. m \in Downs(id)
      BY <1>0, <1>1, <2>1 DEF Downs
    <3>2. QED BY <1>0, <1>3, <2>0, <2>1, <3>1 DEF LinkRead, AddrRead, OnLink
  <2>2. CASE id # i
    <3>1. m \notin Downs(id)
      BY <1>1, <2>2 DEF Downs
    <3>2. View(id)' = View(id) /\ Known(id)' = Known(id)
      BY <1>3, <2>2 DEF Known
    <3>3. QED BY <1>0, <2>0, <3>1, <3>2 DEF LinkRead, AddrRead, OnLink
  <2>3. QED BY <2>1, <2>2
<1>6. QED BY <1>3, <1>4, <1>5

LEMMA ReadAddr ==
    ASSUME TypeOK, LinksSound, RecvAddr
    PROVE  /\ LinksSound'
           /\ \A r \in Routes : RouteRead(r)
           /\ \A id \in Ids \ mixed' : LinkRead(id) /\ \A a \in Addrs : AddrRead(id, a)
<1>0. PICK m \in Messages : m = Head(queue) /\ m.type \in {"NEWADDR", "DELADDR"}
  BY ReadMessage DEF RecvAddr, ReceivesReport
<1>1. PICK i \in Ids, b \in Addrs : i = m.id /\ b = m.addr
  BY <1>0, MessageParts
<1>2. /\ \/ GetLink(i) = Absent /\ UNCHANGED linksVars
         \/ GetLink(i) # Absent /\ m.type = "NEWADDR" /\ AddAddr(i, b)
         \/ GetLink(i) # Absent /\ m.type = "DELADDR" /\ DelAddr(i, b)
      /\ UNCHANGED <<mixed, known>>
  BY <1>0, <1>1 DEF RecvAddr
<1>3. LinksTypeOK
  BY DEF LinksSound
<1>4. /\ LinksSound'
      /\ \A id \in Ids \ {i} : View(id)' = View(id) /\ Known(id)' = Known(id)
      /\ Known(i)' <=> Known(i)
      /\ Known(i) => /\ View(i)'.attr = View(i).attr
                     /\ View(i)'.addrs = IF m.type = "NEWADDR" THEN View(i).addrs \cup {b}
                                         ELSE View(i).addrs \ {b}
  <2>1. CASE GetLink(i) = Absent /\ UNCHANGED linksVars
    <3>1. LinksSound'
      BY <1>2, <2>1 DEF LinksSound, LinksTypeOK, AllocatedOnce, LinksTold, EntersOrLeaves,
         linksVars
    <3>2. \A id \in Ids : View(id)' = View(id) /\ Known(id)' = Known(id)
      BY <2>1, ViewsUntouched
    <3>3. ~Known(i)
      BY <1>1, <1>3, <2>1, Views
    <3>4. QED BY <3>1, <3>2, <3>3
  <2>2. CASE GetLink(i) # Absent
    <3>1. GetLink(i).attr \in Attrs /\ GetLink(i).addrs \in SUBSET Addrs
      BY <1>1, <1>3, <2>2, Views
    <3>2. PICK addrs \in SUBSET Addrs :
                 /\ addrs = IF m.type = "NEWADDR" THEN GetLink(i).addrs \cup {b}
                            ELSE GetLink(i).addrs \ {b}
                 /\ SetLink(i, Updated(GetLink(i), GetLink(i).attr, addrs))
                 /\ UNCHANGED <<interfaces, deleted, told>>
      <4>1. CASE m.type = "NEWADDR"
        BY <1>2, <2>2, <3>1, <4>1 DEF AddAddr
      <4>2. CASE m.type # "NEWADDR"
        BY <1>2, <2>2, <3>1, <4>2 DEF DelAddr
      <4>3. QED BY <4>1, <4>2
    <3>3. /\ LinksSound'
          /\ \A id \in Ids \ {i} : View(id)' = View(id)
          /\ Known(i)' <=> Known(i)
          /\ Known(i) => View(i)'.attr = GetLink(i).attr /\ View(i)'.addrs = addrs
      BY <1>2, <2>2, <3>1, <3>2, LinkUpdatedSound
    <3>4. Known(i) => View(i).attr = GetLink(i).attr /\ View(i).addrs = GetLink(i).addrs
      BY <1>3, Views
    <3>5. \A id \in Ids \ {i} : Known(id)' = Known(id)
      BY <3>3 DEF Known
    <3>6. QED BY <3>2, <3>3, <3>4, <3>5
  <2>3. QED BY <1>2, <2>1, <2>2
<1>5. \A r \in Routes : RouteRead(r)
  BY <1>0, <1>2 DEF RouteRead, OnRoute, Enters, Leaves
<1>6. ASSUME NEW id \in Ids \ mixed' PROVE LinkRead(id) /\ \A a \in Addrs : AddrRead(id, a)
  <2>0. m \notin Ups(id) /\ m \notin Downs(id) /\ m \notin OnAttr(id)
    BY <1>0 DEF Ups, Downs, OnAttr
  <2>1. LinkRead(id)
    <3>1. (Known(id)' <=> Known(id)) /\ (Known(id)' => View(id)'.attr = View(id).attr)
      BY <1>4
    <3>2. QED BY <1>0, <2>0, <3>1 DEF LinkRead, OnLink
  <2>2. ASSUME NEW a \in Addrs PROVE AddrRead(id, a)
    <3>1. CASE id = i /\ a = b
      <4>1. /\ m \in Gains(id, a) <=> m.type = "NEWADDR"
            /\ m \in Drops(id, a) <=> m.type = "DELADDR"
        BY <1>0, <1>1, <3>1 DEF Gains, Drops
      <4>2. QED BY <1>0, <1>4, <2>0, <3>1, <4>1 DEF AddrRead, OnAddr
    <3>2. CASE id # i \/ a # b
      <4>1. m \notin Gains(id, a) /\ m \notin Drops(id, a)
        BY <1>1, <3>2 DEF Gains, Drops
      <4>2. /\ Known(id)' <=> Known(id)
            /\ Known(id) => (a \in View(id)'.addrs <=> a \in View(id).addrs)
        BY <1>4, <3>2
      <4>3. QED BY <1>0, <2>0, <4>1, <4>2 DEF AddrRead, OnAddr
    <3>3. QED BY <3>1, <3>2
  <2>3. QED BY <2>1, <2>2
<1>7. QED BY <1>4, <1>5, <1>6

\* Messages that are not about a link leave what is known of links.
LEMMA ReadOther ==
    ASSUME NEW m \in Messages, m = Head(queue), UNCHANGED linksVars,
           m.type \in {"DONE", "ERROR", "NEWROUTE", "DELROUTE"}, NEW id
    PROVE  LinkRead(id) /\ \A a \in Addrs : AddrRead(id, a)
<1>1. /\ m \notin Ups(id) /\ m \notin Downs(id) /\ m \notin OnAttr(id)
      /\ \A a \in Addrs : m \notin Gains(id, a) /\ m \notin Drops(id, a)
  BY DEF Ups, Downs, OnAttr, Gains, Drops
<1>2. View(id)' = View(id) /\ Known(id)' = Known(id)
  BY ViewsUntouched
<1>3. QED BY <1>1, <1>2 DEF LinkRead, AddrRead, OnLink, OnAddr

LEMMA ReadRoute ==
    ASSUME TypeOK, RoutesSound, RecvNewRoute \/ RecvDelRoute
    PROVE  /\ RoutesSound'
           /\ \A r \in Routes : RouteRead(r)
           /\ \A id \in Ids : LinkRead(id) /\ \A a \in Addrs : AddrRead(id, a)
<1>0. PICK m \in Messages :
             /\ m = Head(queue) /\ m.type \in {"NEWROUTE", "DELROUTE"}
             /\ m.type = "NEWROUTE" <=> RecvNewRoute
             /\ m.type = "DELROUTE" <=> RecvDelRoute
  <2>1. RecvNewRoute => Head(queue) \in Messages /\ Head(queue).type = "NEWROUTE"
    BY ReadMessage DEF RecvNewRoute, ReceivesReport
  <2>2. RecvDelRoute => Head(queue) \in Messages /\ Head(queue).type = "DELROUTE"
    BY ReadMessage DEF RecvDelRoute, ReceivesReport
  <2>3. QED BY <2>1, <2>2
<1>1. PICK x \in Routes : x = m.route
  BY <1>0, MessageParts
<1>2. \A id \in Ids : LinkRead(id) /\ \A a \in Addrs : AddrRead(id, a)
  BY <1>0, ReadOther DEF RecvNewRoute, RecvDelRoute
<1>3. CASE RecvNewRoute
  <2>1. /\ AddRoute(x) /\ known' = known \cup {x}
        /\ clash' = IF x \in known THEN clash \cup {x} ELSE clash
    BY <1>0, <1>1, <1>3 DEF RecvNewRoute
  <2>2. RoutesSound'
    BY <2>1, AddRouteSound
  <2>3. \A r \in Routes : RouteRead(r)
    BY <1>0, <1>1, <1>3, <2>1 DEF RouteRead, OnRoute, Enters, Leaves
  <2>4. QED BY <1>2, <2>2, <2>3
<1>4. CASE RecvDelRoute
  <2>1. /\ DelRoute(x) /\ known' = known \ {x}
        /\ clash' = IF addedRoutes[x] > 0 THEN clash \cup {x} ELSE clash
    BY <1>0, <1>1, <1>4 DEF RecvDelRoute
  <2>2. RoutesSound'
    BY <2>1, DelRouteSound
  <2>3. \A r \in Routes : RouteRead(r)
    BY <1>0, <1>1, <1>4, <2>1 DEF RouteRead, OnRoute, Enters, Leaves
  <2>4. QED BY <1>2, <2>2, <2>3
<1>5. QED BY <1>3, <1>4

\* What a message that is queued has to be for each fact it may be about, and
\* what goes with it.
RouteJoins(m, r) ==
    /\ m \in OnRoute(r) => m \in (IF r \in kRoutes' THEN Enters(r) ELSE Leaves(r))
    /\ m \notin OnRoute(r) =>
           /\ r \in kRoutes' <=> r \in kRoutes
           /\ r \in kRoutes /\ Unreported("route", r) => Unreported("route", r)'

LinkJoins(m, id) ==
    /\ m \in OnLink(id) => m \in (IF kLinks'[id] = Absent THEN Downs(id) ELSE Ups(id))
    /\ m \notin OnLink(id) =>
           /\ kLinks'[id] = Absent <=> kLinks[id] = Absent
           /\ kLinks[id] # Absent /\ Unreported("link", id) => Unreported("link", id)'
    /\ kLinks'[id] # Absent =>
           /\ m \in OnAttr(id) => m.attr = kLinks'[id].attr
           /\ m \notin OnAttr(id) => kLinks[id] # Absent /\ kLinks'[id].attr = kLinks[id].attr

AddrJoins(m, id, a) ==
    /\ m \in OnAddr(id, a) => m \in (IF HasAddr(id, a)' THEN Gains(id, a) ELSE Drops(id, a))
    /\ m \notin OnAddr(id, a) => (HasAddr(id, a)' <=> HasAddr(id, a))
    /\ HasAddr(id, a)' => m \notin Downs(id) \cup Drops(id, a)
    /\ HasAddr(id, a)' /\ m \notin Gains(id, a) =>
           /\ HasAddr(id, a)
           /\ Unreported("addr", <<id, a>>) => Unreported("addr", <<id, a>>)'
    /\ m \in Gains(id, a) =>
           /\ kLinks[id] # Absent
           /\ Unreported("link", id) => Unreported("addr", <<id, a>>)'

LEMMA FollowsJoined ==
    ASSUME Follows, NEW m, Joins(m), UNCHANGED mixed, ~lost' => ~lost,
           \A r \in Routes : RouteJoins(m, r),
           \A id \in Ids : LinkJoins(m, id) /\ \A a \in Addrs : AddrJoins(m, id, a)
    PROVE  Follows'
<1> SUFFICES ASSUME ~lost, ~lost' PROVE Follows'
  BY DEF Follows
<1>1. ASSUME NEW r \in Routes PROVE RouteFollows(r)'
  <2>1. RouteFollows(r) /\ RouteJoins(m, r)
    BY <1>1 DEF Follows
  <2>2. QED BY <2>1, RouteFollowsJoined DEF RouteJoins
<1>2. ASSUME NEW id \in Ids \ mixed
      PROVE  /\ LinkFollows(id)' /\ AttrFollows(id)'
             /\ \A a \in Addrs : AddrLeaves(id, a)' /\ AddrArrives(id, a)'
  <2>1. LinkFollows(id) /\ AttrFollows(id) /\ LinkJoins(m, id)
    BY <1>2 DEF Follows
  <2>2. LinkFollows(id)' /\ AttrFollows(id)'
    BY <1>2, <2>1, LinkFollowsJoined, AttrFollowsJoined DEF LinkJoins
  <2>3. ASSUME NEW a \in Addrs PROVE AddrLeaves(id, a)' /\ AddrArrives(id, a)'
    <3>1. AddrLeaves(id, a) /\ AddrArrives(id, a) /\ AddrJoins(m, id, a)
      BY <1>2, <2>3 DEF Follows
    <3>2. QED BY <1>2, <2>1, <3>1, AddrLeavesJoined, AddrArrivesJoined DEF AddrJoins
  <2>4. QED BY <2>2, <2>3
<1>3. QED BY <1>1, <1>2 DEF Follows

\* A socket that is not bound hears of nothing, and nothing is known.
LEMMA FollowsFromNothing ==
    /\ queue = <<>> /\ requested = {} /\ known = {} /\ (\A id \in Ids : ~Known(id)) => Follows
    /\ queue' = <<>> /\ requested' = {} /\ known' = {} /\ (\A id \in Ids : ~Known(id)')
         => Follows'
<1>0. \A about, so : Silent(<<>>, about) /\ SaysLast(<<>>, about, so)
  BY SMT DEF Silent, SaysLast
<1>1. queue = <<>> /\ requested = {} /\ known = {} /\ (\A id \in Ids : ~Known(id)) => Follows
  BY <1>0 DEF Follows, RouteFollows, LinkFollows, AttrFollows, AddrLeaves, AddrArrives,
     Unreported
<1>2. queue' = <<>> /\ requested' = {} /\ known' = {} /\ (\A id \in Ids : ~Known(id)')
        => Follows'
  BY <1>0 DEF Follows, RouteFollows, LinkFollows, AttrFollows, AddrLeaves, AddrArrives,
     Unreported
<1>3. QED BY <1>1, <1>2

\* Addresses are asked for after links.
LEMMA LinksBeforeAddresses ==
    ASSUME OneDump, NEW id, NEW a, Unreported("link", id)
    PROVE  Unreported("addr", <<id, a>>) /\ "addr" \notin requested
BY DEF OneDump, Unreported

LEMMA KernelNotifies ==
    ASSUME TypeOK, OneDump, Kernel
    PROVE  \E m \in Messages :
              /\ Notify(<<m>>) /\ m.type # "DONE" /\ Changing
              /\ \A r \in Routes : RouteJoins(m, r)
              /\ \A id \in Ids : LinkJoins(m, id) /\ \A a \in Addrs : AddrJoins(m, id, a)
<1> DEFINE OnRoutes(m) == \A r \in Routes : RouteJoins(m, r)
           OnLinks(m) == \A id \in Ids : LinkJoins(m, id) /\ \A a \in Addrs : AddrJoins(m, id, a)
<1>0. kLinks \in [Ids -> Facts \cup {Absent}] /\ Absent \notin Facts
  BY ObjectsPresent DEF TypeOK
<1>1. Changing
  BY DEF Kernel, KernelAddsLink, KernelSetsLink, KernelRemovesLink, KernelAddsAddr,
     KernelDelsAddr, KernelAddsRoute, KernelDelsRoute, WirelessEvent
<1>2. /\ UNCHANGED <<requested, dump, todo>>
      /\ \A kind, x : Unreported(kind, x)' = Unreported(kind, x)
  BY <1>1 DEF Changing, ownVars, Unreported
<1>3. ASSUME NEW m \in Messages, m.type \notin {"NEWROUTE", "DELROUTE"}, UNCHANGED kRoutes
      PROVE  OnRoutes(m)
  BY <1>2, <1>3 DEF RouteJoins, OnRoute, Enters, Leaves
<1>4. ASSUME NEW m \in Messages, m.type \in {"NEWROUTE", "DELROUTE"}, UNCHANGED kLinks
      PROVE  OnLinks(m)
  <2>1. \A id \in Ids : /\ m \notin Ups(id) /\ m \notin Downs(id) /\ m \notin OnAttr(id)
                        /\ \A a \in Addrs : m \notin Gains(id, a) /\ m \notin Drops(id, a)
    BY <1>4 DEF Ups, Downs, OnAttr, Gains, Drops
  <2>2. QED BY <1>2, <1>4, <2>1 DEF LinkJoins, AddrJoins, OnLink, OnAddr, HasAddr
<1>5. ASSUME NEW i \in Ids, NEW attr \in Attrs, UNCHANGED kRoutes,
             Notify(<<NewLink(i, attr, FALSE)>>),
             \/ kLinks[i] = Absent /\ kLinks' = [kLinks EXCEPT ![i] = [attr |-> attr, addrs |-> {}]]
             \/ kLinks[i] # Absent /\ kLinks' = [kLinks EXCEPT ![i].attr = attr]
      PROVE  \E m \in Messages : /\ Notify(<<m>>) /\ m.type # "DONE" /\ OnRoutes(m) /\ OnLinks(m)
  <2>1. PICK m \in Messages : /\ m = NewLink(i, attr, FALSE) /\ m.type = "NEWLINK" /\ m.id = i
                              /\ m.attr = attr /\ m.wireless = FALSE
    <3>1. NewLink(i, attr, FALSE) \in Messages
      BY Zenon DEF NewLink, Messages
    <3>2. QED BY <3>1 DEF NewLink
  <2>2. /\ \A id \in Ids \ {i} : kLinks'[id] = kLinks[id]
        /\ kLinks'[i] # Absent /\ kLinks'[i].attr = attr
        /\ kLinks'[i].addrs = IF kLinks[i] = Absent THEN {} ELSE kLinks[i].addrs
    <3>1. CASE kLinks[i] = Absent
      <4>1. kLinks' = [kLinks EXCEPT ![i] = [attr |-> attr, addrs |-> {}]]
        BY <1>5, <3>1
      <4>2. [attr |-> attr, addrs |-> {}] \in Facts
        BY DEF Facts
      <4>3. QED BY <1>0, <3>1, <4>1, <4>2
    <3>2. CASE kLinks[i] # Absent
      <4>1. kLinks' = [kLinks EXCEPT ![i].attr = attr] /\ kLinks[i] \in Facts
        BY <1>0, <1>5, <3>2
      <4>2. [kLinks[i] EXCEPT !.attr = attr] \in Facts
        BY <4>1 DEF Facts
      <4>3. [kLinks[i] EXCEPT !.attr = attr].attr = attr
            /\ [kLinks[i] EXCEPT !.attr = attr].addrs = kLinks[i].addrs
        BY <4>1 DEF Facts
      <4>4. kLinks'[i] = [kLinks[i] EXCEPT !.attr = attr]
            /\ \A id \in Ids \ {i} : kLinks'[id] = kLinks[id]
        BY <1>0, <4>1
      <4>5. QED BY <1>0, <3>2, <4>2, <4>3, <4>4
    <3>3. QED BY <3>1, <3>2
  <2>3. \A id \in Ids : /\ m \notin Downs(id)
                        /\ \A a \in Addrs : m \notin Gains(id, a) /\ m \notin Drops(id, a)
                        /\ (m \in Ups(id) <=> id = i) /\ (m \in OnAttr(id) <=> id = i)
    BY <2>1 DEF Ups, Downs, OnAttr, Gains, Drops
  <2>4. \A id \in Ids, a \in Addrs : HasAddr(id, a)' <=> HasAddr(id, a)
    BY <2>2 DEF HasAddr
  <2>5. OnLinks(m)
    BY <1>2, <2>1, <2>2, <2>3, <2>4 DEF LinkJoins, AddrJoins, OnLink, OnAddr
  <2>6. QED BY <1>3, <1>5, <2>1, <2>5
<1>6. CASE KernelAddsLink \/ KernelSetsLink
  BY <1>1, <1>5, <1>6 DEF KernelAddsLink, KernelSetsLink
<1>7. CASE KernelRemovesLink
  <2>0. PICK i \in Ids : /\ kLinks[i] # Absent /\ kLinks[i].addrs = {} /\ UNCHANGED kRoutes
                         /\ kLinks' = [kLinks EXCEPT ![i] = Absent]
                         /\ Notify(<<DelLinkMsg(i)>>)
    BY <1>7 DEF KernelRemovesLink
  <2>1. PICK m \in Messages : m = DelLinkMsg(i) /\ m.type = "DELLINK" /\ m.id = i
    BY MessagesMade
  <2>2. kLinks'[i] = Absent /\ \A id \in Ids \ {i} : kLinks'[id] = kLinks[id]
    BY <1>0, <2>0
  <2>3. \A id \in Ids : /\ m \notin Ups(id) /\ m \notin OnAttr(id)
                        /\ \A a \in Addrs : m \notin Gains(id, a) /\ m \notin Drops(id, a)
                        /\ (m \in Downs(id) <=> id = i)
    BY <2>1 DEF Ups, Downs, OnAttr, Gains, Drops
  <2>4. \A id \in Ids, a \in Addrs : HasAddr(id, a)' <=> HasAddr(id, a)
    BY <2>0, <2>2 DEF HasAddr
  <2>5. \A a \in Addrs : ~HasAddr(i, a)
    BY <2>0 DEF HasAddr
  <2>6. OnLinks(m)
    BY <1>2, <2>2, <2>3, <2>4, <2>5 DEF LinkJoins, AddrJoins, OnLink, OnAddr
  <2>7. QED BY <1>1, <1>3, <2>0, <2>1, <2>6
<1>8. ASSUME NEW i \in Ids, NEW b \in Addrs, NEW type \in {"NEWADDR", "DELADDR"},
             Notify(<<AddrMsg(type, i, b)>>), UNCHANGED kRoutes, kLinks[i] # Absent,
             kLinks' = [kLinks EXCEPT ![i].addrs = IF type = "NEWADDR" THEN @ \cup {b}
                                                   ELSE @ \ {b}]
      PROVE  \E m \in Messages : /\ Notify(<<m>>) /\ m.type # "DONE" /\ OnRoutes(m) /\ OnLinks(m)
  <2>1. PICK m \in Messages : m = AddrMsg(type, i, b) /\ m.type = type /\ m.id = i /\ m.addr = b
    BY <1>8, MessagesMade
  <2>2. /\ \A id \in Ids \ {i} : kLinks'[id] = kLinks[id]
        /\ kLinks'[i] # Absent /\ kLinks'[i].attr = kLinks[i].attr
        /\ kLinks'[i].addrs = IF type = "NEWADDR" THEN kLinks[i].addrs \cup {b}
                              ELSE kLinks[i].addrs \ {b}
    <3>1. PICK new : new = IF type = "NEWADDR" THEN kLinks[i].addrs \cup {b}
                           ELSE kLinks[i].addrs \ {b}
      OBVIOUS
    <3>2. kLinks[i] \in Facts /\ new \in SUBSET Addrs
      BY <1>0, <1>8, <3>1 DEF Facts
    <3>3. kLinks'[i] = [kLinks[i] EXCEPT !.addrs = new]
          /\ \A id \in Ids \ {i} : kLinks'[id] = kLinks[id]
      BY <1>0, <1>8, <3>1
    <3>4. [kLinks[i] EXCEPT !.addrs = new] \in Facts
      BY <3>2 DEF Facts
    <3>5. [kLinks[i] EXCEPT !.addrs = new].addrs = new
          /\ [kLinks[i] EXCEPT !.addrs = new].attr = kLinks[i].attr
      BY <3>2 DEF Facts
    <3>6. QED BY <1>0, <3>1, <3>3, <3>4, <3>5
  <2>3. /\ \A id \in Ids : m \notin Ups(id) /\ m \notin OnAttr(id) /\ m \notin Downs(id)
        /\ \A id \in Ids, a \in Addrs :
              /\ m \in Gains(id, a) <=> type = "NEWADDR" /\ id = i /\ a = b
              /\ m \in Drops(id, a) <=> type = "DELADDR" /\ id = i /\ a = b
    BY <2>1 DEF Ups, Downs, OnAttr, Gains, Drops
  <2>4. /\ HasAddr(i, b)' <=> type = "NEWADDR"
        /\ \A id \in Ids, a \in Addrs : id # i \/ a # b => (HasAddr(id, a)' <=> HasAddr(id, a))
    BY <1>8, <2>2 DEF HasAddr
  <2>5. \A id \in Ids : LinkJoins(m, id)
    BY <1>2, <1>8, <2>2, <2>3 DEF LinkJoins, OnLink
  <2>6. ASSUME NEW id \in Ids, NEW a \in Addrs PROVE AddrJoins(m, id, a)
    <3>1. CASE id = i /\ a = b
      <4>1. Unreported("link", id) => Unreported("addr", <<id, a>>)'
        BY <1>2, LinksBeforeAddresses
      <4>2. m \in OnAddr(id, a) /\ m \notin Downs(id)
            /\ (m \in Gains(id, a) <=> HasAddr(id, a)') /\ (m \in Drops(id, a) <=> ~HasAddr(id, a)')
        BY <1>8, <2>3, <2>4, <3>1 DEF OnAddr
      <4>3. QED BY <1>8, <3>1, <4>1, <4>2 DEF AddrJoins
    <3>2. CASE id # i \/ a # b
      <4>1. /\ m \notin OnAddr(id, a) /\ m \notin Gains(id, a) /\ m \notin Drops(id, a)
            /\ m \notin Downs(id) /\ (HasAddr(id, a)' <=> HasAddr(id, a))
        BY <2>3, <2>4, <3>2 DEF OnAddr
      <4>2. QED BY <1>2, <4>1 DEF AddrJoins
    <3>3. QED BY <3>1, <3>2
  <2>7. QED BY <1>3, <1>8, <2>1, <2>5, <2>6
<1>9. CASE KernelAddsAddr \/ KernelDelsAddr
  <2>1. PICK i \in Ids, b \in Addrs, type \in {"NEWADDR", "DELADDR"} :
               /\ Notify(<<AddrMsg(type, i, b)>>) /\ UNCHANGED kRoutes /\ kLinks[i] # Absent
               /\ type = "NEWADDR" => kLinks' = [kLinks EXCEPT ![i].addrs = @ \cup {b}]
               /\ type = "DELADDR" => kLinks' = [kLinks EXCEPT ![i].addrs = @ \ {b}]
    BY <1>9 DEF KernelAddsAddr, KernelDelsAddr
  <2>2. kLinks' = [kLinks EXCEPT ![i].addrs = IF type = "NEWADDR" THEN @ \cup {b} ELSE @ \ {b}]
    BY <2>1
  <2>3. QED BY <1>1, <1>8, <2>1, <2>2
<1>10. CASE KernelAddsRoute \/ KernelDelsRoute
  <2>0. PICK x \in Routes, type \in {"NEWROUTE", "DELROUTE"} :
               /\ Notify(<<RouteMsg(type, x)>>) /\ UNCHANGED kLinks
               /\ kRoutes' = IF type = "NEWROUTE" THEN kRoutes \cup {x} ELSE kRoutes \ {x}
    BY <1>10 DEF KernelAddsRoute, KernelDelsRoute
  <2>1. PICK m \in Messages : m = RouteMsg(type, x) /\ m.type = type /\ m.route = x
    BY MessagesMade
  <2>2. \A r \in Routes : /\ m \in Enters(r) <=> type = "NEWROUTE" /\ r = x
                          /\ m \in Leaves(r) <=> type = "DELROUTE" /\ r = x
    BY <2>1 DEF Enters, Leaves
  <2>3. OnRoutes(m)
    BY <1>2, <2>0, <2>2 DEF RouteJoins, OnRoute
  <2>4. QED BY <1>1, <1>4, <2>0, <2>1, <2>3
<1>11. CASE WirelessEvent
  <2>0. PICK i \in Ids, attr \in Attrs :
               /\ kLinks[i] # Absent => attr = kLinks[i].attr
               /\ Notify(<<NewLink(i, attr, TRUE)>>) /\ UNCHANGED <<kLinks, kRoutes>>
    BY <1>11 DEF WirelessEvent
  <2>1. PICK m \in Messages : /\ m = NewLink(i, attr, TRUE) /\ m.type = "NEWLINK" /\ m.id = i
                              /\ m.attr = attr /\ m.wireless = TRUE
    <3>1. NewLink(i, attr, TRUE) \in Messages
      BY Zenon DEF NewLink, Messages
    <3>2. QED BY <3>1 DEF NewLink
  <2>2. \A id \in Ids : /\ m \notin Ups(id) /\ m \notin Downs(id)
                        /\ \A a \in Addrs : m \notin Gains(id, a) /\ m \notin Drops(id, a)
                        /\ (m \in OnAttr(id) <=> id = i)
    BY <2>1 DEF Ups, Downs, OnAttr, Gains, Drops
  <2>3. OnLinks(m)
    BY <1>2, <2>0, <2>1, <2>2 DEF LinkJoins, AddrJoins, OnLink, OnAddr, HasAddr
  <2>4. QED BY <1>1, <1>3, <2>0, <2>1, <2>3
<1>12. QED BY <1>6, <1>7, <1>9, <1>10, <1>11 DEF Kernel

LEMMA DumpQueues ==
    ASSUME TypeOK, OneDump, DumpReports \/ DumpEnds
    PROVE  \E m \in Messages :
              /\ Enqueue(m)
              /\ \/ m.type = "DONE" /\ dump # "none" /\ dump' = "none"
                 \/ m.type # "DONE" /\ dump' = dump
              /\ \A r \in Routes : RouteJoins(m, r)
              /\ \A id \in Ids : LinkJoins(m, id) /\ \A a \in Addrs : AddrJoins(m, id, a)
<1> DEFINE OnRoutes(m) == \A r \in Routes : RouteJoins(m, r)
           OnLinks(m) == \A id \in Ids : LinkJoins(m, id) /\ \A a \in Addrs : AddrJoins(m, id, a)
<1>0. kLinks \in [Ids -> Facts \cup {Absent}] /\ Absent \notin Facts
  BY ObjectsPresent DEF TypeOK
<1>1. UNCHANGED <<kLinks, kRoutes, requested>>
  BY DEF DumpReports, DumpEnds, Enqueue, ownVars
<1>2. \A id, a : HasAddr(id, a)' = HasAddr(id, a)
  BY <1>1 DEF HasAddr
<1>3. ASSUME NEW m \in Messages, m.type \notin {"NEWROUTE", "DELROUTE"},
             \A r \in Routes : r \in kRoutes /\ Unreported("route", r) => Unreported("route", r)'
      PROVE  OnRoutes(m)
  BY <1>1, <1>3 DEF RouteJoins, OnRoute, Enters, Leaves
<1>4. ASSUME NEW m \in Messages, m.type \in {"NEWROUTE", "DONE"},
             \A id \in Ids :
                kLinks[id] # Absent /\ Unreported("link", id) => Unreported("link", id)',
             \A id \in Ids, a \in Addrs :
                HasAddr(id, a) /\ Unreported("addr", <<id, a>>) => Unreported("addr", <<id, a>>)'
      PROVE  OnLinks(m)
  <2>1. \A id \in Ids : /\ m \notin Ups(id) /\ m \notin Downs(id) /\ m \notin OnAttr(id)
                        /\ \A a \in Addrs : m \notin Gains(id, a) /\ m \notin Drops(id, a)
    BY <1>4 DEF Ups, Downs, OnAttr, Gains, Drops
  <2>2. QED BY <1>1, <1>2, <1>4, <2>1 DEF LinkJoins, AddrJoins, OnLink, OnAddr
<1>5. CASE DumpEnds
  <2>1. PICK m \in Messages : m = [type |-> "DONE"] /\ m.type = "DONE"
    BY MessagesMade
  <2>2. /\ dump # "none" /\ todo \cap Subjects(dump) = {} /\ Enqueue(m) /\ dump' = "none"
    BY <1>5, <2>1 DEF DumpEnds
  <2>3. /\ \A r \in Routes : r \in kRoutes /\ Unreported("route", r) => "route" \notin requested
        /\ \A id \in Ids : kLinks[id] # Absent /\ Unreported("link", id) => "link" \notin requested
        /\ \A id \in Ids, a \in Addrs :
              HasAddr(id, a) /\ Unreported("addr", <<id, a>>) => "addr" \notin requested
    <3>1. \A r \in Routes : r \in kRoutes /\ Unreported("route", r) => "route" \notin requested
      BY <2>2 DEF Unreported, Subjects
    <3>2. \A id \in Ids : kLinks[id] # Absent /\ Unreported("link", id) => "link" \notin requested
      BY <2>2 DEF Unreported, Subjects
    <3>3. ASSUME NEW id \in Ids, NEW a \in Addrs, HasAddr(id, a), dump = "addr"
          PROVE  <<id, a>> \notin todo
      <4>1. <<id, a>> \in Subjects(dump)
        BY <3>3 DEF Subjects, HasAddr
      <4>2. QED BY <2>2, <4>1
    <3>4. QED BY <3>1, <3>2, <3>3 DEF Unreported
  <2>4. OnRoutes(m)
    BY <1>1, <1>3, <2>1, <2>3 DEF Unreported
  <2>5. OnLinks(m)
    BY <1>1, <1>4, <2>1, <2>3 DEF Unreported
  <2>6. QED BY <2>1, <2>2, <2>4, <2>5
<1>6. CASE DumpReports
  <2>0. PICK x \in todo \cap Subjects(dump) :
               /\ dump # "none" /\ Enqueue(Report(dump, x)) /\ todo' = todo \ {x} /\ dump' = dump
    BY <1>6 DEF DumpReports
  <2>1. \A kind, y : kind # dump \/ y # x => (Unreported(kind, y) => Unreported(kind, y)')
    BY <1>1, <2>0 DEF Unreported
  <2>2. CASE dump = "link"
    <3>1. PICK i \in Ids, attr \in Attrs : i = x /\ attr = kLinks[i].attr /\ kLinks[i] # Absent
      <4>1. x \in Ids /\ kLinks[x] # Absent
        BY <2>0, <2>2 DEF Subjects
      <4>2. kLinks[x] \in Facts
        BY <1>0, <4>1
      <4>3. QED BY <4>1, <4>2 DEF Facts
    <3>2. PICK m \in Messages : /\ m = NewLink(i, attr, FALSE) /\ m.type = "NEWLINK" /\ m.id = i
                                /\ m.attr = attr /\ m.wireless = FALSE
      <4>1. NewLink(i, attr, FALSE) \in Messages
        BY Zenon DEF NewLink, Messages
      <4>2. QED BY <4>1 DEF NewLink
    <3>3. \A id \in Ids : /\ m \notin Downs(id)
                          /\ \A a \in Addrs : m \notin Gains(id, a) /\ m \notin Drops(id, a)
                          /\ (m \in Ups(id) <=> id = i) /\ (m \in OnAttr(id) <=> id = i)
      BY <3>2 DEF Ups, Downs, OnAttr, Gains, Drops
    <3>4. OnRoutes(m)
      BY <1>3, <2>1, <2>2, <3>2
    <3>5. ASSUME NEW id \in Ids PROVE LinkJoins(m, id)
      BY <1>1, <2>1, <2>2, <3>1, <3>2, <3>3 DEF LinkJoins, OnLink
    <3>6. ASSUME NEW id \in Ids, NEW a \in Addrs PROVE AddrJoins(m, id, a)
      BY <1>2, <2>1, <2>2, <3>3 DEF AddrJoins, OnAddr
    <3>7. Enqueue(m) /\ m.type # "DONE"
      BY <2>0, <2>2, <3>1, <3>2 DEF Report
    <3>8. QED BY <2>0, <3>4, <3>5, <3>6, <3>7
  <2>3. CASE dump = "addr"
    <3>1. PICK i \in Ids, b \in Addrs : x = <<i, b>> /\ HasAddr(i, b)
      BY <2>0, <2>3 DEF Subjects, HasAddr
    <3>2. PICK m \in Messages : /\ m = AddrMsg("NEWADDR", i, b) /\ m.type = "NEWADDR" /\ m.id = i
                                /\ m.addr = b
      BY MessagesMade
    <3>3. /\ \A id \in Ids : m \notin Ups(id) /\ m \notin OnAttr(id) /\ m \notin Downs(id)
          /\ \A id \in Ids, a \in Addrs :
                (m \in Gains(id, a) <=> id = i /\ a = b) /\ m \notin Drops(id, a)
      BY <3>2 DEF Ups, Downs, OnAttr, Gains, Drops
    <3>4. OnRoutes(m)
      BY <1>3, <2>1, <2>3, <3>2
    <3>5. ASSUME NEW id \in Ids PROVE LinkJoins(m, id)
      BY <1>1, <2>1, <2>3, <3>3 DEF LinkJoins, OnLink
    <3>6. ASSUME NEW id \in Ids, NEW a \in Addrs PROVE AddrJoins(m, id, a)
      <4>1. CASE id = i /\ a = b
        <5>1. ~Unreported("link", id)
          BY <2>3, LinksBeforeAddresses DEF OneDump
        <5>2. kLinks[id] # Absent
          BY <3>1, <4>1 DEF HasAddr
        <5>3. QED BY <1>2, <3>1, <3>3, <4>1, <5>1, <5>2 DEF AddrJoins, OnAddr
      <4>2. CASE id # i \/ a # b
        <5>1. <<id, a>> # x
          BY <3>1, <4>2
        <5>2. QED BY <1>2, <2>1, <3>3, <4>2, <5>1 DEF AddrJoins, OnAddr
      <4>3. QED BY <4>1, <4>2
    <3>7. Enqueue(m) /\ m.type # "DONE"
      BY <2>0, <2>3, <3>1, <3>2 DEF Report
    <3>8. QED BY <2>0, <3>4, <3>5, <3>6, <3>7
  <2>4. CASE dump = "route"
    <3>1. x \in Routes /\ x \in kRoutes
      BY <2>0, <2>4 DEF Subjects, TypeOK
    <3>2. PICK m \in Messages : m = RouteMsg("NEWROUTE", x) /\ m.type = "NEWROUTE" /\ m.route = x
      BY <3>1, MessagesMade
    <3>3. \A r \in Routes : (m \in Enters(r) <=> r = x) /\ m \notin Leaves(r)
      BY <3>2 DEF Enters, Leaves
    <3>4. OnRoutes(m)
      BY <1>1, <2>1, <2>4, <3>1, <3>3 DEF RouteJoins, OnRoute
    <3>5. OnLinks(m)
      BY <1>4, <2>1, <2>4, <3>2
    <3>6. Enqueue(m) /\ m.type # "DONE"
      BY <2>0, <2>4, <3>2 DEF Report
    <3>7. QED BY <2>0, <3>4, <3>5, <3>6
  <2>5. QED BY <2>0, <2>2, <2>3, <2>4 DEF TypeOK, Dumps
<1>7. QED BY <1>5, <1>6

\* All of it: every step of the enumerator and of the kernel.
LEMMA EnumeratorFollows ==
    ASSUME NInv, OpenSock \/ FirstRequest \/ OnSock
    PROVE  LinksSound' /\ RoutesSound' /\ Follows'
<1>0. TypeOK /\ LinksSound /\ RoutesSound /\ Follows
  BY DEF NInv, LinksSound, RoutesSound, ToldUnlessChanged, TypeOK
<1>1. ASSUME UNCHANGED <<linksVars, mixed>> PROVE LinksSound'
  BY <1>0, <1>1 DEF LinksSound, LinksTypeOK, AllocatedOnce, LinksTold, EntersOrLeaves, linksVars
<1>2. ASSUME UNCHANGED <<routesVars, known, clash>> PROVE RoutesSound'
  BY <1>0, <1>2 DEF RoutesSound, RoutesTypeOK, RoutesCounted, Left, routesVars
<1>3. CASE OpenSock \/ FirstRequest \/ SockError \/ SockReady
  <2>1. /\ UNCHANGED <<linksVars, routesVars, queue, kLinks, kRoutes, known, clash, lost, mixed>>
        /\ UNCHANGED <<requested, dump, todo>> \/ FirstRequest
    BY <1>3
    DEF OpenSock, FirstRequest, SockError, SockReady, ownVars, kernelVars, sockVars, histVars
  <2>2. StillDue
    <3>1. CASE FirstRequest
      <4>1. dump = "none"
        BY <3>1 DEF NInv, StartsEmpty, FirstRequest
      <4>2. QED BY <3>1, <4>1, RequestStillDue DEF FirstRequest
    <3>2. QED BY <2>1, <3>1, DueUntouched
  <2>3. \A id : View(id)' = View(id) /\ Known(id)' = Known(id)
    BY <2>1, ViewsUntouched
  <2>4. Follows'
    BY <1>0, <2>1, <2>2, <2>3, FollowsStill
  <2>5. QED BY <1>1, <1>2, <2>1, <2>4
<1>4. CASE RecvEnds
  <2>1. /\ FlushLinks /\ FlushRoutes
        /\ UNCHANGED <<queue, kLinks, kRoutes, known, clash, lost, mixed, requested, dump, todo>>
    BY <1>4 DEF RecvEnds, kernelVars, histVars
  <2>2. LinksSound' /\ \A id \in Ids \ mixed : View(id)' = View(id)
    BY <1>0, <2>1, FlushLinksSound
  <2>3. RoutesSound'
    BY <1>0, <2>1, FlushRoutesSound
  <2>4. \A id \in Ids \ mixed : Known(id)' = Known(id)
    BY <2>2 DEF Known
  <2>5. Follows'
    BY <1>0, <2>1, <2>2, <2>4, FollowsStill, DueUntouched
  <2>6. QED BY <2>2, <2>3, <2>5
<1>5. CASE RecvDone
  <2>1. /\ Receives({"DONE"}) /\ DoNextRequest
        /\ UNCHANGED <<linksVars, routesVars, kLinks, kRoutes, lost, mixed, known, clash>>
    BY <1>5 DEF RecvDone, Receives
  <2>2. PICK m \in Messages : m = Head(queue) /\ m.type = "DONE" /\ Reads
    BY <1>0, <2>1, ReadMessage
  <2>3. dump = "none"
    <3>1. m \in Dones
      BY <2>2 DEF Dones
    <3>2. ~Silent(queue, Dones)
      BY <2>2, <3>1, SilentRemoved DEF Reads
    <3>3. QED BY <3>2 DEF NInv, OneDump
  <2>4. StillDue
    BY <2>1, <2>3, RequestStillDue
  <2>5. \A r \in Routes : RouteRead(r)
    BY <2>1, <2>2 DEF RouteRead, OnRoute, Enters, Leaves
  <2>6. \A id : LinkRead(id) /\ \A a \in Addrs : AddrRead(id, a)
    BY <2>1, <2>2, ReadOther
  <2>7. Follows'
    BY <1>0, <2>1, <2>2, <2>4, <2>5, <2>6, FollowsRead
  <2>8. QED BY <1>1, <1>2, <2>1, <2>7
<1>6. ASSUME \/ RecvError \/ RecvNewLink \/ RecvDelLink \/ RecvAddr
             \/ RecvNewRoute \/ RecvDelRoute,
             LinksSound', RoutesSound', \A r \in Routes : RouteRead(r),
             \A id \in Ids \ mixed' : LinkRead(id) /\ \A a \in Addrs : AddrRead(id, a)
      PROVE  Follows'
  <2>1. /\ \E types : ReceivesReport(types)
        /\ mixed \subseteq mixed'
    BY <1>6 DEF RecvError, RecvNewLink, RecvDelLink, RecvAddr, RecvNewRoute, RecvDelRoute
  <2>2. Reads /\ UNCHANGED <<kLinks, kRoutes, lost, requested, dump, todo>>
    BY <1>0, <2>1, ReadMessage DEF ReceivesReport, Receives
  <2>3. QED BY <1>0, <1>6, <2>1, <2>2, FollowsRead, DueUntouched
<1>7. CASE RecvNewLink \/ RecvDelLink \/ RecvAddr
  <2>1. UNCHANGED <<routesVars, known, clash>>
    BY <1>7 DEF RecvNewLink, RecvDelLink, RecvAddr
  <2>2. /\ LinksSound'
        /\ \A r \in Routes : RouteRead(r)
        /\ \A id \in Ids \ mixed' : LinkRead(id) /\ \A a \in Addrs : AddrRead(id, a)
    BY <1>0, <1>7, ReadNewLink, ReadDelLink, ReadAddr
  <2>3. QED BY <1>2, <1>6, <1>7, <2>1, <2>2
<1>8. CASE RecvNewRoute \/ RecvDelRoute
  <2>1. UNCHANGED <<linksVars, mixed>>
    BY <1>8 DEF RecvNewRoute, RecvDelRoute
  <2>2. /\ RoutesSound'
        /\ \A r \in Routes : RouteRead(r)
        /\ \A id \in Ids : LinkRead(id) /\ \A a \in Addrs : AddrRead(id, a)
    BY <1>0, <1>8, ReadRoute
  <2>3. QED BY <1>1, <1>6, <1>8, <2>1, <2>2
<1>9. CASE RecvError
  <2>1. ReceivesReport({"ERROR"}) /\ UNCHANGED <<linksVars, routesVars, mixed, known, clash>>
    BY <1>9 DEF RecvError
  <2>2. PICK m \in Messages : m = Head(queue) /\ m.type = "ERROR"
    BY <1>0, <2>1, ReadMessage DEF ReceivesReport
  <2>3. \A r \in Routes : RouteRead(r)
    BY <2>1, <2>2 DEF RouteRead, OnRoute, Enters, Leaves
  <2>4. \A id : LinkRead(id) /\ \A a \in Addrs : AddrRead(id, a)
    BY <2>1, <2>2, ReadOther
  <2>5. QED BY <1>1, <1>2, <1>6, <1>9, <2>1, <2>3, <2>4
<1>10. QED BY <1>3, <1>4, <1>5, <1>7, <1>8, <1>9 DEF OnSock

LEMMA KernelFollows ==
    ASSUME NInv, Kernel \/ Dump
    PROVE  LinksSound' /\ RoutesSound' /\ Follows'
<1>0. TypeOK /\ OneDump /\ LinksSound /\ RoutesSound /\ Follows
  BY DEF NInv, LinksSound, RoutesSound, ToldUnlessChanged, TypeOK
<1> SUFFICES ASSUME ~DumpRejected PROVE LinksSound' /\ RoutesSound' /\ Follows'
  <2> SUFFICES ASSUME DumpRejected PROVE LinksSound' /\ RoutesSound' /\ Follows'
    OBVIOUS
  <2>1. UNCHANGED <<linksVars, routesVars, mixed, known, clash>> /\ lost'
    BY DEF DumpRejected, Enqueue
  <2>2. LinksSound'
    BY <1>0, <2>1 DEF LinksSound, LinksTypeOK, AllocatedOnce, LinksTold, EntersOrLeaves, linksVars
  <2>3. RoutesSound'
    BY <1>0, <2>1 DEF RoutesSound, RoutesTypeOK, RoutesCounted, Left, routesVars
  <2>4. QED BY <2>1, <2>2, <2>3 DEF Follows
<1>1. PICK m \in Messages :
             /\ (Notify(<<m>>) /\ Changing) \/ (Enqueue(m) /\ UNCHANGED lost)
             /\ \A r \in Routes : RouteJoins(m, r)
             /\ \A id \in Ids : LinkJoins(m, id) /\ \A a \in Addrs : AddrJoins(m, id, a)
  <2>1. Kernel \/ DumpReports \/ DumpEnds
    BY DEF Dump
  <2>2. DumpReports \/ DumpEnds => UNCHANGED lost
    BY DEF DumpReports, DumpEnds
  <2>3. QED BY <1>0, <2>1, <2>2, KernelNotifies, DumpQueues
<1>2. UNCHANGED <<linksVars, routesVars, ownVars, mixed, known, clash>>
  BY <1>1 DEF Changing, Enqueue
<1>3. LinksSound'
  BY <1>0, <1>2 DEF LinksSound, LinksTypeOK, AllocatedOnce, LinksTold, EntersOrLeaves, linksVars
<1>4. RoutesSound'
  BY <1>0, <1>2 DEF RoutesSound, RoutesTypeOK, RoutesCounted, Left, routesVars
<1>5. Follows'
  <2> SUFFICES ASSUME ~lost' PROVE Follows'
    BY DEF Follows
  <2>1. CASE Enqueue(m) \/ Listening
    <3>1. queue' = Append(queue, m) /\ (~lost' => ~lost)
      BY <1>0, <1>1, <2>1, Notified DEF Enqueue
    <3>2. Joins(m)
      BY <1>0, <1>2, <3>1 DEF Joins, TypeOK
    <3>3. QED BY <1>0, <1>1, <1>2, <3>1, <3>2, FollowsJoined
  <2>2. CASE ~Enqueue(m) /\ ~Listening
    <3>1. UNCHANGED queue
      BY <1>1, <2>2 DEF Notify
    <3>2. /\ queue = <<>> /\ requested = {} /\ known = {}
          /\ \A id \in Ids : ~Known(id)
      BY <1>0, <2>2 DEF NInv, StartsEmpty, Listening, TypeOK
    <3>3. \A id \in Ids : Known(id)' = Known(id)
      BY <1>2, ViewsUntouched
    <3>4. QED BY <1>2, <3>1, <3>2, <3>3, FollowsFromNothing DEF ownVars
  <2>3. QED BY <2>1, <2>2
<1>6. QED BY <1>3, <1>4, <1>5

-----------------------------------------------------------------------------
(* The rest of the invariant.                                              *)

\* One end of a dump in the queue, if any.
LEMMA OnceAppended ==
    ASSUME NEW q \in Seq(Messages), NEW m \in Messages, NEW about, Once(q, about),
           m \notin about \/ Silent(q, about)
    PROVE  Once(Append(q, m), about)
<1> HIDE DEF Messages
<1>1. QED BY Appended, SMT DEF Once, Silent

LEMMA OnceRemoved ==
    ASSUME NEW q \in Seq(Messages), q # <<>>, NEW about, Once(q, about)
    PROVE  Once(Tail(q), about) /\ (Head(q) \in about => Silent(Tail(q), about))
<1> DEFINE t == Tail(q)
<1>0. /\ Len(q) \in Nat \ {0} /\ Len(t) = Len(q) - 1 /\ Head(q) = q[1]
      /\ \A i \in 1 .. Len(q) - 1 : t[i] = q[i + 1]
  BY Removed
<1> HIDE DEF t
<1>1. Once(t, about)
  BY <1>0, SMT DEF Once
<1>2. ASSUME Head(q) \in about, NEW i \in 1 .. Len(t), t[i] \in about PROVE FALSE
  <2>1. 1 \in 1 .. Len(q) /\ i + 1 \in 1 .. Len(q) /\ q[i + 1] = t[i] /\ i + 1 # 1
    BY <1>0, SMT
  <2>2. QED BY <1>0, <1>2, <2>1 DEF Once
<1>3. QED BY <1>1, <1>2 DEF Silent, t

LEMMA RequestsInOrder ==
    ASSUME OneDump, requested \subseteq Dumps, dump = "none", DoNextRequest,
           Silent(queue', Dones)
    PROVE  OneDump'
<1>1. Once(queue', Dones)
  BY DEF Once, Silent
<1>2. QED BY <1>1 DEF OneDump, DoNextRequest, Request, Dumps

LEMMA OneDumpKept == NInv /\ [Next]_vars => OneDump'
<1> SUFFICES ASSUME NInv, [Next]_vars PROVE OneDump'
  OBVIOUS
<1>0. TypeOK /\ OneDump /\ StartsEmpty /\ queue \in Seq(Messages) /\ requested \subseteq Dumps
  BY DEF NInv, TypeOK
<1>1. ASSUME UNCHANGED <<queue, requested, dump>> PROVE OneDump'
  BY <1>0, <1>1 DEF OneDump
<1>2. CASE Kernel
  <2>1. PICK m \in Messages : Notify(<<m>>) /\ m.type # "DONE" /\ Changing
    BY <1>0, <1>2, KernelNotifies
  <2>2. /\ queue' \in {queue, Append(queue, m)} /\ m \notin Dones
        /\ UNCHANGED <<requested, dump>>
    BY <1>0, <2>1, Notified DEF Changing, ownVars, Dones
  <2>3. Once(queue', Dones) /\ (Silent(queue, Dones) => Silent(queue', Dones))
    <3>1. /\ Once(Append(queue, m), Dones)
          /\ Silent(queue, Dones) => Silent(Append(queue, m), Dones)
      BY <1>0, <2>2, OnceAppended, SilentAppended DEF OneDump
    <3>2. CASE queue' = queue
      BY <1>0, <3>2 DEF OneDump
    <3>3. CASE queue' = Append(queue, m)
      BY <3>1, <3>3
    <3>4. QED BY <2>2, <3>2, <3>3
  <2>4. QED BY <1>0, <2>2, <2>3 DEF OneDump
<1>3. CASE Dump
  <2>1. PICK m \in Messages : /\ Enqueue(m)
                              /\ \/ m.type = "DONE" /\ dump # "none" /\ dump' = "none"
                                 \/ m.type # "DONE" /\ dump' \in {dump, "none"}
    <3>1. CASE DumpRejected
      BY <3>1, MessagesMade DEF DumpRejected
    <3>2. CASE DumpReports \/ DumpEnds
      BY <1>0, <3>2, DumpQueues
    <3>3. QED BY <1>3, <3>1, <3>2 DEF Dump
  <2>2. queue' = Append(queue, m) /\ UNCHANGED requested /\ (m \in Dones <=> m.type = "DONE")
    BY <2>1 DEF Enqueue, ownVars, Dones
  <2>3. /\ Once(queue', Dones)
        /\ m \notin Dones /\ Silent(queue, Dones) => Silent(queue', Dones)
    BY <1>0, <2>1, <2>2, OnceAppended, SilentAppended DEF OneDump
  <2>4. QED BY <1>0, <2>1, <2>2, <2>3 DEF OneDump
<1>4. CASE FirstRequest
  BY <1>0, <1>4, RequestsInOrder DEF FirstRequest, StartsEmpty, sockVars
<1>5. CASE RecvDone
  <2>1. PICK m \in Messages : m = Head(queue) /\ m.type = "DONE" /\ Reads /\ DoNextRequest
    BY <1>0, <1>5, ReadMessage DEF RecvDone
  <2>2. m \in Dones
    BY <2>1 DEF Dones
  <2>3. dump = "none" /\ Silent(queue', Dones)
    BY <1>0, <2>1, <2>2, SilentRemoved, OnceRemoved DEF Reads, OneDump
  <2>4. QED BY <1>0, <2>1, <2>3, RequestsInOrder
<1>6. CASE \/ RecvError \/ RecvNewLink \/ RecvDelLink \/ RecvAddr
           \/ RecvNewRoute \/ RecvDelRoute
  <2>1. \E types : ReceivesReport(types)
    BY <1>6 DEF RecvError, RecvNewLink, RecvDelLink, RecvAddr, RecvNewRoute, RecvDelRoute
  <2>2. Reads /\ UNCHANGED <<requested, dump>>
    BY <1>0, <2>1, ReadMessage DEF ReceivesReport, Receives
  <2>3. Once(queue', Dones) /\ (Silent(queue, Dones) => Silent(queue', Dones))
    BY <1>0, <2>2, OnceRemoved, SilentRemoved DEF OneDump, Reads
  <2>4. QED BY <1>0, <2>2, <2>3 DEF OneDump
<1>7. CASE OpenSock \/ SockError \/ SockReady \/ RecvEnds \/ UNCHANGED vars
  BY <1>1, <1>7
  DEF OpenSock, SockError, SockReady, RecvEnds, vars, ownVars, kernelVars, sockVars
<1>8. QED BY <1>2, <1>3, <1>4, <1>5, <1>6, <1>7 DEF Next, OnSock

LEMMA StartsEmptyKept == NInv /\ [Next]_vars => StartsEmpty'
<1> SUFFICES ASSUME NInv, [Next]_vars PROVE StartsEmpty'
  OBVIOUS
<1>0. TypeOK /\ OneDump /\ StartsEmpty /\ queue \in Seq(Messages)
  BY DEF NInv, TypeOK
<1>1. ASSUME UNCHANGED linksVars, NEW id PROVE Known(id)' = Known(id)
  BY <1>1, ViewsUntouched
<1>2. CASE Kernel
  <2>1. PICK m \in Messages : Notify(<<m>>) /\ m.type # "DONE" /\ Changing
    BY <1>0, <1>2, KernelNotifies
  <2>2. /\ queue' \in {queue, Append(queue, m)} /\ m \notin Dones
        /\ UNCHANGED <<linksVars, pc, requested, dump, known>>
        /\ pc \in {"new", "dead"} => UNCHANGED queue
    BY <1>0, <2>1, Notified DEF Changing, ownVars, Dones, Notify, Listening
  <2>3. Silent(queue, Dones) => Silent(queue', Dones)
    <3>1. Silent(queue, Dones) => Silent(Append(queue, m), Dones)
      BY <1>0, <2>2, SilentAppended
    <3>2. CASE queue' = queue
      BY <3>2
    <3>3. CASE queue' = Append(queue, m)
      BY <3>1, <3>3
    <3>4. QED BY <2>2, <3>2, <3>3
  <2>4. QED BY <1>0, <1>1, <2>2, <2>3 DEF StartsEmpty
<1>3. CASE OpenSock \/ UNCHANGED vars
  <2>1. /\ UNCHANGED <<linksVars, requested, dump, known, queue>>
        /\ UNCHANGED pc \/ (pc = "new" /\ pc' \in {"bound", "dead"})
    BY <1>3 DEF OpenSock, vars, ownVars, kernelVars, sockVars, histVars
  <2>2. Silent(<<>>, Dones)
    BY SMT DEF Silent
  <2>3. QED BY <1>0, <1>1, <2>1, <2>2 DEF StartsEmpty
<1>4. CASE Dump \/ FirstRequest \/ OnSock
  <2>1. CASE Dump
    BY <1>0, <2>1
    DEF Dump, DumpReports, DumpEnds, DumpRejected, Enqueue, StartsEmpty, ownVars
  <2>2. CASE FirstRequest \/ OnSock
    <3>1. pc' \in {"idle", "read"}
      BY <2>2
      DEF FirstRequest, OnSock, SockError, SockReady, RecvDone, RecvError, RecvNewLink,
          RecvDelLink, RecvAddr, RecvNewRoute, RecvDelRoute, RecvEnds, ReceivesReport,
          Receives, ownVars
    <3>2. QED BY <3>1 DEF StartsEmpty
  <2>3. QED BY <1>4, <2>1, <2>2
<1>5. QED BY <1>2, <1>3, <1>4 DEF Next

LEMMA FlushedKept == NInv /\ [Next]_vars => Flushed'
<1> SUFFICES ASSUME NInv, [Next]_vars PROVE Flushed'
  OBVIOUS
<1>0. Flushed /\ LinksSound /\ RoutesSound
  BY DEF NInv, LinksSound, RoutesSound, ToldUnlessChanged, TypeOK
<1>1. ASSUME UNCHANGED <<linksVars, routesVars>>, pc' # "read" => pc # "read" PROVE Flushed'
  BY <1>0, <1>1 DEF Flushed, linksVars, routesVars
<1>2. CASE Kernel \/ Dump
  BY <1>1, <1>2
  DEF Kernel, KernelAddsLink, KernelSetsLink, KernelRemovesLink, KernelAddsAddr, KernelDelsAddr,
      KernelAddsRoute, KernelDelsRoute, WirelessEvent, Changing, Dump, DumpReports, DumpEnds,
      DumpRejected, Enqueue, ownVars
<1>3. CASE OpenSock \/ FirstRequest \/ SockError \/ SockReady \/ UNCHANGED vars
  BY <1>1, <1>3 DEF OpenSock, FirstRequest, SockError, SockReady, vars, ownVars
<1>4. CASE \/ RecvDone \/ RecvError \/ RecvNewLink \/ RecvDelLink \/ RecvAddr
           \/ RecvNewRoute \/ RecvDelRoute
  <2>1. pc' = "read"
    BY <1>4
    DEF RecvDone, RecvError, RecvNewLink, RecvDelLink, RecvAddr, RecvNewRoute, RecvDelRoute,
        ReceivesReport, Receives
  <2>2. QED BY <2>1 DEF Flushed
<1>5. CASE RecvEnds
  <2>1. FlushLinks /\ FlushRoutes /\ UNCHANGED <<mixed, known, clash>>
    BY <1>5 DEF RecvEnds, histVars
  <2>2. QED BY <1>0, <2>1, FlushLinksSound, FlushRoutesSound DEF Flushed
<1>6. QED BY <1>2, <1>3, <1>4, <1>5 DEF Next, OnSock

-----------------------------------------------------------------------------
(* Theorems.                                                               *)

LEMMA NInvInit == Init => NInv
<1> SUFFICES ASSUME Init PROVE NInv
  OBVIOUS
<1>0. <<>> \in Seq(Messages) /\ Silent(<<>>, Dones) /\ Once(<<>>, Dones) /\ 0 \in 0 .. MaxEvents
  BY RtnetlinkAssumption, SMT DEF Silent, Once
<1>1. LinksTypeOK /\ RoutesTypeOK
  BY SMT DEF Init, LinksInit, LinksTypeOK, RoutesInit, RoutesTypeOK, None
<1>2. TypeOK
  BY <1>0, <1>1, Zenon DEF Init, TypeOK, Universe, Listening
<1>3. \A id \in Ids : implementations[id] = Absent /\ added[id] = Absent /\ told[id] = Absent
  BY DEF Init, LinksInit
<1>4. \A id \in Ids : ~Known(id)
  BY <1>3 DEF Known, View, GetLink
<1>5. AllocatedOnce /\ LinksTold /\ EntersOrLeaves
  BY <1>3 DEF AllocatedOnce, LinksTold, EntersOrLeaves, Init, LinksInit
<1>6. toldRoutes = table /\ addedRoutes = None /\ deletedRoutes = None
  BY DEF Init, RoutesInit
<1>7. RoutesCounted
  BY SMT DEF RoutesCounted, Left, Init, RoutesInit, None
<1>8. StartsEmpty /\ OneDump /\ Follows
  BY <1>0, <1>4, FollowsFromNothing DEF StartsEmpty, OneDump, Init
<1>9. Flushed
  BY <1>3, <1>6 DEF Flushed, Init, LinksInit
<1>10. QED BY <1>2, <1>5, <1>6, <1>7, <1>8, <1>9 DEF NInv, ToldUnlessChanged

LEMMA NInvKept == NInv /\ [Next]_vars => NInv'
<1> SUFFICES ASSUME NInv, [Next]_vars PROVE NInv'
  OBVIOUS
<1>1. TypeOK'
  <2>1. CASE UNCHANGED vars
    <3>1. TypeOK
      BY DEF NInv
    <3>2. QED BY <2>1, <3>1
          DEF TypeOK, LinksTypeOK, RoutesTypeOK, vars, linksVars, routesVars, ownVars, kernelVars,
              sockVars, histVars
  <2>2. QED BY <2>1, KernelTypes, DumpTypes, EnumeratorTypes DEF NInv, Next
<1>2. LinksSound' /\ RoutesSound' /\ Follows'
  <2>1. CASE UNCHANGED vars
    <3>0. LinksSound /\ RoutesSound /\ Follows
      BY DEF NInv, LinksSound, RoutesSound, ToldUnlessChanged, TypeOK
    <3>1. /\ UNCHANGED <<linksVars, routesVars, mixed, known, clash>>
          /\ UNCHANGED <<queue, kLinks, kRoutes, lost, requested, dump, todo>>
      BY <2>1 DEF vars, ownVars, kernelVars, sockVars, histVars
    <3>2. LinksSound' /\ RoutesSound'
      BY <3>0, <3>1 DEF LinksSound, LinksTypeOK, AllocatedOnce, LinksTold, EntersOrLeaves,
         linksVars, RoutesSound, RoutesTypeOK, RoutesCounted, Left, routesVars
    <3>3. QED BY <3>0, <3>1, <3>2, FollowsStill, DueUntouched, ViewsUntouched
  <2>2. QED BY <2>1, EnumeratorFollows, KernelFollows DEF Next
<1>3. StartsEmpty' /\ OneDump' /\ Flushed'
  BY StartsEmptyKept, OneDumpKept, FlushedKept
<1>4. QED BY <1>1, <1>2, <1>3 DEF NInv, LinksSound, RoutesSound, ToldUnlessChanged

\* The invariant holds, for any constants.
THEOREM NetlinkInvariant == Spec => []NInv
BY NInvInit, NInvKept, PTL DEF Spec

\* The assertions of allocatedLinkInitialized hold: a link that is reported by
\* the dump and by notifications of one batch enters once.
THEOREM LinkEntersOnce == Spec => []AllocatedOnce
<1>1. NInv => AllocatedOnce
  BY DEF NInv
<1>2. QED BY <1>1, NetlinkInvariant, PTL

\* Outside a batch a user who asks again at every signal knows what the host
\* knows: neither Link's setters nor the two flushChanges leave a change untold.
THEOREM NothingUntold == Spec => []SignalsSuffice
<1>1. NInv => SignalsSuffice
  BY DEF NInv, SignalsSuffice, Flushed, ToldUnlessChanged, LinksTold
<1>2. QED BY <1>1, NetlinkInvariant, PTL

\* What is pending once nothing is under way.
LEMMA QuietParts ==
    ASSUME NInv, Quiet
    PROVE  /\ \A about : Silent(queue, about)
           /\ \A kind \in Dumps : \A x : ~Unreported(kind, x)
           /\ \A now, id, a : ~Brings(queue, now, id, a)
           /\ \A id \in Ids : View(id) = IF implementations[id] = Absent THEN Absent
                                         ELSE FactsOf(implementations[id])
           /\ \A r \in Routes : Left(r) + addedRoutes[r] = table[r] /\ table[r] \in Nat
           /\ \A r \in Routes : RouteFollows(r)
           /\ \A id \in Ids \ mixed :
                 /\ LinkFollows(id) /\ AttrFollows(id)
                 /\ \A a \in Addrs : AddrLeaves(id, a) /\ AddrArrives(id, a)
<1>1. /\ \A about : Silent(queue, about)
      /\ \A now, id, a : ~Brings(queue, now, id, a)
  BY SMT DEF Quiet, Silent, Brings
<1>2. \A kind \in Dumps : \A x : ~Unreported(kind, x)
  BY DEF Quiet, Unreported, Dumps
<1>3. /\ deleted = {} /\ addedRoutes = None /\ deletedRoutes = None
      /\ \A id \in Ids : added[id] = Absent
  BY DEF Quiet, NInv, Flushed
<1>4. \A id \in Ids : View(id) = IF implementations[id] = Absent THEN Absent
                                 ELSE FactsOf(implementations[id])
  BY <1>3 DEF View, GetLink
<1>5. \A r \in Routes : Left(r) + addedRoutes[r] = table[r] /\ table[r] \in Nat
  BY <1>3, SMT DEF Left, None, NInv, TypeOK, RoutesTypeOK
<1>6. Follows /\ ~lost
  BY DEF NInv, Quiet
<1>7. QED BY <1>1, <1>2, <1>4, <1>5, <1>6 DEF Follows

\* In the end no route of the kernel is missing, and the table is the kernel's
\* but for the routes reported ambiguously.
THEOREM RoutesAgree == Spec => []RoutesConverge
<1>1. ASSUME NInv PROVE RoutesConverge
  <2> SUFFICES ASSUME Quiet PROVE /\ \A r \in kRoutes : table[r] > 0
                                  /\ \A r \in Routes \ clash :
                                        table[r] = IF r \in kRoutes THEN 1 ELSE 0
    BY DEF RoutesConverge
  <2>1. \A r \in Routes : r \in known <=> r \in kRoutes
    BY <1>1, QuietParts DEF RouteFollows, Dumps
  <2>2. \A r \in Routes : /\ r \in known => table[r] > 0
                          /\ r \notin clash => table[r] = IF r \in known THEN 1 ELSE 0
    BY <1>1, QuietParts DEF NInv, RoutesCounted
  <2>3. kRoutes \subseteq Routes
    BY <1>1 DEF NInv, TypeOK
  <2>4. QED BY <2>1, <2>2, <2>3
<1>2. QED BY <1>1, NetlinkInvariant, PTL

\* In the end the links are the kernel's, attributes and addresses included,
\* but for those that came and went within one batch.
THEOREM LinksAgree == Spec => []LinksConverge
<1>1. ASSUME NInv PROVE LinksConverge
  <2> SUFFICES ASSUME Quiet, NEW id \in Ids \ mixed
               PROVE  IF implementations[id] = Absent THEN kLinks[id] = Absent
                      ELSE kLinks[id] = FactsOf(implementations[id])
    BY DEF LinksConverge
  <2>1. View(id) = IF implementations[id] = Absent THEN Absent ELSE FactsOf(implementations[id])
    BY <1>1, QuietParts
  <2>2. View(id) = kLinks[id]
    <3>1. Known(id) <=> kLinks[id] # Absent
      BY <1>1, QuietParts DEF LinkFollows, Dumps
    <3>2. CASE ~Known(id)
      BY <3>1, <3>2 DEF Known
    <3>3. CASE Known(id)
      <4>0. /\ kLinks[id] \in Facts /\ View(id) \in Facts
        BY <1>1, <3>1, <3>3, Views DEF NInv, TypeOK
      <4>1. View(id).attr = kLinks[id].attr
        BY <1>1, <3>1, <3>3, QuietParts DEF AttrFollows
      <4>2. \A a \in Addrs : a \in View(id).addrs <=> a \in kLinks[id].addrs
        <5>1. \A a \in Addrs : AddrLeaves(id, a) /\ AddrArrives(id, a)
          BY <1>1, QuietParts
        <5>2. \A a \in Addrs : HasAddr(id, a) <=> a \in kLinks[id].addrs
          BY <3>1, <3>3 DEF HasAddr
        <5>3. QED BY <1>1, <3>3, <5>1, <5>2, QuietParts DEF AddrLeaves, AddrArrives, Dumps
      <4>3. View(id).addrs = kLinks[id].addrs
        BY <4>0, <4>2 DEF Facts
      <4>4. QED BY <4>0, <4>1, <4>3 DEF Facts
    <3>4. QED BY <3>2, <3>3
  <2>3. QED BY <2>1, <2>2, ObjectsPresent
<1>2. QED BY <1>1, NetlinkInvariant, PTL
=============================================================================
