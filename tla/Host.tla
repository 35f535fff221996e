--------------------------------- MODULE Host ---------------------------------
(***************************************************************************)
(* Host: the lives of the servers, clients and channels it makes.          *)
(*                                                                         *)
(* Every object is on a register of the host from its constructor to its   *)
(* destructor.  It is deleted by its own slots, when the last reference to *)
(* it goes or its connect fails, or by ~Host, which Entry deletes whatever *)
(* references there are.  A reference is held by the user or caught in a   *)
(* subscriber of a signal, of the same object too, and the subscribers go  *)
(* when the object does: destructors start destructors.  A channel that is *)
(* destroyed while it connects breaks its promise, and whoever waits for   *)
(* it runs inside the destructor.                                          *)
(*                                                                         *)
(* Of the library of interfaces, which is not part of this repository, the *)
(* model takes: involvedChanged(false) is emitted when the last reference  *)
(* goes, to the slots there are then; the subscribers of an object are     *)
(* dropped one by one at the end of its destructor; the continuations of a *)
(* future run at once.  It is assumed that an object's last reference does *)
(* not go within a callback that the object itself has called.             *)
(***************************************************************************)
EXTENDS Integers, Sequences, FiniteSets

CONSTANTS Servers, Clients, Channels, Datagrams,
          MaxCaught     \* bound on the references caught in subscribers

ASSUME HostAssumption ==
    /\ MaxCaught \in Nat
    /\ Servers \cap Clients = {} /\ Servers \cap Channels = {}
    /\ Servers \cap Datagrams = {} /\ Clients \cap Channels = {}
    /\ Clients \cap Datagrams = {} /\ Channels \cap Datagrams = {}

Objs == Servers \cup Clients \cup Channels \cup Datagrams

\* The loops of ~Host, in their order, each with the register it empties.
Stages == <<Servers, Clients, Channels, Datagrams>>

VARIABLES
    life,       \* of each object: "none", "alive", "ending", "telling", "clearing", "dead"
    tracked,    \* objects on the registers
    slotted,    \* objects whose own slots are in place
    held,       \* objects the user has a reference to
    caught,     \* <<o, p>>: a subscriber of a signal of o has a reference to p
    dialing,    \* channels with a connect promise to be resolved
    deleted,    \* deletions of each object, 2 standing for more
    running,    \* objects whose destructors run, innermost first
    stage       \* 0: the host lives; 1 .. 4: loops of ~Host; 5: it is gone

vars == <<life, tracked, slotted, held, caught, dialing, deleted, running, stage>>

Lives == {"none", "alive", "ending", "telling", "clearing", "dead"}

TypeOK ==
    /\ life \in [Objs -> Lives]
    /\ tracked \subseteq Objs /\ slotted \subseteq Objs /\ held \subseteq Objs
    /\ caught \subseteq Objs \X Objs
    /\ dialing \subseteq Channels
    /\ deleted \in [Objs -> 0..2]
    /\ running \in Seq(Objs)
    /\ stage \in 0..5

Init ==
    /\ life = [o \in Objs |-> "none"]
    /\ tracked = {} /\ slotted = {} /\ held = {} /\ caught = {} /\ dialing = {}
    /\ deleted = [o \in Objs |-> 0]
    /\ running = <<>>
    /\ stage = 0

-----------------------------------------------------------------------------
(* The beginning and the end of an object.                                 *)

\* The constructor tracks the object, and its maker subscribes it.
Begins(o) ==
    /\ life[o] = "none"
    /\ life' = [life EXCEPT ![o] = "alive"]
    /\ tracked' = tracked \cup {o} /\ slotted' = slotted \cup {o}
    /\ UNCHANGED <<deleted, running, stage>>

Counted(o) == [deleted EXCEPT ![o] = IF @ = 0 THEN 1 ELSE 2]

\* Faulty variant of Deletes: the destructor does not flush.
DeletesUnflushed(o) ==
    /\ life' = [life EXCEPT ![o] = "ending"]
    /\ deleted' = Counted(o)
    /\ tracked' = tracked \ {o}
    /\ running' = <<o>> \o running
    /\ UNCHANGED <<slotted, stage>>

\* Faulty variant of Deletes: the destructor does not untrack.
DeletesTracked(o) ==
    /\ life' = [life EXCEPT ![o] = "ending"]
    /\ deleted' = Counted(o)
    /\ slotted' = slotted \ {o}
    /\ running' = <<o>> \o running
    /\ UNCHANGED <<tracked, stage>>

\* delete o, to the end of the destructor's body: flush, close, untrack.
Deletes(o) ==
    /\ life' = [life EXCEPT ![o] = "ending"]
    /\ deleted' = Counted(o)
    /\ slotted' = slotted \ {o} /\ tracked' = tracked \ {o}
    /\ running' = <<o>> \o running
    /\ UNCHANGED stage

KeepsAll == UNCHANGED <<life, tracked, slotted, deleted, running, stage>>

\* References are held' and caught' from here on: if p has lost its last one it
\* is told so, and deletes itself if its slot is still in place.
Referenced(p, hold, catch) == p \in hold \/ \E o \in Objs : <<o, p>> \in catch

\* Faulty variant of Released: nobody listens to involvedChanged.
ReleasedSilently(p, hold, catch) ==
    /\ held' = hold /\ caught' = catch
    /\ KeepsAll

Released(p, hold, catch) ==
    /\ held' = hold /\ caught' = catch
    /\ IF p \in slotted /\ ~Referenced(p, hold, catch) THEN Deletes(p) ELSE KeepsAll

-----------------------------------------------------------------------------
(* The user, outside or in the continuation of a broken promise.           *)

Telling == running # <<>> /\ life[Head(running)] = "telling"
MayCall == (running = <<>> /\ stage \in {0, 5}) \/ Telling

\* Methods of the host, which answer until ~Host flushes them.
Make(o) ==
    /\ MayCall /\ stage = 0 /\ o \in Servers \cup Clients \cup Datagrams
    /\ Begins(o)
    /\ held' = held \cup {o}
    /\ UNCHANGED <<caught, dialing>>

\* Client::connect: the channel has no references before the connection is made,
\* and is deleted at once, unseen by anybody, if that fails at once.
Connect(client, ch) ==
    /\ MayCall /\ client \in slotted /\ Referenced(client, held, caught)
    /\ \/ Begins(ch) /\ dialing' = dialing \cup {ch} /\ UNCHANGED held
       \/ Begins(ch) /\ held' = held \cup {ch} /\ UNCHANGED dialing
       \/ life[ch] = "none" /\ Deletes(ch) /\ UNCHANGED <<held, dialing>>
    /\ UNCHANGED caught

\* The holder of the future cancels it, and the continuation deletes the channel.
Cancel(ch) ==
    /\ MayCall /\ ch \in dialing /\ ch \in slotted
    /\ dialing' = dialing \ {ch}
    /\ Deletes(ch)
    /\ UNCHANGED <<held, caught>>

Drop(p) ==
    /\ MayCall /\ p \in held
    /\ Released(p, held \ {p}, caught)
    /\ UNCHANGED dialing

\* A subscriber that uses p is added to a signal of o, or taken off it.
Subscribe(o, p) ==
    /\ MayCall /\ Cardinality(caught) < MaxCaught
    /\ {o, p} \subseteq held /\ life[o] = "alive"
    /\ caught' = caught \cup {<<o, p>>}
    /\ KeepsAll /\ UNCHANGED <<held, dialing>>

Unsubscribe(o, p) ==
    /\ MayCall /\ <<o, p>> \in caught /\ life[o] = "alive"
    /\ Released(p, held, caught \ {<<o, p>>})
    /\ UNCHANGED dialing

User ==
    \/ \E o \in Objs : Make(o) \/ Drop(o) \/ Cancel(o)
    \/ \E c \in Clients, ch \in Channels : Connect(c, ch)
    \/ \E o, p \in Objs : Subscribe(o, p) \/ Unsubscribe(o, p)

-----------------------------------------------------------------------------
(* The event loop.                                                         *)

AtRest == running = <<>> /\ stage = 0

\* The accept loop makes a channel and gives it to the accepted signal.
Accept(server, ch) ==
    /\ AtRest /\ server \in slotted
    /\ Begins(ch)
    /\ held' = held \cup {ch}
    /\ UNCHANGED <<caught, dialing>>

\* The promise is resolved with a reference, or with an error, and then the
\* continuation of Client::connect deletes the channel.
Dialed(ch) ==
    /\ AtRest /\ ch \in dialing /\ ch \in slotted
    /\ dialing' = dialing \ {ch}
    /\ \/ held' = held \cup {ch} /\ KeepsAll
       \/ Deletes(ch) /\ UNCHANGED held
    /\ UNCHANGED caught

Loop == \/ \E s \in Servers, ch \in Channels : Accept(s, ch)
        \/ \E ch \in Channels : Dialed(ch)

-----------------------------------------------------------------------------
(* The rest of a destructor, of the innermost object.                      *)

Becomes(now) ==
    /\ life' = [life EXCEPT ![Head(running)] = now]
    /\ UNCHANGED <<tracked, slotted, deleted, stage>>

\* The members: a promise is broken.
MembersGo ==
    /\ running # <<>> /\ life[Head(running)] = "ending"
    /\ dialing' = dialing \ {Head(running)}
    /\ Becomes(IF Head(running) \in dialing THEN "telling" ELSE "clearing")
    /\ UNCHANGED <<held, caught, running>>

TellingReturns ==
    /\ Telling
    /\ Becomes("clearing")
    /\ UNCHANGED <<held, caught, dialing, running>>

\* The base: the subscribers go, with what they caught.
SubscriberGoes ==
    /\ running # <<>> /\ life[Head(running)] = "clearing"
    /\ \E p \in Objs :
        /\ <<Head(running), p>> \in caught
        /\ Released(p, held, caught \ {<<Head(running), p>>})
    /\ UNCHANGED dialing

ObjectGone ==
    /\ running # <<>> /\ life[Head(running)] = "clearing"
    /\ \A p \in Objs : <<Head(running), p>> \notin caught
    /\ Becomes("dead")
    /\ running' = Tail(running)
    /\ UNCHANGED <<held, caught, dialing>>

Destructor == MembersGo \/ TellingReturns \/ SubscriberGoes \/ ObjectGone

-----------------------------------------------------------------------------
(* ~Host.                                                                  *)

InLoop == running = <<>> /\ stage \in 1..4

\* Entry::stop or Entry::unload.
HostBegins ==
    /\ AtRest
    /\ stage' = 1
    /\ UNCHANGED <<life, tracked, slotted, held, caught, dialing, deleted, running>>

HostDeletes ==
    /\ InLoop
    /\ \E o \in tracked \cap Stages[stage] : Deletes(o)
    /\ UNCHANGED <<held, caught, dialing>>

\* Faulty variant of StageEnds: one object is deleted, as if the loops were tests.
StageEndsEarly ==
    /\ InLoop
    /\ \A o \in Stages[stage] : life[o] # "alive" \/ \E p \in Stages[stage] : life[p] = "dead"
    /\ stage' = stage + 1
    /\ UNCHANGED <<life, tracked, slotted, held, caught, dialing, deleted, running>>

StageEnds ==
    /\ InLoop /\ tracked \cap Stages[stage] = {}
    /\ stage' = stage + 1
    /\ UNCHANGED <<life, tracked, slotted, held, caught, dialing, deleted, running>>

Ending == Destructor \/ HostDeletes \/ StageEnds

Next == User \/ Loop \/ HostBegins \/ Ending

Spec == Init /\ [][Next]_vars

\* What has begun to end goes on.
FairSpec == Spec /\ WF_vars(Ending)

-----------------------------------------------------------------------------
(* Properties.                                                             *)

\* No object is deleted twice, whichever of its slots, ~Host and the destructors
\* of others come to it, and in whatever order.
DeletedOnce == \A o \in Objs : deleted[o] <= 1

\* An object that lives is referenced or connecting: none is forgotten.
NoOrphan == \A o \in Objs : life[o] = "alive" => Referenced(o, held, caught) \/ o \in dialing

\* ~Host comes to its end, and then nothing it made is left.
DestructionEnds == stage = 1 ~> stage = 5 /\ \A o \in Objs : life[o] \in {"none", "dead"}

\* The registers hold what lives, with its slots.
Registered ==
    /\ \A o \in Objs : life[o] = "alive" <=> o \in tracked
    /\ slotted = tracked
    /\ \A o \in Objs : deleted[o] = (IF life[o] \in {"none", "alive"} THEN 0 ELSE 1)

\* The destructors that run are those of the dying, and nobody has a reference
\* to a channel that connects.
Nested ==
    /\ \A o \in Objs : life[o] \in {"ending", "telling", "clearing"} <=>
            \E i \in 1 .. Len(running) : running[i] = o
    /\ \A o \in dialing : life[o] \in {"alive", "ending"} /\ ~Referenced(o, held, caught)

\* A loop of ~Host leaves nothing, and nothing comes on its register again.
Emptied == \A i \in 1 .. 4 : i < stage => tracked \cap Stages[i] = {}

HInv == TypeOK /\ Registered /\ Nested /\ Emptied /\ NoOrphan
=============================================================================
