------------------------------ MODULE HostProofs ------------------------------
(***************************************************************************)
(* Proofs about Host, for any sets of objects.                             *)
(*                                                                         *)
(* The argument is the first line of every destructor: flush takes the     *)
(* slots away that would delete the object again, and untrack the entry    *)
(* that ~Host would delete it by, so slots, registers and life agree and   *)
(* whoever deletes an object finds one that lives: KInv.  On it rests that *)
(* destructors nest, and that a channel which connects and an object not   *)
(* yet made are not referenced: Stack and Apart, DInv with them.           *)
(***************************************************************************)
EXTENDS Host, TLAPS

KInv == TypeOK /\ Registered /\ NoOrphan /\ Emptied

\* The initial state satisfies KInv.
LEMMA InitKInv == Init => KInv
<1> SUFFICES ASSUME Init PROVE KInv
  OBVIOUS
<1>1. TypeOK BY SMT DEF Init, TypeOK, Lives
<1>2. Registered BY SMT DEF Init, Registered
<1>3. NoOrphan BY SMT DEF Init, NoOrphan
<1>4. Emptied BY SMT DEF Init, Emptied
<1>5. QED BY <1>1, <1>2, <1>3, <1>4 DEF KInv

-----------------------------------------------------------------------------
(* What the operators do, wherever they are used.                          *)

\* An object begins on its register, with its slots.
LEMMA BeginsKeeps ==
    ASSUME TypeOK, Registered, NEW o \in Objs, Begins(o)
    PROVE  /\ Registered'
           /\ life' \in [Objs -> Lives] /\ tracked' \subseteq Objs /\ slotted' \subseteq Objs
           /\ \A q \in Objs : life'[q] = "alive" <=> life[q] = "alive" \/ q = o
BY SMT DEF TypeOK, Registered, Begins, Lives

\* An object whose slots are in place lives, and is deleted for the first time; so
\* is a channel within the call that made it.
LEMMA DeletesKeeps ==
    ASSUME TypeOK, Registered, NEW o \in Objs, o \in slotted \/ life[o] = "none", Deletes(o)
    PROVE  /\ Registered'
           /\ life' \in [Objs -> Lives]
           /\ tracked' \subseteq tracked /\ slotted' \subseteq Objs
           /\ deleted' \in [Objs -> 0..2]
           /\ running' \in Seq(Objs)
           /\ \A q \in Objs : life'[q] = "alive" <=> life[q] = "alive" /\ q # o
<1> USE DEF TypeOK, Registered, Deletes, Counted, Lives
<1>1. running' \in Seq(Objs)
  BY SMT
<1>2. deleted' \in [Objs -> 0..2] /\ deleted'[o] = 1
  BY SMT
<1>3. Registered'
  BY <1>2, SMT
<1>4. QED BY <1>1, <1>2, <1>3, SMT

\* A release deletes nothing but the object that lost its last reference.
LEMMA ReleasedKeeps ==
    ASSUME TypeOK, Registered, NEW p \in Objs, NEW hold \in SUBSET Objs,
           NEW catch \in SUBSET (Objs \X Objs), Released(p, hold, catch)
    PROVE  /\ Registered'
           /\ life' \in [Objs -> Lives]
           /\ tracked' \subseteq tracked /\ slotted' \subseteq Objs
           /\ deleted' \in [Objs -> 0..2]
           /\ running' \in Seq(Objs)
           /\ stage' = stage /\ held' = hold /\ caught' = catch
           /\ \A q \in Objs : life'[q] = "alive" => life[q] = "alive"
           /\ life'[p] = "alive" => Referenced(p, hold, catch)
<1>1. held' = hold /\ caught' = catch
  BY DEF Released
<1>2. CASE p \in slotted /\ ~Referenced(p, hold, catch)
  <2>1. Deletes(p) /\ stage' = stage
    BY <1>2 DEF Released, Deletes
  <2>2. QED BY <1>1, <1>2, <2>1, DeletesKeeps
<1>3. CASE ~(p \in slotted /\ ~Referenced(p, hold, catch))
  <2>1. KeepsAll
    BY <1>3 DEF Released
  <2>2. Registered'
    BY <2>1 DEF KeepsAll, Registered
  <2>3. life[p] = "alive" => p \in slotted
    BY DEF Registered
  <2>4. QED BY <1>1, <1>3, <2>1, <2>2, <2>3 DEF KeepsAll, TypeOK
<1>4. QED BY <1>2, <1>3

\* References are lost only where they are taken away.
LEMMA StillReferenced ==
    ASSUME NEW hold, NEW catch, NEW hold2, NEW catch2, NEW p, NEW q \in Objs, q # p,
           \A r \in Objs \ {p} : r \in hold => r \in hold2,
           \A o \in Objs, r \in Objs \ {p} : <<o, r>> \in catch => <<o, r>> \in catch2,
           Referenced(q, hold, catch)
    PROVE  Referenced(q, hold2, catch2)
BY DEF Referenced

-----------------------------------------------------------------------------
(* Every step keeps KInv.                                                  *)

\* A register that loses objects leaves empty what was.
LEMMA FewerTracked ==
    ASSUME Emptied, TypeOK, tracked' \subseteq tracked, stage' = stage PROVE Emptied'
BY DEF Emptied, Stages

\* Releases, by the user and by destructors.
LEMMA ReleaseKInv ==
    ASSUME KInv, NEW p \in Objs, NEW hold \in SUBSET held,
           NEW catch \in SUBSET caught, held \ hold \subseteq {p},
           \A o \in Objs, r \in Objs \ {p} : <<o, r>> \in caught => <<o, r>> \in catch,
           Released(p, hold, catch), UNCHANGED dialing
    PROVE  KInv'
<1> USE DEF KInv
<1>1. hold \in SUBSET Objs /\ catch \in SUBSET (Objs \X Objs)
  BY DEF TypeOK
<1>2. TypeOK'
  BY <1>1, ReleasedKeeps DEF TypeOK
<1>3. Registered'
  BY <1>1, ReleasedKeeps
<1>4. Emptied'
  BY <1>1, ReleasedKeeps, FewerTracked
<1>5. NoOrphan'
  <2> SUFFICES ASSUME NEW q \in Objs, life'[q] = "alive"
               PROVE  Referenced(q, held', caught') \/ q \in dialing'
    BY DEF NoOrphan
  <2>1. CASE q = p
    BY <1>1, <2>1, ReleasedKeeps
  <2>2. CASE q # p
    <3>1. life[q] = "alive" /\ held' = hold /\ caught' = catch
      BY <1>1, ReleasedKeeps
    <3>2. Referenced(q, held, caught) \/ q \in dialing
      BY <3>1 DEF NoOrphan
    <3>3. CASE q \in dialing
      BY <3>3
    <3>4. CASE Referenced(q, held, caught)
      BY <2>2, <3>1, <3>4, StillReferenced
    <3>5. QED BY <3>2, <3>3, <3>4
  <2>3. QED BY <2>1, <2>2
<1>6. QED BY <1>2, <1>3, <1>4, <1>5

\* Objects that begin with a reference or a promise.
LEMMA BeginKInv ==
    ASSUME KInv, NEW o \in Objs, Begins(o), UNCHANGED caught,
           held' \in {held, held \cup {o}}, dialing' \in {dialing, dialing \cup {o}},
           dialing' \subseteq Channels, o \in held' \/ o \in dialing',
           \A i \in 1 .. 4 : i < stage => o \notin Stages[i]
    PROVE  KInv'
<1> USE DEF KInv
<1>1. UNCHANGED <<deleted, running, stage>> /\ tracked' = tracked \cup {o}
  BY DEF Begins
<1>2. TypeOK'
  BY <1>1, BeginsKeeps DEF TypeOK
<1>3. Emptied'
  BY <1>1 DEF Emptied
<1>4. NoOrphan'
  BY BeginsKeeps DEF NoOrphan, Referenced
<1>5. QED BY <1>2, <1>3, <1>4, BeginsKeeps

\* Objects deleted by a failed or cancelled connect, or by ~Host.
LEMMA DeleteKInv ==
    ASSUME KInv, NEW o \in Objs, o \in slotted \/ life[o] = "none", Deletes(o),
           UNCHANGED <<held, caught>>, dialing' \in {dialing, dialing \ {o}}
    PROVE  KInv'
<1> USE DEF KInv
<1>1. stage' = stage
  BY DEF Deletes
<1>2. TypeOK'
  BY <1>1, DeletesKeeps DEF TypeOK
<1>3. Emptied'
  BY <1>1, DeletesKeeps, FewerTracked
<1>4. NoOrphan'
  BY <1>1, DeletesKeeps DEF NoOrphan
<1>5. QED BY <1>1, <1>2, <1>3, <1>4, DeletesKeeps

LEMMA UserKInv == ASSUME KInv, User PROVE KInv'
<1>1. CASE \E o \in Objs : Make(o)
  <2> PICK o \in Objs : Make(o)
    BY <1>1
  <2>1. stage = 0 /\ Begins(o) /\ UNCHANGED <<caught, dialing>> /\ held' = held \cup {o}
    BY DEF Make
  <2>2. QED BY <2>1, BeginKInv, SMT DEF KInv, TypeOK
<1>2. CASE \E o \in Objs : Drop(o)
  <2> PICK p \in Objs : Drop(p)
    BY <1>2
  <2>1. Released(p, held \ {p}, caught) /\ UNCHANGED dialing
    BY DEF Drop
  <2>2. QED BY <2>1, ReleaseKInv
<1>3. CASE \E o \in Objs : Cancel(o)
  BY <1>3, DeleteKInv DEF Cancel
<1>4. CASE \E c \in Clients, ch \in Channels : Connect(c, ch)
  <2> PICK c \in Clients, ch \in Channels : Connect(c, ch)
    BY <1>4
  <2>1. c \in tracked /\ ch \in Objs
    BY DEF Connect, KInv, Registered, Objs
  <2>2. \A i \in 1 .. 4 : i < stage => ch \notin Stages[i]
    <3>1. ~(2 < stage)
      BY <2>1, SMT DEF KInv, Emptied, Stages
    <3>2. ch \notin Servers
      BY HostAssumption DEF HostAssumption
    <3>3. QED BY <3>1, <3>2, SMT DEF Stages, KInv, TypeOK
  <2>3. CASE Begins(ch)
    BY <2>1, <2>2, <2>3, BeginKInv DEF Connect, KInv, TypeOK, Begins, Deletes
  <2>4. CASE life[ch] = "none" /\ Deletes(ch) /\ UNCHANGED <<held, dialing>>
    BY <2>1, <2>4, DeleteKInv DEF Connect
  <2>5. QED BY <2>3, <2>4 DEF Connect
<1>5. CASE \E o, p \in Objs : Subscribe(o, p)
  <2> PICK o \in Objs, p \in Objs : Subscribe(o, p)
    BY <1>5
  <2>1. UNCHANGED <<life, tracked, slotted, deleted, running, stage, held, dialing>>
        /\ caught' = caught \cup {<<o, p>>}
    BY DEF Subscribe, KeepsAll
  <2>2. TypeOK' /\ Registered' /\ Emptied'
    BY <2>1 DEF KInv, TypeOK, Registered, Emptied
  <2>3. NoOrphan'
    BY <2>1 DEF KInv, NoOrphan, Referenced
  <2>4. QED BY <2>2, <2>3 DEF KInv
<1>6. CASE \E o, p \in Objs : Unsubscribe(o, p)
  <2> PICK o \in Objs, p \in Objs : Unsubscribe(o, p)
    BY <1>6
  <2>1. Released(p, held, caught \ {<<o, p>>}) /\ UNCHANGED dialing
    BY DEF Unsubscribe
  <2>2. \A x \in Objs, r \in Objs \ {p} :
            <<x, r>> \in caught => <<x, r>> \in caught \ {<<o, p>>}
    OBVIOUS
  <2>3. QED BY <2>1, <2>2, ReleaseKInv
<1>7. QED BY <1>1, <1>2, <1>3, <1>4, <1>5, <1>6 DEF User

LEMMA LoopKInv == ASSUME KInv, Loop PROVE KInv'
<1>1. CASE \E s \in Servers, ch \in Channels : Accept(s, ch)
  <2> PICK s \in Servers, ch \in Channels : Accept(s, ch)
    BY <1>1
  <2>1. stage = 0 /\ Begins(ch) /\ UNCHANGED <<caught, dialing>> /\ held' = held \cup {ch}
    BY DEF Accept, AtRest
  <2>2. ch \in Objs
    BY DEF Objs
  <2>3. QED BY <2>1, <2>2, BeginKInv, SMT DEF KInv, TypeOK
<1>2. CASE \E ch \in Channels : Dialed(ch)
  <2> PICK ch \in Channels : Dialed(ch)
    BY <1>2
  <2>1. dialing' = dialing \ {ch} /\ UNCHANGED caught /\ ch \in slotted /\ ch \in Objs
    BY DEF Dialed, Objs
  <2>2. CASE Deletes(ch) /\ UNCHANGED held
    BY <2>1, <2>2, DeleteKInv
  <2>3. CASE held' = held \cup {ch} /\ KeepsAll
    <3>1. TypeOK' /\ Registered' /\ Emptied'
      BY <2>1, <2>3 DEF KInv, TypeOK, Registered, Emptied, KeepsAll
    <3>2. NoOrphan'
      BY <2>1, <2>3 DEF KInv, NoOrphan, Referenced, KeepsAll
    <3>3. QED BY <3>1, <3>2 DEF KInv
  <2>4. QED BY <2>2, <2>3 DEF Dialed
<1>3. QED BY <1>1, <1>2 DEF Loop

\* A destructor goes on: nothing else begins or ends.
LEMMA DestructorKInv == ASSUME KInv, Destructor PROVE KInv'
<1> USE DEF KInv
<1> DEFINE o == Head(running)
<1>1. running # <<>> => o \in Objs
  BY SMT DEF TypeOK
<1>2. ASSUME running # <<>>, life[o] \in {"ending", "telling", "clearing"},
             NEW now \in {"telling", "clearing", "dead"}, Becomes(now),
             running' \in Seq(Objs), UNCHANGED <<held, caught>>,
             dialing' \in {dialing, dialing \ {o}}
      PROVE  KInv'
  <2>1. /\ life' = [life EXCEPT ![o] = now]
        /\ UNCHANGED <<tracked, slotted, deleted, stage>>
    BY <1>2 DEF Becomes
  <2>2. \A q \in Objs : life'[q] = "alive" <=> life[q] = "alive"
    BY <1>1, <1>2, <2>1 DEF TypeOK
  <2>3. TypeOK'
    BY <1>1, <1>2, <2>1 DEF TypeOK, Lives
  <2>4. Registered'
    BY <1>1, <1>2, <2>1, <2>2 DEF TypeOK, Registered
  <2>5. NoOrphan'
    <3> SUFFICES ASSUME NEW q \in Objs, life'[q] = "alive"
                 PROVE  Referenced(q, held', caught') \/ q \in dialing'
      BY DEF NoOrphan
    <3>1. life[q] = "alive" /\ q # o
      BY <1>2, <2>2
    <3>2. QED BY <1>2, <3>1 DEF NoOrphan, Referenced
  <2>6. Emptied'
    BY <2>1, FewerTracked
  <2>7. QED BY <2>3, <2>4, <2>5, <2>6
<1>3. CASE MembersGo
  BY <1>2, <1>3 DEF MembersGo, TypeOK
<1>4. CASE TellingReturns
  BY <1>2, <1>4 DEF TellingReturns, Telling, TypeOK
<1>5. CASE SubscriberGoes
  <2> PICK p \in Objs : Released(p, held, caught \ {<<o, p>>})
    BY <1>5 DEF SubscriberGoes
  <2>1. \A x \in Objs, r \in Objs \ {p} :
            <<x, r>> \in caught => <<x, r>> \in caught \ {<<o, p>>}
    OBVIOUS
  <2>2. QED BY <1>5, <2>1, ReleaseKInv DEF SubscriberGoes
<1>6. CASE ObjectGone
  <2>1. Tail(running) \in Seq(Objs)
    BY <1>6, SMT DEF ObjectGone, TypeOK
  <2>2. QED BY <1>2, <1>6, <2>1 DEF ObjectGone
<1>7. QED BY <1>3, <1>4, <1>5, <1>6 DEF Destructor

\* ~Host deletes what is on a register, and leaves a loop when it is empty.
LEMMA HostKInv == ASSUME KInv, HostBegins \/ HostDeletes \/ StageEnds PROVE KInv'
<1> USE DEF KInv
<1>1. CASE HostDeletes
  <2> PICK o \in tracked : Deletes(o)
    BY <1>1 DEF HostDeletes
  <2>1. o \in slotted /\ o \in Objs
    BY DEF Registered, TypeOK
  <2>2. QED BY <1>1, <2>1, DeleteKInv DEF HostDeletes
<1>2. CASE HostBegins \/ StageEnds
  <2>1. UNCHANGED <<life, tracked, slotted, held, caught, dialing, deleted, running>>
    BY <1>2 DEF HostBegins, StageEnds
  <2>2. stage' \in 0..5
    BY <1>2, SMT DEF HostBegins, StageEnds, InLoop
  <2>3. Emptied'
    <3>1. CASE HostBegins
      BY <3>1, <2>1, SMT DEF HostBegins, Emptied
    <3>2. CASE StageEnds
      <4> SUFFICES ASSUME NEW i \in 1 .. 4, i < stage'
                   PROVE  tracked \cap Stages[i] = {}
        BY <2>1 DEF Emptied
      <4>1. stage \in 1..4 /\ stage' = stage + 1 /\ tracked \cap Stages[stage] = {}
        BY <3>2 DEF StageEnds, InLoop
      <4>2. i < stage \/ i = stage
        BY <4>1, SMT
      <4>3. QED BY <4>1, <4>2 DEF Emptied
    <3>3. QED BY <1>2, <3>1, <3>2
  <2>4. QED BY <2>1, <2>2, <2>3 DEF TypeOK, Registered, NoOrphan, Referenced
<1>3. QED BY <1>1, <1>2

-----------------------------------------------------------------------------
(* The destructors that run, and the references there are not: Nested,     *)
(* with what makes it inductive.                                           *)

\* No destructor runs within itself, and nobody has a reference to an object
\* before it is made.
Distinct == \A i, j \in 1 .. Len(running) : i # j => running[i] # running[j]
Unmet == \A o \in Objs : life[o] = "none" => ~Referenced(o, held, caught)

Dying == {"ending", "telling", "clearing"}

\* The two parts of Nested.
Stacked == \A o \in Objs : life[o] \in Dying <=> \E i \in 1 .. Len(running) : running[i] = o
Promised == \A o \in dialing : life[o] \in {"alive", "ending"} /\ ~Referenced(o, held, caught)

Stack == Stacked /\ Distinct
Apart == Promised /\ Unmet
DInv == KInv /\ Stack /\ Apart

LEMMA NestedInParts == Nested <=> Stacked /\ Promised
BY DEF Nested, Stacked, Promised, Dying

\* A pushed destructor is in front of the others, and a popped one was.
LEMMA Pushed ==
    ASSUME NEW s \in Seq(Objs), NEW o \in Objs
    PROVE  /\ Len(<<o>> \o s) = Len(s) + 1 /\ (<<o>> \o s)[1] = o
           /\ \A i \in 2 .. Len(s) + 1 : (<<o>> \o s)[i] = s[i - 1]
BY SMT

LEMMA Popped ==
    ASSUME NEW s \in Seq(Objs), s # <<>>
    PROVE  /\ Len(s) \in Nat \ {0} /\ Len(Tail(s)) = Len(s) - 1 /\ Head(s) = s[1]
           /\ Head(s) \in Objs
           /\ \A i \in 1 .. Len(s) - 1 : Tail(s)[i] = s[i + 1]
BY SMT

\* A deletion puts the destructor of an object that is not dying in front.
LEMMA DeletesStack ==
    ASSUME KInv, Stack, NEW o \in Objs, o \in slotted \/ life[o] = "none", Deletes(o)
    PROVE  Stack' /\ life' = [life EXCEPT ![o] = "ending"]
<1> USE DEF KInv
<1>1. life[o] \in {"none", "alive"} /\ life' = [life EXCEPT ![o] = "ending"]
  BY DEF TypeOK, Registered, Deletes
<1>2. /\ Len(running') = Len(running) + 1 /\ running'[1] = o
      /\ \A i \in 2 .. Len(running) + 1 : running'[i] = running[i - 1]
      /\ Len(running) \in Nat
  BY <1>1, Pushed, SMT DEF Deletes, TypeOK
<1>3. \A i \in 1 .. Len(running) : running[i] # o
  BY <1>1 DEF Stack, Stacked, Dying
<1>4. Distinct'
  BY <1>2, <1>3, SMT DEF Stack, Distinct
<1>5. Stacked'
  <2> SUFFICES ASSUME NEW q \in Objs
               PROVE  life'[q] \in Dying <=> \E i \in 1 .. Len(running') : running'[i] = q
    BY DEF Stacked, Dying
  <2>1. CASE q = o
    BY <1>1, <1>2, <2>1, SMT DEF Dying, TypeOK
  <2>2. CASE q # o
    <3>1. life'[q] = life[q]
      BY <1>1, <2>2 DEF TypeOK
    <3>2. ASSUME NEW i \in 1 .. Len(running), running[i] = q
          PROVE  \E j \in 1 .. Len(running') : running'[j] = q
      <4>1. i + 1 \in 2 .. Len(running) + 1 /\ i + 1 \in 1 .. Len(running') /\ (i + 1) - 1 = i
        BY <1>2, SMT
      <4>2. running'[i + 1] = q
        BY <1>2, <3>2, <4>1
      <4>3. QED BY <4>1, <4>2
    <3>3. ASSUME NEW j \in 1 .. Len(running'), running'[j] = q
          PROVE  \E i \in 1 .. Len(running) : running[i] = q
      <4>1. j \in 2 .. Len(running) + 1 /\ j - 1 \in 1 .. Len(running)
        BY <1>2, <2>2, <3>3, SMT
      <4>2. running[j - 1] = q
        BY <1>2, <3>3, <4>1
      <4>3. QED BY <4>1, <4>2
    <3>4. QED BY <3>1, <3>2, <3>3 DEF Stack, Stacked
  <2>3. QED BY <2>1, <2>2
<1>6. QED BY <1>1, <1>4, <1>5 DEF Stack

\* While no destructor begins or ends, an object may go from one of their
\* phases to another, or begin.
LEMMA SameStack ==
    ASSUME Stack, UNCHANGED running,
           \A q \in Objs : life'[q] \in Dying <=> life[q] \in Dying
    PROVE  Stack'
BY DEF Stack, Stacked, Distinct

LEMMA BeginsStack ==
    ASSUME KInv, Stack, NEW o \in Objs, Begins(o)
    PROVE  Stack' /\ life' = [life EXCEPT ![o] = "alive"] /\ life[o] = "none"
<1>1. /\ UNCHANGED running
      /\ life' = [life EXCEPT ![o] = "alive"] /\ life[o] = "none"
  BY DEF Begins
<1>2. \A q \in Objs : life'[q] \in Dying <=> life[q] \in Dying
  BY <1>1 DEF KInv, TypeOK, Dying
<1>3. QED BY <1>1, <1>2, SameStack

\* Fewer references leave those apart that were.
LEMMA ApartWithFewer ==
    ASSUME Apart, held' \subseteq held, caught' \subseteq caught, dialing' \subseteq dialing,
           \A q \in dialing' : life'[q] \in {"alive", "ending"},
           \A q \in Objs : life'[q] = "none" => life[q] = "none"
    PROVE  Apart'
BY DEF Apart, Promised, Unmet, Referenced

\* Releases.
LEMMA ReleaseDInv ==
    ASSUME DInv, NEW p \in Objs, NEW hold \in SUBSET held, NEW catch \in SUBSET caught,
           Released(p, hold, catch), UNCHANGED dialing
    PROVE  Stack' /\ Apart'
<1> USE DEF DInv
<1>1. held' = hold /\ caught' = catch
  BY DEF Released
<1>2. CASE p \in slotted /\ ~Referenced(p, hold, catch)
  <2>1. Deletes(p)
    BY <1>2 DEF Released
  <2>2. Stack' /\ life' = [life EXCEPT ![p] = "ending"]
    BY <1>2, <2>1, DeletesStack
  <2>3. \A q \in Objs : life'[q] \in {life[q], "ending"}
    BY <2>2 DEF KInv, TypeOK
  <2>4. \A q \in dialing : q \in Objs /\ life[q] \in {"alive", "ending"}
    BY DEF KInv, TypeOK, Apart, Promised, Objs
  <2>5. Apart'
    BY <1>1, <2>3, <2>4, ApartWithFewer
  <2>6. QED BY <2>2, <2>5
<1>3. CASE ~(p \in slotted /\ ~Referenced(p, hold, catch))
  <2>1. UNCHANGED <<life, running>>
    BY <1>3 DEF Released, KeepsAll
  <2>2. Stack'
    BY <2>1, SameStack
  <2>3. Apart'
    BY <1>1, <2>1, ApartWithFewer DEF Apart, Promised
  <2>4. QED BY <2>2, <2>3
<1>4. QED BY <1>2, <1>3

\* Objects that begin.
LEMMA BeginDInv ==
    ASSUME DInv, NEW o \in Objs, Begins(o), UNCHANGED caught,
           \/ held' = held \cup {o} /\ UNCHANGED dialing
           \/ dialing' = dialing \cup {o} /\ UNCHANGED held
    PROVE  Stack' /\ Apart'
<1> USE DEF DInv
<1>1. Stack' /\ life' = [life EXCEPT ![o] = "alive"] /\ life[o] = "none"
  BY BeginsStack
<1>2. ~Referenced(o, held, caught) /\ o \notin dialing
  BY <1>1 DEF Apart, Unmet, Promised
<1>3. \A q \in Objs : q # o => life'[q] = life[q]
  BY <1>1 DEF KInv, TypeOK
<1>4. life'[o] = "alive" /\ dialing \subseteq Objs
  BY <1>1 DEF KInv, TypeOK, Objs
<1>5. \A q \in Objs : q # o =>
          (Referenced(q, held', caught') <=> Referenced(q, held, caught))
  BY DEF Referenced
<1>6. Unmet'
  BY <1>3, <1>4, <1>5 DEF Apart, Unmet
<1>7. Promised'
  <2> SUFFICES ASSUME NEW q \in dialing'
               PROVE  life'[q] \in {"alive", "ending"} /\ ~Referenced(q, held', caught')
    BY DEF Promised
  <2>1. CASE q = o
    BY <1>2, <1>4, <2>1
  <2>2. CASE q # o
    <3>1. q \in dialing
      BY <2>2
    <3>2. QED BY <1>3, <1>4, <1>5, <2>2, <3>1 DEF Apart, Promised
  <2>3. QED BY <2>1, <2>2
<1>8. QED BY <1>1, <1>6, <1>7 DEF Apart

\* Deletions by a failed or cancelled connect, or by ~Host.
LEMMA DeleteDInv ==
    ASSUME DInv, NEW o \in Objs, o \in slotted \/ life[o] = "none", Deletes(o),
           UNCHANGED <<held, caught>>, dialing' \in {dialing, dialing \ {o}}
    PROVE  Stack' /\ Apart'
<1> USE DEF DInv
<1>1. Stack' /\ life' = [life EXCEPT ![o] = "ending"]
  BY DeletesStack
<1>2. o \in Objs /\ dialing \subseteq Objs
  BY DEF KInv, TypeOK, Objs
<1>3. \A q \in Objs : life'[q] \in {life[q], "ending"}
  BY <1>1 DEF KInv, TypeOK
<1>4. QED BY <1>1, <1>2, <1>3, ApartWithFewer DEF Apart, Promised

LEMMA UserDInv == ASSUME DInv, User PROVE Stack' /\ Apart'
<1> USE DEF DInv
<1>1. CASE \E o \in Objs : Make(o)
  BY <1>1, BeginDInv DEF Make
<1>2. CASE \E o \in Objs : Drop(o)
  BY <1>2, ReleaseDInv DEF Drop
<1>3. CASE \E o \in Objs : Cancel(o)
  BY <1>3, DeleteDInv DEF Cancel
<1>4. CASE \E c \in Clients, ch \in Channels : Connect(c, ch)
  <2> PICK c \in Clients, ch \in Channels : Connect(c, ch)
    BY <1>4
  <2>1. ch \in Objs
    BY DEF Objs
  <2>2. CASE life[ch] = "none" /\ Deletes(ch) /\ UNCHANGED <<held, dialing>>
    BY <2>1, <2>2, DeleteDInv DEF Connect
  <2>3. QED BY <2>1, <2>2, BeginDInv DEF Connect
<1>5. CASE \E o, p \in Objs : Subscribe(o, p)
  <2> PICK o \in Objs, p \in Objs : Subscribe(o, p)
    BY <1>5
  <2>1. /\ UNCHANGED <<life, running, held, dialing>>
        /\ caught' = caught \cup {<<o, p>>} /\ p \in held
    BY DEF Subscribe, KeepsAll
  <2>2. Stack'
    BY <2>1, SameStack
  <2>3. \A q \in Objs : q # p =>
            (Referenced(q, held', caught') <=> Referenced(q, held, caught))
    BY <2>1 DEF Referenced
  <2>4. p \notin dialing /\ life[p] # "none" /\ dialing \subseteq Objs
    BY <2>1 DEF Apart, Promised, Unmet, Referenced, KInv, TypeOK, Objs
  <2>5. Apart'
    BY <2>1, <2>3, <2>4 DEF Apart, Promised, Unmet
  <2>6. QED BY <2>2, <2>5
<1>6. CASE \E o, p \in Objs : Unsubscribe(o, p)
  <2> PICK o \in Objs, p \in Objs : Unsubscribe(o, p)
    BY <1>6
  <2>1. Released(p, held, caught \ {<<o, p>>}) /\ UNCHANGED dialing
    BY DEF Unsubscribe
  <2>2. QED BY <2>1, ReleaseDInv
<1>7. QED BY <1>1, <1>2, <1>3, <1>4, <1>5, <1>6 DEF User

LEMMA LoopDInv == ASSUME DInv, Loop PROVE Stack' /\ Apart'
<1> USE DEF DInv
<1>1. CASE \E s \in Servers, ch \in Channels : Accept(s, ch)
  <2> PICK s \in Servers, ch \in Channels : Accept(s, ch)
    BY <1>1
  <2>1. ch \in Objs
    BY DEF Objs
  <2>2. QED BY <2>1, BeginDInv DEF Accept
<1>2. CASE \E ch \in Channels : Dialed(ch)
  <2> PICK ch \in Channels : Dialed(ch)
    BY <1>2
  <2>1. dialing' = dialing \ {ch} /\ UNCHANGED caught /\ ch \in slotted /\ ch \in Objs
    BY DEF Dialed, Objs
  <2>2. CASE Deletes(ch) /\ UNCHANGED held
    BY <2>1, <2>2, DeleteDInv
  <2>3. CASE held' = held \cup {ch} /\ KeepsAll
    <3>1. UNCHANGED <<life, running>> /\ life[ch] = "alive"
      BY <2>1, <2>3 DEF KeepsAll, KInv, Registered
    <3>2. Stack'
      BY <3>1, SameStack
    <3>3. \A q \in Objs : q # ch =>
              (Referenced(q, held', caught') <=> Referenced(q, held, caught))
      BY <2>1, <2>3 DEF Referenced
    <3>4. dialing \subseteq Objs
      BY DEF KInv, TypeOK, Objs
    <3>5. Apart'
      BY <2>1, <3>1, <3>3, <3>4 DEF Apart, Promised, Unmet
    <3>6. QED BY <3>2, <3>5
  <2>4. QED BY <2>2, <2>3 DEF Dialed
<1>3. QED BY <1>1, <1>2 DEF Loop

\* The innermost destructor goes on, tells, or is done.
LEMMA DestructorDInv == ASSUME DInv, Destructor PROVE Stack' /\ Apart'
<1> USE DEF DInv
<1> DEFINE o == Head(running)
<1>1. running # <<>> => o \in Objs
  BY Popped DEF KInv, TypeOK
<1>2. dialing \subseteq Objs
  BY DEF KInv, TypeOK, Objs
<1>3. CASE MembersGo
  <2>1. PICK now \in {"telling", "clearing"} : life' = [life EXCEPT ![o] = now]
    BY <1>3 DEF MembersGo, Becomes
  <2>2. /\ UNCHANGED <<running, held, caught>> /\ dialing' = dialing \ {o}
        /\ running # <<>> /\ life[o] = "ending"
    BY <1>3 DEF MembersGo
  <2>3. life'[o] = now /\ \A q \in Objs : q # o => life'[q] = life[q]
    BY <1>1, <2>1, <2>2 DEF KInv, TypeOK
  <2>4. Stack'
    BY <2>2, <2>3, SameStack DEF Dying
  <2>5. Apart'
    BY <1>2, <2>2, <2>3, ApartWithFewer DEF Apart, Promised
  <2>6. QED BY <2>4, <2>5
<1>4. CASE TellingReturns
  <2>1. /\ life' = [life EXCEPT ![o] = "clearing"]
        /\ UNCHANGED <<running, held, caught, dialing>>
        /\ running # <<>> /\ life[o] = "telling"
    BY <1>4 DEF TellingReturns, Telling, Becomes
  <2>2. life'[o] = "clearing" /\ \A q \in Objs : q # o => life'[q] = life[q]
    BY <1>1, <2>1 DEF KInv, TypeOK
  <2>3. Stack'
    BY <2>1, <2>2, SameStack DEF Dying
  <2>4. o \notin dialing
    BY <2>1 DEF Apart, Promised
  <2>5. Apart'
    BY <1>2, <2>1, <2>2, <2>4, ApartWithFewer DEF Apart, Promised
  <2>6. QED BY <2>3, <2>5
<1>5. CASE SubscriberGoes
  <2> PICK p \in Objs : Released(p, held, caught \ {<<o, p>>})
    BY <1>5 DEF SubscriberGoes
  <2>1. QED BY <1>5, ReleaseDInv DEF SubscriberGoes
<1>6. CASE ObjectGone
  <2>1. /\ life' = [life EXCEPT ![o] = "dead"] /\ running' = Tail(running)
        /\ UNCHANGED <<held, caught, dialing>>
        /\ running # <<>> /\ life[o] = "clearing"
    BY <1>6 DEF ObjectGone, Becomes
  <2>2. life'[o] = "dead" /\ \A q \in Objs : q # o => life'[q] = life[q]
    BY <1>1, <2>1 DEF KInv, TypeOK
  <2>3. o \notin dialing
    BY <2>1 DEF Apart, Promised
  <2>4. Apart'
    BY <1>2, <2>1, <2>2, <2>3, ApartWithFewer DEF Apart, Promised
  <2>5. /\ Len(running) \in Nat \ {0} /\ Len(running') = Len(running) - 1
        /\ o = running[1] /\ o \in Objs
        /\ \A i \in 1 .. Len(running) - 1 : running'[i] = running[i + 1]
    BY <2>1, Popped DEF KInv, TypeOK
  <2>6. Distinct'
    BY <2>5, SMT DEF Stack, Distinct
  <2>7. \A i \in 2 .. Len(running) : running[i] # o
    BY <2>5, SMT DEF Stack, Distinct
  <2>8. Stacked'
    <3> SUFFICES ASSUME NEW q \in Objs
                 PROVE  life'[q] \in Dying <=> \E i \in 1 .. Len(running') : running'[i] = q
      BY DEF Stacked, Dying
    <3>1. CASE q = o
      <4>1. \A i \in 1 .. Len(running') : running'[i] # o
        BY <2>5, <2>7, SMT
      <4>2. QED BY <2>2, <3>1, <4>1 DEF Dying
    <3>2. CASE q # o
      <4>1. ASSUME NEW i \in 1 .. Len(running), running[i] = q
            PROVE  \E j \in 1 .. Len(running') : running'[j] = q
        <5>1. i - 1 \in 1 .. Len(running') /\ i - 1 \in 1 .. Len(running) - 1 /\ (i - 1) + 1 = i
          BY <2>5, <3>2, <4>1, SMT
        <5>2. running'[i - 1] = q
          BY <2>5, <4>1, <5>1
        <5>3. QED BY <5>1, <5>2
      <4>2. ASSUME NEW j \in 1 .. Len(running'), running'[j] = q
            PROVE  \E i \in 1 .. Len(running) : running[i] = q
        <5>1. j \in 1 .. Len(running) - 1 /\ j + 1 \in 1 .. Len(running)
          BY <2>5, SMT
        <5>2. running[j + 1] = q
          BY <2>5, <4>2, <5>1
        <5>3. QED BY <5>1, <5>2
      <4>3. QED BY <2>2, <3>2, <4>1, <4>2 DEF Stack, Stacked
    <3>3. QED BY <3>1, <3>2
  <2>9. QED BY <2>4, <2>6, <2>8 DEF Stack
<1>7. QED BY <1>3, <1>4, <1>5, <1>6 DEF Destructor

LEMMA HostDInv == ASSUME DInv, HostBegins \/ HostDeletes \/ StageEnds PROVE Stack' /\ Apart'
<1> USE DEF DInv
<1>1. CASE HostDeletes
  <2> PICK o \in tracked : Deletes(o)
    BY <1>1 DEF HostDeletes
  <2>1. o \in slotted /\ o \in Objs
    BY DEF KInv, Registered, TypeOK
  <2>2. QED BY <1>1, <2>1, DeleteDInv DEF HostDeletes
<1>2. CASE HostBegins \/ StageEnds
  BY <1>2 DEF HostBegins, StageEnds, Stack, Stacked, Distinct, Apart, Promised, Unmet,
              Referenced
<1>3. QED BY <1>1, <1>2

-----------------------------------------------------------------------------
\* Registers, slots and life agree in every reachable state, for any number of
\* objects, and no loop of ~Host leaves anything behind.
THEOREM HostInvariant == Spec => []KInv
<1>1. ASSUME KInv, [Next]_vars PROVE KInv'
  <2>1. CASE UNCHANGED vars
    BY <1>1, <2>1 DEF vars, KInv, TypeOK, Registered, NoOrphan, Referenced, Emptied
  <2>2. QED BY <1>1, <2>1, UserKInv, LoopKInv, DestructorKInv, HostKInv DEF Next, Ending
<1>2. QED BY InitKInv, <1>1, PTL DEF Spec

\* The whole invariant: besides, the destructors that run are those of the
\* objects between life and death, each once and one within another, and nobody
\* has a reference to a channel that connects, nor to an object not yet made.
THEOREM HostNests == Spec => []HInv
<1>1. Init => DInv
  <2>1. ASSUME Init PROVE Stack
    BY <2>1, SMT DEF Init, Stack, Stacked, Distinct, Dying
  <2>2. ASSUME Init PROVE Apart
    BY <2>2 DEF Init, Apart, Promised, Unmet, Referenced
  <2>3. QED BY <2>1, <2>2, InitKInv DEF DInv
<1>2. ASSUME DInv, [Next]_vars PROVE DInv'
  <2>1. CASE UNCHANGED vars
    BY <1>2, <2>1 DEF vars, DInv, KInv, TypeOK, Registered, NoOrphan, Referenced, Emptied,
                      Stack, Stacked, Distinct, Apart, Promised, Unmet
  <2>2. CASE Next
    <3>1. KInv'
      BY <1>2, <2>2, UserKInv, LoopKInv, DestructorKInv, HostKInv DEF DInv, Next, Ending
    <3>2. Stack' /\ Apart'
      BY <1>2, <2>2, UserDInv, LoopDInv, DestructorDInv, HostDInv DEF Next, Ending
    <3>3. QED BY <3>1, <3>2 DEF DInv
  <2>3. QED BY <1>2, <2>1, <2>2
<1>3. DInv => HInv
  BY NestedInParts DEF DInv, KInv, Stack, Apart, HInv
<1>4. QED BY <1>1, <1>2, <1>3, PTL DEF Spec

\* No object is deleted twice, whoever deletes it.
THEOREM NobodyDeletedTwice == Spec => []DeletedOnce
<1>1. KInv => DeletedOnce
  BY SMT DEF KInv, Registered, DeletedOnce
<1>2. QED BY HostInvariant, <1>1, PTL

\* Every object that lives is referenced or connecting.
THEOREM NobodyForgotten == Spec => []NoOrphan
<1>1. KInv => NoOrphan
  BY DEF KInv
<1>2. QED BY HostInvariant, <1>1, PTL

\* The slots are on the registers, and the registers are empty in the end.
LEMMA NoSlotsInTheEnd == KInv /\ stage = 5 => slotted = {}
<1> SUFFICES ASSUME KInv, stage = 5, NEW o \in slotted PROVE FALSE
  OBVIOUS
<1>1. o \in tracked /\ o \in Objs
  BY DEF KInv, Registered, TypeOK
<1>2. PICK i \in 1 .. 4 : o \in Stages[i]
  BY <1>1, SMT DEF Objs, Stages
<1>3. QED BY <1>1, <1>2, SMT DEF KInv, Emptied

\* When ~Host is through its loops, nothing that was made with the host lives
\* and no destructor runs, whatever the user still does with his references:
\* the safety half of DestructionEnds.
Quiet == stage = 5 => running = <<>>

THEOREM HostLeavesNothing ==
    Spec => [](stage = 5 => \A o \in Objs : life[o] \in {"none", "dead"})
<1>1. Init => Quiet
  BY DEF Init, Quiet
<1>2. ASSUME KInv, Quiet, [Next]_vars PROVE Quiet'
  <2> SUFFICES ASSUME stage' = 5 PROVE running' = <<>>
    BY DEF Quiet
  <2>1. CASE stage = 5
    <3>1. slotted = {} /\ running = <<>>
      BY <1>2, <2>1, NoSlotsInTheEnd DEF Quiet
    <3>2. CASE User
      BY <3>1, <3>2 DEF User, Make, Drop, Cancel, Connect, Subscribe, Unsubscribe, Begins,
                        Released, KeepsAll
    <3>3. CASE Loop \/ HostBegins
      BY <2>1, <3>3 DEF Loop, Accept, Dialed, HostBegins, AtRest
    <3>4. CASE Ending
      BY <2>1, <3>1, <3>4, SMT DEF Ending, Destructor, MembersGo, TellingReturns, Telling,
                              SubscriberGoes, ObjectGone, HostDeletes, StageEnds, InLoop
    <3>5. QED BY <1>2, <3>1, <3>2, <3>3, <3>4 DEF Next, vars
  <2>2. CASE stage # 5
    <3>1. CASE StageEnds
      BY <3>1 DEF StageEnds, InLoop
    <3>2. CASE HostBegins
      BY <3>2 DEF HostBegins
    <3>3. CASE User
      BY <2>2, <3>3 DEF User, Make, Drop, Cancel, Connect, Subscribe, Unsubscribe, Begins,
                        Released, KeepsAll, Deletes
    <3>4. CASE Loop
      BY <2>2, <3>4 DEF Loop, Accept, Dialed, Begins, KeepsAll, Deletes
    <3>5. CASE Destructor \/ HostDeletes
      BY <2>2, <3>5 DEF Destructor, MembersGo, TellingReturns, SubscriberGoes, ObjectGone,
                        Becomes, HostDeletes, Released, KeepsAll, Deletes
    <3>6. QED BY <1>2, <2>2, <3>1, <3>2, <3>3, <3>4, <3>5 DEF Next, Ending, vars
  <2>3. QED BY <2>1, <2>2
<1>3. HInv /\ Quiet => (stage = 5 => \A o \in Objs : life[o] \in {"none", "dead"})
  <2> SUFFICES ASSUME HInv, Quiet, stage = 5, NEW o \in Objs
               PROVE  life[o] \in {"none", "dead"}
    OBVIOUS
  <2>1. KInv /\ Stacked
    BY NestedInParts DEF HInv, KInv
  <2>2. life[o] # "alive"
    BY <2>1, NoSlotsInTheEnd DEF KInv, Registered
  <2>3. life[o] \notin Dying
    BY <2>1, SMT DEF Quiet, Stacked
  <2>4. QED BY <2>1, <2>2, <2>3 DEF KInv, TypeOK, Lives, Dying
<1>4. QED BY HostInvariant, HostNests, <1>1, <1>2, <1>3, PTL DEF Spec
=============================================================================
