---------------------------- MODULE ResolverProofs ----------------------------
(***************************************************************************)
(* Proofs about IpResolver, for any requests and any number of workers.    *)
(*                                                                         *)
(* The argument is that a task is in one place: where the main thread, the *)
(* list, a worker and an awaker hold tasks are sets without a common       *)
(* member (Apart), and each step takes a task from one to the next.  So a  *)
(* task that resolves itself, on its way out of the last of them, is       *)
(* nowhere else.                                                           *)
(***************************************************************************)
EXTENDS IpResolver, TLAPS

\* Where the tasks are and what their requesters know.
Holding == OneHolder /\ NoUseAfterDelete /\ Requested

LEMMA InitRInv == Init => RInv
<1> SUFFICES ASSUME Init PROVE RInv
  OBVIOUS
<1>1. TypeOK
  <2>1. tasks4Worker \in Seq(Tasks)
    BY SMT DEF Init
  <2>2. QED BY <2>1, Zenon DEF Init, TypeOK, Busy
<1>2. Queued = {} /\ InHand = {} /\ Pushed = {} /\ Awake = {}
  BY SMT DEF Init, Queued, InHand, Pushed, Awake, Busy
<1>3. OneHolder
  BY <1>2, SMT DEF Init, OneHolder, ListedOnce, WorkedOnce, Apart, Busy
<1>4. NoUseAfterDelete /\ NoLostWakeup
  BY SMT DEF Init, NoUseAfterDelete, NoLostWakeup
<1>5. Requested /\ AtWork
  BY <1>2, SMT DEF Init, Requested, AtWork, Held, Busy
<1>6. QED BY <1>1, <1>3, <1>4, <1>5 DEF RInv

-----------------------------------------------------------------------------
(* The list.                                                               *)

\* A task that is not in the list enters it at its front.
LEMMA ListGains ==
    ASSUME TypeOK, ListedOnce, NEW t \in Tasks, t \notin Queued,
           tasks4Worker' = <<t>> \o tasks4Worker
    PROVE  /\ tasks4Worker' \in Seq(Tasks) /\ tasks4Worker' # <<>>
           /\ Queued' = Queued \cup {t} /\ ListedOnce'
<1> DEFINE s == tasks4Worker
<1>1. s \in Seq(Tasks) /\ Len(s) \in Nat
  BY DEF TypeOK
<1>2. /\ tasks4Worker' \in Seq(Tasks) /\ Len(tasks4Worker') = Len(s) + 1
      /\ \A i \in 1 .. Len(s) + 1 : tasks4Worker'[i] = (IF i = 1 THEN t ELSE s[i - 1])
  BY <1>1, SMT
<1>3. \A i \in 1 .. Len(s) : s[i] = tasks4Worker'[i + 1] /\ s[i] # t
  BY <1>1, <1>2, SMT DEF Queued
<1>4. Queued' = Queued \cup {t}
  <2>1. ASSUME NEW x \in Queued' PROVE x \in Queued \cup {t}
    BY <1>1, <1>2, <2>1, SMT DEF Queued
  <2>2. ASSUME NEW x \in Queued PROVE x \in Queued'
    BY <1>1, <1>2, <1>3, <2>2, SMT DEF Queued
  <2>3. t \in Queued'
    BY <1>1, <1>2, SMT DEF Queued
  <2>4. QED BY <2>1, <2>2, <2>3
<1>5. ListedOnce'
  BY <1>1, <1>2, <1>3, SMT DEF ListedOnce
<1>6. QED BY <1>1, <1>2, <1>4, <1>5, SMT

\* The first task leaves the list, and is in it no more.
LEMMA ListLoses ==
    ASSUME TypeOK, ListedOnce, tasks4Worker # <<>>, tasks4Worker' = Tail(tasks4Worker)
    PROVE  /\ tasks4Worker' \in Seq(Tasks)
           /\ Head(tasks4Worker) \in Queued /\ Head(tasks4Worker) \in Tasks
           /\ Queued' = Queued \ {Head(tasks4Worker)} /\ ListedOnce'
<1> DEFINE s == tasks4Worker
<1>1. s \in Seq(Tasks) /\ Len(s) \in Nat /\ Len(s) > 0
  BY SMT DEF TypeOK
<1>2. /\ tasks4Worker' \in Seq(Tasks) /\ Len(tasks4Worker') = Len(s) - 1
      /\ \A i \in 1 .. Len(s) - 1 : tasks4Worker'[i] = s[i + 1]
      /\ Head(s) = s[1]
  BY <1>1, SMT
<1>3. Head(s) \in Queued /\ Head(s) \in Tasks
  BY <1>1, <1>2, SMT DEF Queued
<1>4. \A i \in 2 .. Len(s) : s[i] # Head(s) /\ s[i] = tasks4Worker'[i - 1]
  BY <1>1, <1>2, SMT DEF ListedOnce
<1>5. Queued' = Queued \ {Head(s)}
  <2>1. ASSUME NEW x \in Queued' PROVE x \in Queued \ {Head(s)}
    BY <1>1, <1>2, <1>4, <2>1, SMT DEF Queued
  <2>2. ASSUME NEW x \in Queued, x # Head(s) PROVE x \in Queued'
    BY <1>1, <1>2, <1>4, <2>2, SMT DEF Queued
  <2>3. QED BY <2>1, <2>2
<1>6. ListedOnce'
  BY <1>1, <1>2, SMT DEF ListedOnce
<1>7. QED BY <1>2, <1>3, <1>5, <1>6

-----------------------------------------------------------------------------
(* The hands of the workers.                                               *)

\* A worker that is not at work takes a task up.
LEMMA HandGains ==
    ASSUME TypeOK, WorkedOnce, NEW w \in Workers, NEW t \in Tasks, t \notin InHand,
           wpc[w] \notin Busy, job' = [job EXCEPT ![w] = t],
           wpc' = [wpc EXCEPT ![w] = "start"]
    PROVE  InHand' = InHand \cup {t} /\ WorkedOnce'
<1>1. /\ job'[w] = t /\ wpc'[w] \in Busy
      /\ \A v \in Workers \ {w} : job'[v] = job[v] /\ wpc'[v] = wpc[v]
  BY Zenon DEF TypeOK, Busy
<1>2. \A v \in Workers \ {w} : wpc[v] \in Busy => job[v] # t
  BY DEF InHand
<1>3. WorkedOnce'
  <2> SUFFICES ASSUME NEW u \in Workers, NEW v \in Workers, u # v,
                      wpc'[u] \in Busy, wpc'[v] \in Busy
               PROVE  job'[u] # job'[v]
    BY DEF WorkedOnce
  <2>1. CASE u = w \/ v = w
    BY <1>1, <1>2, <2>1
  <2>2. CASE u # w /\ v # w
    BY <1>1, <2>2 DEF WorkedOnce
  <2>3. QED BY <2>1, <2>2
<1>4. InHand' = InHand \cup {t}
  <2>1. ASSUME NEW x \in InHand' PROVE x \in InHand \cup {t}
    BY <1>1, <2>1, Zenon DEF InHand
  <2>2. ASSUME NEW x \in InHand \cup {t} PROVE x \in InHand'
    BY <1>1, <2>2, Zenon DEF InHand
  <2>3. QED BY <2>1, <2>2
<1>5. QED BY <1>3, <1>4

\* A worker lets its task go.
LEMMA HandLoses ==
    ASSUME TypeOK, WorkedOnce, NEW w \in Workers, wpc[w] \in Busy,
           job' = [job EXCEPT ![w] = NoTask], wpc' = [wpc EXCEPT ![w] = "lock"]
    PROVE  job[w] \in InHand /\ InHand' = InHand \ {job[w]} /\ WorkedOnce'
<1>1. /\ wpc'[w] \notin Busy
      /\ \A v \in Workers \ {w} : job'[v] = job[v] /\ wpc'[v] = wpc[v]
  BY Zenon DEF TypeOK, Busy
<1>2. \A v \in Workers \ {w} : wpc[v] \in Busy => job[v] # job[w]
  BY DEF WorkedOnce
<1>3. WorkedOnce'
  BY <1>1 DEF WorkedOnce
<1>4. InHand' = InHand \ {job[w]}
  BY <1>1, <1>2, Zenon DEF InHand
<1>5. QED BY <1>3, <1>4 DEF InHand

\* What a worker does with its task, or without one, leaves the hands as they
\* are.
LEMMA HandsKept ==
    ASSUME UNCHANGED job, \A w \in Workers : wpc'[w] \in Busy <=> wpc[w] \in Busy
    PROVE  InHand' = InHand /\ (WorkedOnce => WorkedOnce')
BY DEF InHand, WorkedOnce

-----------------------------------------------------------------------------
(* Types.                                                                  *)

LEMMA TypesKept == ASSUME RInv, [Next]_vars PROVE TypeOK'
<1> USE DEF vars, taskVars
<1>0. TypeOK /\ OneHolder /\ Requested
  BY DEF RInv
<1>1. CASE UNCHANGED vars
  BY <1>0, <1>1, Zenon DEF TypeOK
<1>2. ASSUME NEW t \in Tasks, Execute(t) \/ CancelTask(t) PROVE TypeOK'
  BY <1>0, <1>2, Zenon DEF Execute, CancelTask, TypeOK
<1>3. CASE PushTask
  <2>1. pushing \in Tasks /\ pushing \notin Queued
    BY <1>0, <1>3 DEF PushTask, Requested, Held, Pushed, OneHolder, Apart
  <2>2. tasks4Worker' \in Seq(Tasks)
    BY <1>0, <1>3, <2>1, ListGains DEF PushTask, OneHolder
  <2>3. QED BY <1>0, <1>3, <2>2, Zenon DEF PushTask, TypeOK
<1>4. CASE NotifyOne
  BY <1>0, <1>4, Zenon DEF NotifyOne, TypeOK, Waiting
<1>5. CASE SetStop \/ NotifyAll \/ JoinWorkers \/ StartDestroy
  BY <1>0, <1>5, Zenon DEF SetStop, NotifyAll, JoinWorkers, StartDestroy, TypeOK
<1>6. ASSUME NEW t \in Tasks, Resolve(t)
      PROVE  /\ future' \in [Tasks -> {"none", "pending", "value", "exception", "canceled"}]
             /\ deleted' \in [Tasks -> BOOLEAN]
  BY <1>0, <1>6, Zenon DEF Resolve, TypeOK
<1>7. CASE DrainTasks
  <2>1. CASE tasks4Worker = <<>>
    BY <1>0, <1>7, <2>1, Zenon DEF DrainTasks, TypeOK
  <2>2. CASE tasks4Worker # <<>>
    <3>1. Resolve(Head(tasks4Worker)) /\ tasks4Worker' = Tail(tasks4Worker)
      BY <1>7, <2>2 DEF DrainTasks
    <3>2. Head(tasks4Worker) \in Tasks /\ tasks4Worker' \in Seq(Tasks)
      BY <1>0, <2>2, <3>1, ListLoses DEF OneHolder
    <3>3. QED BY <1>0, <1>6, <1>7, <3>1, <3>2, Zenon DEF DrainTasks, TypeOK
  <2>3. QED BY <2>1, <2>2
<1>8. ASSUME NEW t \in Tasks, AwakerWoken(t) PROVE TypeOK'
  BY <1>0, <1>6, <1>8, Zenon DEF AwakerWoken, TypeOK
<1>9. ASSUME NEW w \in Workers, WorkerTakes(w) PROVE TypeOK'
  <2>1. Head(tasks4Worker) \in Tasks /\ tasks4Worker' \in Seq(Tasks)
    BY <1>0, <1>9, ListLoses DEF OneHolder, WorkerTakes
  <2>2. QED BY <1>0, <1>9, <2>1, Zenon DEF WorkerTakes, TypeOK, Busy
<1>10. ASSUME NEW w \in Workers, \/ WorkerStops(w) \/ WorkerWaits(w) \/ WorkerStarts(w)
                                 \/ SpuriousWakeup(w)
       PROVE  TypeOK'
  BY <1>0, <1>10, Zenon DEF WorkerStops, WorkerWaits, WorkerStarts, SpuriousWakeup,
     TypeOK, Busy
<1>11. ASSUME NEW w \in Workers, WorkerLooksUp(w) \/ WorkerWakesUp(w) PROVE TypeOK'
  BY <1>0, <1>11, Zenon DEF WorkerLooksUp, WorkerWakesUp, TypeOK, Busy
<1>12. QED
  BY <1>1, <1>2, <1>3, <1>4, <1>5, <1>7, <1>8, <1>9, <1>10, <1>11
  DEF Next, Request, MainGoesOn, Awaken, Worker

-----------------------------------------------------------------------------
(* Wakeups.                                                                *)

\* The list grows only before a notification, and a worker goes to sleep only
\* if it is empty.
LEMMA WakeupsKept == ASSUME RInv, [Next]_vars PROVE NoLostWakeup'
<1> USE DEF vars, taskVars, NoLostWakeup, Waiting
<1>0. TypeOK /\ NoLostWakeup /\ AtWork
  BY DEF RInv
<1>1. CASE UNCHANGED <<tasks4Worker, stopFlag, wpc, mpc>>
  BY <1>0, <1>1
<1>2. CASE UNCHANGED <<tasks4Worker, stopFlag, wpc>> /\ mpc # "notify"
  BY <1>0, <1>2
<1>3. CASE PushTask
  BY <1>3 DEF PushTask
<1>4. CASE NotifyOne
  <2>1. ASSUME NEW w \in Waiting, wpc' = [wpc EXCEPT ![w] = "lock"] PROVE Waiting' # Workers
    BY <1>0, <2>1, Zenon DEF TypeOK
  <2>2. Waiting = {} /\ wpc' = wpc => Waiting' # Workers
    BY IpResolverAssumption
  <2>3. QED BY <1>4, <2>1, <2>2 DEF NotifyOne
<1>5. CASE SetStop \/ NotifyAll \/ DrainTasks
  BY <1>0, <1>5 DEF SetStop, NotifyAll, DrainTasks, AtWork
<1>6. ASSUME NEW w \in Workers, tasks4Worker' = <<>> \/ stopFlag' \/ wpc'[w] # "wait"
      PROVE  NoLostWakeup'
  BY <1>6
<1>7. ASSUME NEW w \in Workers, Worker(w) \/ SpuriousWakeup(w) PROVE NoLostWakeup'
  BY <1>0, <1>6, <1>7, SMT DEF Worker, WorkerStops, WorkerTakes, WorkerWaits, WorkerStarts,
     WorkerLooksUp, WorkerWakesUp, SpuriousWakeup, TypeOK
<1>8. QED
  BY <1>1, <1>2, <1>3, <1>4, <1>5, <1>7
  DEF Next, Request, MainGoesOn, Awaken, Execute, CancelTask, JoinWorkers, StartDestroy,
      AwakerWoken

-----------------------------------------------------------------------------
(* Tasks on their way.                                                     *)

\* A worker at work keeps having a task, and the stop flag its meaning.
LEMMA AtWorkKept == ASSUME RInv, [Next]_vars PROVE AtWork'
<1> USE DEF vars, taskVars, AtWork, Busy
<1>0. TypeOK /\ AtWork /\ OneHolder
  BY DEF RInv
<1>1. CASE UNCHANGED <<wpc, job, stopFlag, mpc>>
  BY <1>0, <1>1
<1>2. CASE Request \/ PushTask \/ Awaken \/ StartDestroy \/ SetStop \/ JoinWorkers
           \/ DrainTasks
  BY <1>0, <1>2, SMT DEF Request, Execute, CancelTask, PushTask, Awaken, AwakerWoken,
     StartDestroy, SetStop, JoinWorkers, DrainTasks
<1>3. CASE NotifyOne \/ NotifyAll
  BY <1>0, <1>3, SMT DEF NotifyOne, NotifyAll, Waiting, TypeOK
<1>4. ASSUME NEW w \in Workers, WorkerTakes(w) PROVE AtWork'
  <2>1. Head(tasks4Worker) \in Tasks
    BY <1>0, <1>4, ListLoses DEF WorkerTakes, OneHolder
  <2>2. QED BY <1>0, <1>4, <2>1, SMT DEF WorkerTakes, TypeOK
<1>5. ASSUME NEW w \in Workers, \/ WorkerStops(w) \/ WorkerWaits(w) \/ WorkerStarts(w)
                                \/ WorkerLooksUp(w) \/ WorkerWakesUp(w)
                                \/ SpuriousWakeup(w)
      PROVE  AtWork'
  BY <1>0, <1>5, SMT DEF WorkerStops, WorkerWaits, WorkerStarts, WorkerLooksUp,
     WorkerWakesUp, SpuriousWakeup, TypeOK
<1>6. QED BY <1>1, <1>2, <1>3, <1>4, <1>5 DEF Next, MainGoesOn, Worker

\* A step that moves tasks, none lost and none new, and tells nobody.
LEMMA Moved ==
    ASSUME Holding, ListedOnce', WorkedOnce', Apart', Held' = Held,
           UNCHANGED <<future, canceled, deleted>>
    PROVE  Holding'
BY DEF Holding, OneHolder, NoUseAfterDelete, Requested

\* A step that moves none.
LEMMA Unmoved ==
    ASSUME Holding, ListedOnce', WorkedOnce', UNCHANGED <<Pushed, Queued, InHand, Awake>>,
           UNCHANGED <<future, canceled, deleted>>
    PROVE  Holding'
<1>1. Apart' /\ Held' = Held
  BY DEF Holding, OneHolder, Apart, Held
<1>2. QED BY <1>1, Moved

\* Task::resolve leaves an answer behind and nobody else's changes.
LEMMA ResolveSettles ==
    ASSUME TypeOK, Holding, NEW t \in Held, Resolve(t)
    PROVE  /\ t \in Tasks /\ future'[t] \notin {"none", "pending"}
           /\ canceled[t] => future'[t] = "canceled"
           /\ \A u \in Tasks : deleted'[u] <=> (u = t \/ deleted[u])
           /\ \A u \in Tasks \ {t} : future'[u] = future[u]
<1>1. t \in Tasks /\ future[t] # "none" /\ (canceled[t] => future[t] = "canceled")
  BY DEF Holding, Requested
<1>2. \A u \in Tasks : deleted'[u] <=> (u = t \/ deleted[u])
  BY <1>1, Zenon DEF Resolve, TypeOK
<1>3. CASE canceled[t] \/ future[t] # "pending"
  BY <1>1, <1>2, <1>3 DEF Resolve
<1>4. CASE ~canceled[t] /\ future[t] = "pending"
  BY <1>1, <1>2, <1>4, SMT DEF Resolve, TypeOK
<1>5. QED BY <1>3, <1>4

\* It leaves no hands behind that hold it.
LEMMA ResolveHolding ==
    ASSUME TypeOK, Holding, NEW t \in Held, Resolve(t), UNCHANGED canceled,
           ListedOnce', WorkedOnce', Apart', Held' = Held \ {t}
    PROVE  Holding'
BY ResolveSettles DEF Holding, OneHolder, NoUseAfterDelete, Requested

LEMMA HoldingKept == ASSUME RInv, [Next]_vars PROVE Holding'
<1> USE DEF vars, taskVars
<1>0. /\ TypeOK /\ Holding /\ AtWork
      /\ ListedOnce /\ WorkedOnce /\ Apart
  BY DEF RInv, Holding, OneHolder
<1>1. ASSUME UNCHANGED tasks4Worker PROVE Queued' = Queued /\ ListedOnce'
  BY <1>0, <1>1 DEF Queued, ListedOnce
<1>2. ASSUME UNCHANGED <<wpc, job>> PROVE InHand' = InHand /\ WorkedOnce'
  BY <1>0, <1>2, HandsKept
<1>3. ASSUME UNCHANGED woken PROVE Awake' = Awake
  BY <1>3 DEF Awake
<1>4. CASE UNCHANGED vars
  BY <1>0, <1>1, <1>2, <1>3, <1>4, Unmoved DEF Pushed
<1>5. ASSUME NEW t \in Tasks, Execute(t) PROVE Holding'
  <2>1. /\ Queued' = Queued /\ ListedOnce' /\ InHand' = InHand /\ WorkedOnce'
        /\ Awake' = Awake /\ Pushed = {} /\ Pushed' = {t}
    BY <1>1, <1>2, <1>3, <1>5 DEF Execute, Pushed
  <2>2. t \notin Held /\ ~deleted[t] /\ Held' = Held \cup {t}
    BY <1>0, <1>5, <2>1 DEF Execute, Holding, Requested, NoUseAfterDelete, Held
  <2>3. Apart'
    BY <1>0, <2>1, <2>2 DEF Apart, Held
  <2>4. /\ UNCHANGED <<deleted, canceled>> /\ future'[t] = "pending"
        /\ \A u \in Tasks \ {t} : future'[u] = future[u]
    BY <1>0, <1>5, Zenon DEF Execute, TypeOK
  <2>5. ~canceled[t]
    BY <1>0, <1>5 DEF Execute, Holding, Requested
  <2>6. QED
    BY <1>0, <2>1, <2>2, <2>3, <2>4, <2>5
    DEF Holding, OneHolder, NoUseAfterDelete, Requested
<1>6. ASSUME NEW t \in Tasks, CancelTask(t) PROVE Holding'
  <2>1. /\ Queued' = Queued /\ ListedOnce' /\ InHand' = InHand /\ WorkedOnce'
        /\ Awake' = Awake /\ Pushed' = Pushed
    BY <1>1, <1>2, <1>3, <1>6 DEF CancelTask, Pushed
  <2>2. Held' = Held /\ Apart'
    BY <1>0, <2>1 DEF Apart, Held
  <2>3. /\ UNCHANGED deleted /\ future[t] = "pending" /\ future'[t] = "canceled"
        /\ \A u \in Tasks \ {t} : future'[u] = future[u] /\ canceled'[u] = canceled[u]
    BY <1>0, <1>6, Zenon DEF CancelTask, TypeOK
  <2>4. QED
    BY <1>0, <2>1, <2>2, <2>3 DEF Holding, OneHolder, NoUseAfterDelete, Requested
<1>7. CASE PushTask
  <2>1. pushing \in Tasks /\ pushing \notin Queued /\ Pushed = {pushing} /\ Pushed' = {}
    BY <1>0, <1>7 DEF PushTask, Holding, Requested, Held, Pushed, Apart
  <2>2. Queued' = Queued \cup {pushing} /\ ListedOnce'
    BY <1>0, <1>7, <2>1, ListGains DEF PushTask
  <2>3. InHand' = InHand /\ WorkedOnce' /\ Awake' = Awake
    BY <1>2, <1>3, <1>7 DEF PushTask
  <2>4. Held' = Held /\ Apart'
    BY <1>0, <2>1, <2>2, <2>3 DEF Held, Apart
  <2>5. QED BY <1>0, <1>7, <2>2, <2>3, <2>4, Moved DEF PushTask
<1>8. CASE NotifyOne \/ NotifyAll
  <2>1. InHand' = InHand /\ WorkedOnce'
    <3>1. \A w \in Workers : wpc'[w] \in Busy <=> wpc[w] \in Busy
      BY <1>0, <1>8, SMT DEF NotifyOne, NotifyAll, Waiting, TypeOK, Busy
    <3>2. UNCHANGED job
      BY <1>8 DEF NotifyOne, NotifyAll
    <3>3. QED BY <1>0, <3>1, <3>2, HandsKept
  <2>2. Pushed' = Pushed
    BY <1>8 DEF NotifyOne, NotifyAll, Pushed
  <2>3. QED
    BY <1>0, <1>1, <1>3, <1>8, <2>1, <2>2, Unmoved DEF NotifyOne, NotifyAll
<1>9. CASE SetStop \/ JoinWorkers \/ StartDestroy
  <2>1. Pushed' = Pushed
    BY <1>9 DEF SetStop, JoinWorkers, StartDestroy, Pushed
  <2>2. QED
    BY <1>0, <1>1, <1>2, <1>3, <1>9, <2>1, Unmoved DEF SetStop, JoinWorkers, StartDestroy
<1>10. CASE DrainTasks
  <2>1. InHand' = InHand /\ WorkedOnce' /\ Awake' = Awake /\ Pushed' = Pushed
    BY <1>2, <1>3, <1>10 DEF DrainTasks, Pushed
  <2>2. CASE tasks4Worker = <<>>
    BY <1>0, <1>1, <1>10, <2>1, <2>2, Unmoved DEF DrainTasks
  <2>3. CASE tasks4Worker # <<>>
    <3> DEFINE t == Head(tasks4Worker)
    <3>1. Resolve(t) /\ tasks4Worker' = Tail(tasks4Worker) /\ UNCHANGED canceled
      BY <1>10, <2>3 DEF DrainTasks
    <3>2. t \in Queued /\ Queued' = Queued \ {t} /\ ListedOnce'
      BY <1>0, <2>3, <3>1, ListLoses
    <3>3. t \in Held /\ Held' = Held \ {t} /\ Apart'
      BY <1>0, <2>1, <3>2 DEF Held, Apart
    <3>4. QED BY <1>0, <2>1, <3>1, <3>2, <3>3, ResolveHolding
  <2>4. QED BY <2>2, <2>3
<1>11. ASSUME NEW t \in Tasks, AwakerWoken(t) PROVE Holding'
  <2>1. /\ Queued' = Queued /\ ListedOnce' /\ InHand' = InHand /\ WorkedOnce'
        /\ Pushed' = Pushed
    BY <1>1, <1>2, <1>11 DEF AwakerWoken, Pushed
  <2>2. t \in Awake /\ Awake' = Awake \ {t}
    BY <1>0, <1>11, SMT DEF AwakerWoken, Awake, TypeOK
  <2>3. t \in Held /\ Held' = Held \ {t} /\ Apart'
    BY <1>0, <2>1, <2>2 DEF Held, Apart
  <2>4. QED BY <1>0, <1>11, <2>1, <2>3, ResolveHolding DEF AwakerWoken
<1>12. ASSUME NEW w \in Workers, WorkerTakes(w) PROVE Holding'
  <2> DEFINE t == Head(tasks4Worker)
  <2>1. t \in Tasks /\ t \in Queued /\ Queued' = Queued \ {t} /\ ListedOnce'
    BY <1>0, <1>12, ListLoses DEF WorkerTakes
  <2>2. t \notin InHand
    BY <1>0, <2>1 DEF Apart
  <2>3. InHand' = InHand \cup {t} /\ WorkedOnce'
    BY <1>0, <1>12, <2>1, <2>2, HandGains DEF WorkerTakes, Busy
  <2>4. Awake' = Awake /\ Pushed' = Pushed
    BY <1>3, <1>12 DEF WorkerTakes, Pushed
  <2>5. Held' = Held /\ Apart'
    BY <1>0, <2>1, <2>3, <2>4 DEF Held, Apart
  <2>6. QED BY <1>0, <1>12, <2>1, <2>3, <2>5, Moved DEF WorkerTakes
<1>13. ASSUME NEW w \in Workers, WorkerWakesUp(w) PROVE Holding'
  <2>1. job[w] \in InHand /\ InHand' = InHand \ {job[w]} /\ WorkedOnce'
    BY <1>0, <1>13, HandLoses DEF WorkerWakesUp, Busy
  <2>2. job[w] \in Tasks /\ Awake' = Awake \cup {job[w]}
    <3>1. job[w] \in Tasks
      BY <1>0, <1>13 DEF AtWork, WorkerWakesUp, Busy
    <3>2. QED BY <1>0, <1>13, <3>1, SMT DEF WorkerWakesUp, Awake, TypeOK
  <2>3. Queued' = Queued /\ ListedOnce' /\ Pushed' = Pushed
    BY <1>1, <1>13 DEF WorkerWakesUp, Pushed
  <2>4. Held' = Held /\ Apart'
    BY <1>0, <2>1, <2>2, <2>3 DEF Held, Apart
  <2>5. QED BY <1>0, <1>13, <2>1, <2>3, <2>4, Moved DEF WorkerWakesUp
<1>14. ASSUME NEW w \in Workers, \/ WorkerStops(w) \/ WorkerWaits(w) \/ WorkerStarts(w)
                                 \/ WorkerLooksUp(w) \/ SpuriousWakeup(w)
       PROVE  Holding'
  <2>1. /\ UNCHANGED <<tasks4Worker, job, mpc, pushing, future, canceled, woken, deleted>>
        /\ \A v \in Workers : wpc'[v] \in Busy <=> wpc[v] \in Busy
    BY <1>0, <1>14, SMT DEF WorkerStops, WorkerWaits, WorkerStarts, WorkerLooksUp,
       SpuriousWakeup, TypeOK, Busy
  <2>2. InHand' = InHand /\ WorkedOnce' /\ Pushed' = Pushed
    BY <1>0, <2>1, HandsKept DEF Pushed
  <2>3. QED BY <1>0, <1>1, <1>3, <2>1, <2>2, Unmoved
<1>15. QED
  BY <1>4, <1>5, <1>6, <1>7, <1>8, <1>9, <1>10, <1>11, <1>12, <1>13, <1>14
  DEF Next, Request, MainGoesOn, Awaken, Worker

-----------------------------------------------------------------------------
(* The theorems.                                                           *)

\* In every state of IpResolver, whatever the threads' interleaving: types, one
\* place per task, no wakeup lost.
THEOREM ResolverInvariant == Spec => []RInv
<1>1. ASSUME RInv, [Next]_vars PROVE RInv'
  BY <1>1, TypesKept, HoldingKept, WakeupsKept, AtWorkKept DEF RInv, Holding
<1>2. QED BY <1>1, InitRInv, PTL DEF Spec

\* From execute to its deletion a task is in exactly one of execute's hands, the
\* list, a worker's hands and its awaker's.
THEOREM TaskHasOneHolder == Spec => []OneHolder
BY ResolverInvariant, PTL DEF RInv

\* Task::resolve deletes a task nobody else holds, and not before its requester
\* has an answer.
THEOREM DeletedTaskIsFree == Spec => []NoUseAfterDelete
BY ResolverInvariant, PTL DEF RInv

\* notify_one, called after the mutex is let go, is enough: with work in the
\* list not all workers sleep.
THEOREM WakeupIsNotLost == Spec => []NoLostWakeup
BY ResolverInvariant, PTL DEF RInv

\* A lookup that ends late does not overwrite a cancellation, nor anything an
\* answer.
THEOREM AnswerIsFinal == Spec => AnsweredOnce
<1>1. ASSUME RInv, [Next]_vars
      PROVE  \A t \in Tasks : future'[t] # future[t] => future[t] \in {"none", "pending"}
  <2> TAKE t \in Tasks
  <2> HAVE future'[t] # future[t]
  <2>0. TypeOK
    BY <1>1 DEF RInv
  <2>1. UNCHANGED future \/ (\E u \in Tasks : Execute(u) \/ CancelTask(u)) \/ \E u : Resolve(u)
    BY <1>1, Zenon DEF Next, Request, MainGoesOn, Awaken, Worker, PushTask, NotifyOne,
       SetStop, NotifyAll, JoinWorkers, DrainTasks, AwakerWoken, StartDestroy,
       WorkerStops, WorkerTakes, WorkerWaits, WorkerStarts, WorkerLooksUp, WorkerWakesUp,
       SpuriousWakeup, vars, taskVars
  <2>2. ASSUME NEW u \in Tasks, Execute(u) \/ CancelTask(u)
        PROVE  future[t] \in {"none", "pending"}
    BY <1>1, <2>0, <2>2, Zenon DEF Execute, CancelTask, TypeOK
  <2>3. ASSUME NEW u, Resolve(u) PROVE future[t] = "pending"
    BY <1>1, <2>0, <2>3, Zenon DEF Resolve, TypeOK
  <2>4. QED BY <1>1, <2>1, <2>2, <2>3
<1>2. QED BY <1>1, ResolverInvariant, PTL DEF AnsweredOnce, Spec
=============================================================================
