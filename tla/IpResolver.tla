----------------------------- MODULE IpResolver -----------------------------
(***************************************************************************)
(* IpResolver: names are resolved by getaddrinfo on worker threads.  The   *)
(* event loop's thread (the "main" one) creates a Task per request, pushes *)
(* it on an intrusive LIFO list under a mutex and notifies a worker; the   *)
(* worker looks the name up without the mutex and wakes the main thread    *)
(* through the task's awaker, where the task resolves its promise and      *)
(* deletes itself.                                                         *)
(*                                                                         *)
(* What runs under the mutex is one step: every access to the list and to  *)
(* the stop flag is under it.                                              *)
(***************************************************************************)
EXTENDS Integers, Sequences

CONSTANTS Tasks,     \* requests
          Workers,   \* _workers: the constructor starts one
          NoTask

ASSUME IpResolverAssumption == NoTask \notin Tasks /\ Workers # {}

VARIABLES
    tasks4Worker,  \* the list, first element first
    stopFlag,
    wpc,           \* [Workers -> position in workerProc]
    job,           \* [Workers -> task in hand]
    mpc,           \* position of the main thread
    pushing,       \* the task execute() is about
    future,        \* [Tasks -> what the requester sees]
    canceled,      \* Task::_canceled
    looked,        \* Task::_res and _resCode
    woken,         \* Task::_awaker fired
    deleted        \* Task deleted

vars == <<tasks4Worker, stopFlag, wpc, job, mpc, pushing, future, canceled,
          looked, woken, deleted>>
taskVars == <<future, canceled, looked, woken, deleted>>

Queued == {tasks4Worker[i] : i \in 1..Len(tasks4Worker)}
Busy == {"start", "lookup", "wakeup"}     \* positions in doWorkInThread
InHand == {job[w] : w \in {v \in Workers : wpc[v] \in Busy}}

TypeOK ==
    /\ tasks4Worker \in Seq(Tasks)
    /\ stopFlag \in BOOLEAN
    /\ wpc \in [Workers -> Busy \cup {"lock", "wait", "done"}]
    /\ job \in [Workers -> Tasks \cup {NoTask}]
    /\ mpc \in {"loop", "push", "notify", "stop", "notifyAll", "join", "drain", "gone"}
    /\ pushing \in Tasks \cup {NoTask}
    /\ future \in [Tasks -> {"none", "pending", "value", "exception", "canceled"}]
    /\ canceled \in [Tasks -> BOOLEAN]
    /\ looked \in [Tasks -> {"none", "found", "failed"}]
    /\ woken \in [Tasks -> BOOLEAN]
    /\ deleted \in [Tasks -> BOOLEAN]

Init ==
    /\ tasks4Worker = <<>> /\ stopFlag = FALSE
    /\ wpc = [w \in Workers |-> "lock"]
    /\ job = [w \in Workers |-> NoTask]
    /\ mpc = "loop" /\ pushing = NoTask
    /\ future = [t \in Tasks |-> "none"]
    /\ canceled = [t \in Tasks |-> FALSE]
    /\ looked = [t \in Tasks |-> "none"]
    /\ woken = [t \in Tasks |-> FALSE]
    /\ deleted = [t \in Tasks |-> FALSE]

-----------------------------------------------------------------------------
(* The main thread: execute, cancellation, the awaker, destruction.        *)

\* An empty endpoint is answered at once and makes no task.
Execute(t) ==
    /\ mpc = "loop" /\ future[t] = "none"
    /\ future' = [future EXCEPT ![t] = "pending"]
    /\ pushing' = t
    /\ mpc' = "push"
    /\ UNCHANGED <<tasks4Worker, stopFlag, wpc, job, canceled, looked, woken, deleted>>

\* Faulty variant of PushTask: nobody is notified.
PushSilently ==
    /\ mpc = "push"
    /\ tasks4Worker' = <<pushing>> \o tasks4Worker
    /\ mpc' = "loop"
    /\ UNCHANGED <<stopFlag, wpc, job, pushing, taskVars>>

PushTask ==
    /\ mpc = "push"
    /\ tasks4Worker' = <<pushing>> \o tasks4Worker
    /\ mpc' = "notify"
    /\ UNCHANGED <<stopFlag, wpc, job, pushing, taskVars>>

Waiting == {w \in Workers : wpc[w] = "wait"}

\* Faulty variant of NotifyOne: the notification wakes nobody.
NotifyNone ==
    /\ mpc = "notify"
    /\ mpc' = "loop" /\ pushing' = NoTask
    /\ UNCHANGED <<tasks4Worker, stopFlag, wpc, job, taskVars>>

\* notify_one: one waiting worker, if there is any, goes for the mutex.
NotifyOne ==
    /\ mpc = "notify"
    /\ mpc' = "loop" /\ pushing' = NoTask
    /\ \/ \E w \in Waiting : wpc' = [wpc EXCEPT ![w] = "lock"]
       \/ Waiting = {} /\ wpc' = wpc
    /\ UNCHANGED <<tasks4Worker, stopFlag, job, taskVars>>

\* Faulty variant of CancelTask: a canceled task is deleted at once.
CancelDeletes(t) ==
    /\ mpc \in {"loop", "gone"} /\ future[t] = "pending"
    /\ future' = [future EXCEPT ![t] = "canceled"]
    /\ canceled' = [canceled EXCEPT ![t] = TRUE]
    /\ deleted' = [deleted EXCEPT ![t] = TRUE]
    /\ UNCHANGED <<tasks4Worker, stopFlag, wpc, job, mpc, pushing, looked, woken>>

\* The requester cancels its future.
CancelTask(t) ==
    /\ mpc \in {"loop", "gone"} /\ future[t] = "pending"
    /\ future' = [future EXCEPT ![t] = "canceled"]
    /\ canceled' = [canceled EXCEPT ![t] = TRUE]
    /\ UNCHANGED <<tasks4Worker, stopFlag, wpc, job, mpc, pushing, looked, woken, deleted>>

\* Faulty variant of Resolve: it answers a canceled future.
ResolveAnyway(t) ==
    /\ deleted' = [deleted EXCEPT ![t] = TRUE]
    /\ future' = [future EXCEPT ![t] = IF looked[t] = "found" THEN "value" ELSE "exception"]

\* Task::resolve: it answers unless canceled, and deletes the task.
Resolve(t) ==
    /\ deleted' = [deleted EXCEPT ![t] = TRUE]
    /\ future' = IF canceled[t] \/ future[t] # "pending" THEN future
                 ELSE [future EXCEPT ![t] =
                          IF looked[t] = "found" THEN "value" ELSE "exception"]

AwakerWoken(t) ==
    /\ mpc \in {"loop", "gone"} /\ woken[t]
    /\ woken' = [woken EXCEPT ![t] = FALSE]
    /\ Resolve(t)
    /\ UNCHANGED <<tasks4Worker, stopFlag, wpc, job, mpc, pushing, canceled, looked>>

\* ~IpResolver.
StartDestroy ==
    /\ mpc = "loop" /\ mpc' = "stop"
    /\ UNCHANGED <<tasks4Worker, stopFlag, wpc, job, pushing, taskVars>>

SetStop ==
    /\ mpc = "stop" /\ mpc' = "notifyAll"
    /\ stopFlag' = TRUE
    /\ UNCHANGED <<tasks4Worker, wpc, job, pushing, taskVars>>

\* Faulty variant of NotifyAll: the workers are not notified of the stop.
NotifyAllSkipped ==
    /\ mpc = "notifyAll" /\ mpc' = "join"
    /\ UNCHANGED <<tasks4Worker, stopFlag, wpc, job, pushing, taskVars>>

NotifyAll ==
    /\ mpc = "notifyAll" /\ mpc' = "join"
    /\ wpc' = [w \in Workers |-> IF wpc[w] = "wait" THEN "lock" ELSE wpc[w]]
    /\ UNCHANGED <<tasks4Worker, stopFlag, job, pushing, taskVars>>

JoinWorkers ==
    /\ mpc = "join" /\ mpc' = "drain"
    /\ \A w \in Workers : wpc[w] = "done"
    /\ UNCHANGED <<tasks4Worker, stopFlag, wpc, job, pushing, taskVars>>

\* Only the first task of the list is taken off and resolved.
DrainTasks ==
    /\ mpc = "drain" /\ mpc' = "gone"
    /\ IF tasks4Worker = <<>>
       THEN UNCHANGED <<tasks4Worker, future, deleted>>
       ELSE /\ tasks4Worker' = Tail(tasks4Worker)
            /\ Resolve(Head(tasks4Worker))
    /\ UNCHANGED <<stopFlag, wpc, job, pushing, canceled, looked, woken>>

-----------------------------------------------------------------------------
(* workerProc and Task::doWorkInThread.                                    *)

WorkerStops(w) ==
    /\ wpc[w] = "lock" /\ stopFlag
    /\ wpc' = [wpc EXCEPT ![w] = "done"]
    /\ UNCHANGED <<tasks4Worker, stopFlag, job, mpc, pushing, taskVars>>

\* Faulty variant of WorkerTakes: the task stays in the list.
WorkerLeavesTask(w) ==
    /\ wpc[w] = "lock" /\ ~stopFlag /\ tasks4Worker # <<>>
    /\ job' = [job EXCEPT ![w] = Head(tasks4Worker)]
    /\ wpc' = [wpc EXCEPT ![w] = "start"]
    /\ UNCHANGED <<tasks4Worker, stopFlag, mpc, pushing, taskVars>>

WorkerTakes(w) ==
    /\ wpc[w] = "lock" /\ ~stopFlag /\ tasks4Worker # <<>>
    /\ job' = [job EXCEPT ![w] = Head(tasks4Worker)]
    /\ tasks4Worker' = Tail(tasks4Worker)
    /\ wpc' = [wpc EXCEPT ![w] = "start"]
    /\ UNCHANGED <<stopFlag, mpc, pushing, taskVars>>

WorkerWaits(w) ==
    /\ wpc[w] = "lock" /\ ~stopFlag /\ tasks4Worker = <<>>
    /\ wpc' = [wpc EXCEPT ![w] = "wait"]
    /\ UNCHANGED <<tasks4Worker, stopFlag, job, mpc, pushing, taskVars>>

\* A condition variable may wake its waiter for no reason.
SpuriousWakeup(w) ==
    /\ wpc[w] = "wait"
    /\ wpc' = [wpc EXCEPT ![w] = "lock"]
    /\ UNCHANGED <<tasks4Worker, stopFlag, job, mpc, pushing, taskVars>>

\* A task canceled by now is not looked up.
WorkerStarts(w) ==
    /\ wpc[w] = "start"
    /\ wpc' = [wpc EXCEPT ![w] = IF canceled[job[w]] THEN "wakeup" ELSE "lookup"]
    /\ UNCHANGED <<tasks4Worker, stopFlag, job, mpc, pushing, taskVars>>

WorkerLooksUp(w) ==
    /\ wpc[w] = "lookup"
    /\ \E r \in {"found", "failed"} : looked' = [looked EXCEPT ![job[w]] = r]
    /\ wpc' = [wpc EXCEPT ![w] = "wakeup"]
    /\ UNCHANGED <<tasks4Worker, stopFlag, job, mpc, pushing, future, canceled, woken,
                   deleted>>

WorkerWakesUp(w) ==
    /\ wpc[w] = "wakeup"
    /\ woken' = [woken EXCEPT ![job[w]] = TRUE]
    /\ wpc' = [wpc EXCEPT ![w] = "lock"]
    /\ job' = [job EXCEPT ![w] = NoTask]
    /\ UNCHANGED <<tasks4Worker, stopFlag, mpc, pushing, future, canceled, looked, deleted>>

-----------------------------------------------------------------------------
Request == \E t \in Tasks : Execute(t) \/ CancelTask(t)
MainGoesOn == PushTask \/ NotifyOne \/ SetStop \/ NotifyAll \/ JoinWorkers \/ DrainTasks
Awaken == \E t \in Tasks : AwakerWoken(t)
Worker(w) == \/ WorkerStops(w) \/ WorkerTakes(w) \/ WorkerWaits(w)
             \/ WorkerStarts(w) \/ WorkerLooksUp(w) \/ WorkerWakesUp(w)

Next == \/ Request \/ MainGoesOn \/ Awaken \/ StartDestroy
        \/ \E w \in Workers : Worker(w) \/ SpuriousWakeup(w)

\* Threads are scheduled, getaddrinfo returns and the event loop goes on;
\* nobody has to request, cancel or destroy, and no spurious wakeup is owed.
Fairness ==
    /\ WF_vars(MainGoesOn)
    /\ \A t \in Tasks : SF_vars(AwakerWoken(t))
    /\ \A w \in Workers : WF_vars(Worker(w))

Spec == Init /\ [][Next]_vars
FairSpec == Spec /\ Fairness

-----------------------------------------------------------------------------
(* Safety.                                                                 *)

\* The task is in the list once at most, or in the hands of one worker, or with
\* its awaker, or about to be pushed.
Pushed == IF mpc = "push" THEN {pushing} ELSE {}
Awake == {t \in Tasks : woken[t]}
Held == Pushed \cup Queued \cup InHand \cup Awake

ListedOnce ==
    \A i, j \in 1..Len(tasks4Worker) : i # j => tasks4Worker[i] # tasks4Worker[j]
WorkedOnce ==
    \A v, w \in Workers : v # w /\ wpc[v] \in Busy /\ wpc[w] \in Busy => job[v] # job[w]
Apart ==
    /\ Pushed \cap (Queued \cup InHand \cup Awake) = {}
    /\ Queued \cap (InHand \cup Awake) = {} /\ InHand \cap Awake = {}

\* From execute to its deletion a task, passed around by two threads, is in
\* exactly one place: none is lost on the way and none is in two.
OneHolder ==
    /\ ListedOnce /\ WorkedOnce /\ Apart
    /\ \A t \in Tasks : future[t] # "none" /\ ~deleted[t] => t \in Held

\* A deleted task is in nobody's hands, though a cancellation may come at any
\* moment before, and whoever waits for it has an answer.
NoUseAfterDelete ==
    \A t \in Tasks : deleted[t] => t \notin Held /\ future[t] \notin {"none", "pending"}

\* No lost wakeup: with work queued and nobody told to stop, not all workers
\* sleep, unless a notification is about to be sent.
NoLostWakeup ==
    tasks4Worker # <<>> /\ ~stopFlag /\ Waiting = Workers => mpc = "notify"

\* A future changes only from none to pending and from there to its answer: a
\* late lookup never overwrites a cancellation.
AnsweredOnce ==
    [][\A t \in Tasks : future'[t] # future[t] => future[t] \in {"none", "pending"}]_vars

\* What these rest on: nobody holds a task that was not requested, and only its
\* requester cancels it.
Requested ==
    /\ \A t \in Tasks : canceled[t] => future[t] = "canceled"
    /\ \A t \in Held : t \in Tasks /\ future[t] # "none"

\* A worker at work has a task, and the stop flag is up from the second step of
\* the destructor on.
AtWork ==
    /\ \A w \in Workers : wpc[w] \in Busy => job[w] \in Tasks
    /\ stopFlag <=> mpc \in {"notifyAll", "join", "drain", "gone"}

RInv == TypeOK /\ OneHolder /\ NoUseAfterDelete /\ NoLostWakeup /\ Requested /\ AtWork

\* "cancel all" (the comment of the destructor): when the resolver is gone, no
\* request waits in its list.
CancelsAll == mpc = "gone" => tasks4Worker = <<>>

-----------------------------------------------------------------------------
(* Liveness.                                                               *)

\* Every request is answered unless the resolver is destroyed first.
Answered == \A t \in Tasks : future[t] = "pending" ~> future[t] # "pending" \/ mpc = "gone"

\* Destruction ends: no worker sleeps through the stop flag.
DestroyEnds == mpc = "stop" ~> mpc = "gone"
=============================================================================
