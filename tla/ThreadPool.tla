----------------------------- MODULE ThreadPool -----------------------------
(***************************************************************************)
(* src/common/ThreadPool.h: a queue of tasks, workers that wait for it on  *)
(* a condition variable, and a destructor that drains it.                  *)
(*                                                                         *)
(* queue_mutex is only held for short sections that never wait inside, so  *)
(* each section is one action; condition.wait is a section that ends       *)
(* asleep, and waking up leads back to the same section.  notify_one and   *)
(* notify_all come after the unlock and are actions of their own.          *)
(*                                                                         *)
(* enqueue is called by threads outside the pool and by running tasks (a   *)
(* VWAP task puts itself back).  The owner destroys the pool when no       *)
(* thread outside uses it any more; tasks may still be queued and running. *)
(* A task's exception, the one of enqueue on a stopped pool included, ends *)
(* in its future (packaged_task), so that a task that throws just ends.    *)
(***************************************************************************)
EXTENDS Naturals, Sequences, FiniteSets

CONSTANTS Worker,    \* the pool's threads
          Caller,    \* threads outside the pool
          Task,      \* one element per call of enqueue
          NoTask     \* not a task

ASSUME WorkerAssumption == IsFiniteSet(Worker) /\ Worker # {}
ASSUME CallerAssumption == IsFiniteSet(Caller) /\ Caller \cap Worker = {}
ASSUME TaskAssumption == NoTask \notin Task

VARIABLES
  tasks,       \* the queue
  stop,
  worker,      \* where each worker is: see WorkerState
  running,     \* the task a worker runs
  notifying,   \* threads between the unlock in enqueue and notify_one
  accepted,    \* tasks that enqueue has taken
  done,        \* tasks that have run
  destructor   \* how far ~ThreadPool is

vars == <<tasks, stop, worker, running, notifying, accepted, done, destructor>>

Thread == Worker \cup Caller

WorkerState == {"ready",     \* before the predicate, about to hold the lock
                "asleep",    \* in condition.wait
                "running",   \* in task()
                "exited"}

In(state) == {w \in Worker : worker[w] = state}

Init ==
  /\ tasks = <<>>
  /\ stop = FALSE
  /\ worker = [w \in Worker |-> "ready"]
  /\ running = [w \in Worker |-> NoTask]
  /\ notifying = {}
  /\ accepted = {}
  /\ done = {}
  /\ destructor = "not called"
-----------------------------------------------------------------------------
(***************************************************************************)
(* enqueue, by a thread outside or by a running task.                      *)
(***************************************************************************)
MayCall(th) ==
  /\ th \notin notifying
  /\ IF th \in Worker THEN worker[th] = "running" ELSE destructor = "not called"

\* Wrong variants: only the first task in the queue wakes somebody; none does.
EnqueueNotifyingFirst(th, t) ==
  /\ MayCall(th)
  /\ ~stop
  /\ t \notin accepted
  /\ tasks' = Append(tasks, t)
  /\ accepted' = accepted \cup {t}
  /\ notifying' = IF tasks = <<>> THEN notifying \cup {th} ELSE notifying
  /\ UNCHANGED <<stop, worker, running, done, destructor>>

EnqueueSilently(th, t) ==
  /\ MayCall(th)
  /\ ~stop
  /\ t \notin accepted
  /\ tasks' = Append(tasks, t)
  /\ accepted' = accepted \cup {t}
  /\ UNCHANGED <<stop, worker, running, notifying, done, destructor>>

Enqueue(th, t) ==
  /\ MayCall(th)
  /\ ~stop
  /\ t \notin accepted
  /\ tasks' = Append(tasks, t)
  /\ accepted' = accepted \cup {t}
  /\ notifying' = notifying \cup {th}
  /\ UNCHANGED <<stop, worker, running, done, destructor>>

\* One sleeper wakes, whichever; the notification is lost when none sleeps.
NotifyOne(th) ==
  /\ th \in notifying
  /\ notifying' = notifying \ {th}
  /\ IF In("asleep") = {} THEN UNCHANGED worker
     ELSE \E w \in In("asleep") : worker' = [worker EXCEPT ![w] = "ready"]
  /\ UNCHANGED <<tasks, stop, running, accepted, done, destructor>>
-----------------------------------------------------------------------------
(***************************************************************************)
(* The workers' loop.                                                      *)
(***************************************************************************)
Sleep(w) ==
  /\ worker[w] = "ready"
  /\ ~stop /\ tasks = <<>>
  /\ worker' = [worker EXCEPT ![w] = "asleep"]
  /\ UNCHANGED <<tasks, stop, running, notifying, accepted, done, destructor>>

\* A spurious wake-up.
Wake(w) ==
  /\ worker[w] = "asleep"
  /\ worker' = [worker EXCEPT ![w] = "ready"]
  /\ UNCHANGED <<tasks, stop, running, notifying, accepted, done, destructor>>

\* Wrong variant: a worker that wakes up takes a task without looking.
TakeUnchecked(w) ==
  /\ worker[w] = "ready"
  /\ running' = [running EXCEPT ![w] = IF tasks = <<>> THEN NoTask ELSE Head(tasks)]
  /\ tasks' = IF tasks = <<>> THEN tasks ELSE Tail(tasks)
  /\ worker' = [worker EXCEPT ![w] = "running"]
  /\ UNCHANGED <<stop, notifying, accepted, done, destructor>>

\* Wrong variant: the queue is a stack.
TakeNewest(w) ==
  /\ worker[w] = "ready"
  /\ tasks # <<>>
  /\ running' = [running EXCEPT ![w] = tasks[Len(tasks)]]
  /\ tasks' = SubSeq(tasks, 1, Len(tasks) - 1)
  /\ worker' = [worker EXCEPT ![w] = "running"]
  /\ UNCHANGED <<stop, notifying, accepted, done, destructor>>

Take(w) ==
  /\ worker[w] = "ready"
  /\ tasks # <<>>
  /\ running' = [running EXCEPT ![w] = Head(tasks)]
  /\ tasks' = Tail(tasks)
  /\ worker' = [worker EXCEPT ![w] = "running"]
  /\ UNCHANGED <<stop, notifying, accepted, done, destructor>>

Finish(w) ==
  /\ worker[w] = "running" /\ w \notin notifying
  /\ worker' = [worker EXCEPT ![w] = "ready"]
  /\ running' = [running EXCEPT ![w] = NoTask]
  /\ done' = done \cup {running[w]}
  /\ UNCHANGED <<tasks, stop, notifying, accepted, destructor>>

Exit(w) ==
  /\ worker[w] = "ready"
  /\ stop /\ tasks = <<>>
  /\ worker' = [worker EXCEPT ![w] = "exited"]
  /\ UNCHANGED <<tasks, stop, running, notifying, accepted, done, destructor>>
-----------------------------------------------------------------------------
(***************************************************************************)
(* ~ThreadPool                                                             *)
(***************************************************************************)
Stop ==
  /\ destructor = "not called"
  /\ notifying \cap Caller = {}
  /\ stop' = TRUE
  /\ destructor' = "stopped"
  /\ UNCHANGED <<tasks, worker, running, notifying, accepted, done>>

\* Wrong variant: notify_one instead of notify_all.
NotifyOneOfAll ==
  /\ destructor = "stopped"
  /\ IF In("asleep") = {} THEN UNCHANGED worker
     ELSE \E w \in In("asleep") : worker' = [worker EXCEPT ![w] = "ready"]
  /\ destructor' = "joining"
  /\ UNCHANGED <<tasks, stop, running, notifying, accepted, done>>

NotifyAll ==
  /\ destructor = "stopped"
  /\ worker' = [w \in Worker |-> IF worker[w] = "asleep" THEN "ready" ELSE worker[w]]
  /\ destructor' = "joining"
  /\ UNCHANGED <<tasks, stop, running, notifying, accepted, done>>

Join ==
  /\ destructor = "joining"
  /\ In("exited") = Worker
  /\ destructor' = "joined"
  /\ UNCHANGED <<tasks, stop, worker, running, notifying, accepted, done>>

\* The pool is gone.
Gone == destructor = "joined" /\ UNCHANGED vars
-----------------------------------------------------------------------------
WorkerStep(w) == Sleep(w) \/ Take(w) \/ Exit(w)

Next ==
  \/ \E th \in Thread : (\E t \in Task : Enqueue(th, t)) \/ NotifyOne(th)
  \/ \E w \in Worker : WorkerStep(w) \/ Wake(w) \/ Finish(w)
  \/ Stop \/ NotifyAll \/ Join
  \/ Gone

Spec == Init /\ [][Next]_vars

\* Threads that may run do run, a thread that asks for the lock gets it, and
\* tasks return.  Nothing makes callers call, sleepers wake or the owner stop.
Fairness ==
  /\ \A th \in Thread : WF_vars(NotifyOne(th))
  /\ \A w \in Worker : WF_vars(WorkerStep(w)) /\ WF_vars(Finish(w))
  /\ WF_vars(NotifyAll) /\ WF_vars(Join)

FairSpec == Spec /\ Fairness
-----------------------------------------------------------------------------
(***************************************************************************)
(* Properties                                                              *)
(***************************************************************************)
Elements(s) == {s[i] : i \in DOMAIN s}

\* Every variable has its type, and a worker has a task exactly while it runs:
\* it never pops an empty queue, however it was woken (the wait in the worker
\* loop is a loop over its predicate).
TypeOK ==
  /\ tasks \in Seq(Task)
  /\ stop \in BOOLEAN
  /\ worker \in [Worker -> WorkerState]
  /\ running \in [Worker -> Task \cup {NoTask}]
  /\ \A w \in Worker : worker[w] = "running" <=> running[w] # NoTask
  /\ notifying \subseteq Thread
  /\ accepted \subseteq Task /\ done \subseteq Task
  /\ destructor \in {"not called", "stopped", "joining", "joined"}

\* While a worker sleeps, there are at least as many awake workers and
\* notifications under way as queued tasks: no wake-up of enqueue's notify_one
\* is missed, and no task has to wait for another one to end while a worker sleeps.
WakeupsCoverTasks ==
  In("asleep") # {} =>
    Len(tasks) <= Cardinality(In("ready")) + Cardinality(notifying)

\* Once the destructor has notified, no worker sleeps again: each one ends.
NoneSleepsOnceNotified ==
  destructor \in {"joining", "joined"} => In("asleep") = {}

\* A task that enqueue has accepted is in exactly one place: once in the queue,
\* with one worker, or done.
TaskInOnePlace ==
  /\ accepted = Elements(tasks) \cup {running[w] : w \in In("running")} \cup done
  /\ \A i, j \in DOMAIN tasks : tasks[i] = tasks[j] => i = j
  /\ \A v, w \in In("running") : running[v] = running[w] => v = w
  /\ \A w \in In("running") : running[w] \notin Elements(tasks) \cup done
  /\ Elements(tasks) \cap done = {}

\* No accepted task is run twice, and when the destructor returns each has been
\* run: a stopped pool drains its queue (the worker loop's exit condition).
EachTaskRunsOnce ==
  /\ TaskInOnePlace
  /\ destructor = "joined" => done = accepted

\* The pool is an Executor for its callers: what is accepted starts in order, each
\* task once, at most one task per worker at a time, and the destructor returns
\* only when all of them have run (enqueue, the worker loop and ~ThreadPool).
Exec == INSTANCE Executor WITH
  Limit <- Cardinality(Worker),
  waiting <- tasks,
  started <- {running[w] : w \in In("running")},
  ended <- done,
  phase <- IF destructor = "joined" THEN "gone" ELSE IF stop THEN "closed" ELSE "open"

ImplementsExecutor == Exec!Spec

\* What enqueue has accepted gets run, without help from spurious wake-ups.
AcceptedTasksRun == \A t \in Task : t \in accepted ~> t \in done

\* The destructor returns.
DestructorReturns == destructor = "stopped" ~> destructor = "joined"
=============================================================================
