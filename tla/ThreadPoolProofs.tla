-------------------------- MODULE ThreadPoolProofs --------------------------
(***************************************************************************)
(* Proofs about ThreadPool for any finite set of workers (at least one),   *)
(* any finite set of callers and any set of tasks.                         *)
(***************************************************************************)
EXTENDS ThreadPool, FiniteSetTheorems, SequenceTheorems, TLAPS

(***************************************************************************)
(* A worker leaves only when the pool is stopped and empty, and from then  *)
(* on nothing is queued: that is why the destructor leaves nothing behind. *)
(***************************************************************************)
ExitsWhenDrained ==
  /\ stop <=> destructor # "not called"
  /\ In("exited") # {} => stop /\ tasks = <<>>
  /\ destructor = "joined" => In("exited") = Worker

Inv ==
  /\ TypeOK
  /\ ExitsWhenDrained
  /\ NoneSleepsOnceNotified
  /\ WakeupsCoverTasks
  /\ TaskInOnePlace

(***************************************************************************)
(* What one worker's change of state does to the sets of workers.          *)
(***************************************************************************)
LEMMA InAfter ==
  ASSUME TypeOK, NEW w \in Worker, NEW s \in WorkerState,
         worker' = [worker EXCEPT ![w] = s]
  PROVE  \A t \in WorkerState :
           In(t)' = IF t = s THEN In(t) \cup {w} ELSE In(t) \ {w}
BY DEF TypeOK, In

LEMMA Finite ==
  ASSUME TypeOK
  PROVE  /\ \A t \in WorkerState : IsFiniteSet(In(t)) /\ Cardinality(In(t)) \in Nat
         /\ IsFiniteSet(notifying) /\ Cardinality(notifying) \in Nat
         /\ Len(tasks) \in Nat
<1>1. ASSUME NEW t \in WorkerState
      PROVE  IsFiniteSet(In(t)) /\ Cardinality(In(t)) \in Nat
  <2>1. In(t) \in SUBSET Worker
    BY DEF In
  <2> QED BY <2>1, WorkerAssumption, FS_Subset, FS_CardinalityType
<1>2. IsFiniteSet(notifying) /\ Cardinality(notifying) \in Nat
  <2>1. IsFiniteSet(Thread)
    BY WorkerAssumption, CallerAssumption, FS_Union DEF Thread
  <2>2. notifying \in SUBSET Thread
    BY DEF TypeOK
  <2> QED BY <2>1, <2>2, FS_Subset, FS_CardinalityType
<1>3. Len(tasks) \in Nat
  BY LenProperties DEF TypeOK
<1> QED BY <1>1, <1>2, <1>3

(***************************************************************************)
(* The queue as a set, after the two operations on it.                     *)
(***************************************************************************)
LEMMA ElementsAppend ==
  ASSUME NEW s \in Seq(Task), NEW t \in Task
  PROVE  Elements(Append(s, t)) = Elements(s) \cup {t}
<1>1. /\ Append(s, t) \in Seq(Task) /\ DOMAIN Append(s, t) = 1..(Len(s) + 1)
      /\ \A i \in 1..Len(s) : Append(s, t)[i] = s[i]
      /\ Append(s, t)[Len(s) + 1] = t
      /\ DOMAIN s = 1..Len(s) /\ Len(s) \in Nat
  OBVIOUS
<1>2. Elements(Append(s, t)) \subseteq Elements(s) \cup {t}
  BY <1>1 DEF Elements
<1>3. Elements(s) \subseteq Elements(Append(s, t))
  BY <1>1 DEF Elements
<1>4. t \in Elements(Append(s, t))
  BY <1>1 DEF Elements
<1> QED BY <1>2, <1>3, <1>4

LEMMA ElementsTail ==
  ASSUME NEW s \in Seq(Task), s # <<>>,
         \A i, j \in DOMAIN s : s[i] = s[j] => i = j
  PROVE  /\ Elements(Tail(s)) = Elements(s) \ {Head(s)}
         /\ Head(s) \in Elements(s)
         /\ \A i, j \in DOMAIN Tail(s) : Tail(s)[i] = Tail(s)[j] => i = j
<1>1. /\ Tail(s) \in Seq(Task) /\ Len(Tail(s)) = Len(s) - 1
      /\ \A i \in 1..(Len(s) - 1) : Tail(s)[i] = s[i + 1]
      /\ Head(s) = s[1]
      /\ DOMAIN s = 1..Len(s) /\ DOMAIN Tail(s) = 1..(Len(s) - 1)
      /\ Len(s) \in Nat \ {0}
  BY HeadTailProperties
<1>2. Elements(Tail(s)) \subseteq Elements(s) \ {Head(s)}
  BY <1>1 DEF Elements
<1>3. ASSUME NEW x \in Elements(s), x # Head(s)
      PROVE  x \in Elements(Tail(s))
  <2>1. PICK i \in DOMAIN s : x = s[i]
    BY DEF Elements
  <2>2. i - 1 \in DOMAIN Tail(s) /\ Tail(s)[i - 1] = s[i]
    BY <2>1, <1>1, <1>3
  <2> QED BY <2>1, <2>2 DEF Elements
<1>4. Head(s) \in Elements(s)
  BY <1>1 DEF Elements
<1>5. \A i, j \in DOMAIN Tail(s) : Tail(s)[i] = Tail(s)[j] => i = j
  <2> SUFFICES ASSUME NEW i \in DOMAIN Tail(s), NEW j \in DOMAIN Tail(s),
                      Tail(s)[i] = Tail(s)[j]
               PROVE  i = j
    OBVIOUS
  <2>1. i + 1 \in DOMAIN s /\ j + 1 \in DOMAIN s /\ s[i + 1] = s[j + 1]
    BY <1>1
  <2> QED BY <2>1, <1>1
<1> QED BY <1>2, <1>3, <1>4, <1>5

(***************************************************************************)
(* Init.                                                                   *)
(***************************************************************************)
LEMMA InitInv == Init => Inv
<1> SUFFICES ASSUME Init PROVE Inv
  OBVIOUS
<1>1. TypeOK
  <2>1. tasks \in Seq(Task)
    BY EmptySeq DEF Init
  <2> QED BY <2>1, TaskAssumption DEF Init, TypeOK, WorkerState
<1>2. \A s \in WorkerState : s # "ready" => In(s) = {}
  BY DEF Init, In
<1>3. ExitsWhenDrained /\ NoneSleepsOnceNotified /\ WakeupsCoverTasks
  BY <1>2 DEF Init, ExitsWhenDrained, NoneSleepsOnceNotified, WakeupsCoverTasks, WorkerState
<1>4. TaskInOnePlace
  <2>1. DOMAIN tasks = {}
    <3>1. tasks \in Seq(Task) /\ Len(tasks) = 0
      BY EmptySeq DEF Init
    <3> QED BY <3>1, LenProperties
  <2>2. Elements(tasks) = {}
    BY <2>1 DEF Elements
  <2> QED BY <1>2, <2>1, <2>2 DEF Init, TaskInOnePlace, WorkerState
<1> QED BY <1>1, <1>3, <1>4 DEF Inv

(***************************************************************************)
(* Types.                                                                  *)
(***************************************************************************)
LEMMA TypeStep ==
  ASSUME TypeOK, Next
  PROVE  TypeOK'
<1> USE DEF TypeOK, WorkerState
<1>1. ASSUME NEW th \in Thread, NEW t \in Task, Enqueue(th, t) PROVE TypeOK'
  <2>1. tasks' \in Seq(Task)
    BY <1>1, AppendProperties DEF Enqueue
  <2> QED BY <1>1, <2>1 DEF Enqueue
<1>2. ASSUME NEW th \in Thread, NotifyOne(th) PROVE TypeOK'
  BY <1>2 DEF NotifyOne, In
<1>3. ASSUME NEW w \in Worker, Sleep(w) \/ Wake(w) \/ Exit(w) PROVE TypeOK'
  BY <1>3 DEF Sleep, Wake, Exit
<1>4. ASSUME NEW w \in Worker, Take(w) PROVE TypeOK'
  <2>1. Head(tasks) \in Task /\ Tail(tasks) \in Seq(Task)
    BY <1>4, HeadTailProperties DEF Take
  <2> QED BY <2>1, <1>4, TaskAssumption DEF Take
<1>5. ASSUME NEW w \in Worker, Finish(w) PROVE TypeOK'
  BY <1>5, TaskAssumption DEF Finish
<1>6. ASSUME Stop \/ NotifyAll \/ Join \/ Gone PROVE TypeOK'
  BY <1>6 DEF Stop, NotifyAll, Join, Gone, vars
<1> QED BY <1>1, <1>2, <1>3, <1>4, <1>5, <1>6 DEF Next, WorkerStep

(***************************************************************************)
(* The destructor: who leaves when, and nobody sleeps once notified.       *)
(***************************************************************************)
LEMMA DestructorStep ==
  ASSUME TypeOK, ExitsWhenDrained, NoneSleepsOnceNotified, Next
  PROVE  ExitsWhenDrained' /\ NoneSleepsOnceNotified'
<1> USE DEF ExitsWhenDrained, NoneSleepsOnceNotified
<1>1. ASSUME NEW th \in Thread, NEW t \in Task, Enqueue(th, t)
      PROVE  ExitsWhenDrained' /\ NoneSleepsOnceNotified'
  BY <1>1 DEF Enqueue, In
<1>2. ASSUME NEW th \in Thread, NotifyOne(th)
      PROVE  ExitsWhenDrained' /\ NoneSleepsOnceNotified'
  <2>1. CASE In("asleep") = {}
    BY <1>2, <2>1 DEF NotifyOne, In
  <2>2. ASSUME NEW w \in In("asleep"), worker' = [worker EXCEPT ![w] = "ready"]
        PROVE  ExitsWhenDrained' /\ NoneSleepsOnceNotified'
    BY <1>2, <2>2 DEF NotifyOne, In, TypeOK
  <2> QED BY <1>2, <2>1, <2>2 DEF NotifyOne
<1>3. ASSUME NEW w \in Worker, Sleep(w)
      PROVE  ExitsWhenDrained' /\ NoneSleepsOnceNotified'
  BY <1>3 DEF Sleep, In, TypeOK
<1>5. ASSUME NEW w \in Worker, Wake(w) \/ Finish(w)
      PROVE  ExitsWhenDrained' /\ NoneSleepsOnceNotified'
  <2>1. worker[w] \in {"asleep", "running"} /\ worker' = [worker EXCEPT ![w] = "ready"]
        /\ UNCHANGED <<tasks, stop, destructor>>
    BY <1>5 DEF Wake, Finish
  <2>2. In("exited")' = In("exited") /\ In("asleep")' = In("asleep") \ {w}
    BY <2>1, InAfter DEF WorkerState, In
  <2> QED BY <2>1, <2>2
<1>6. ASSUME NEW w \in Worker, Take(w)
      PROVE  ExitsWhenDrained' /\ NoneSleepsOnceNotified'
  BY <1>6 DEF Take, In, TypeOK
<1>7. ASSUME NEW w \in Worker, Exit(w)
      PROVE  ExitsWhenDrained' /\ NoneSleepsOnceNotified'
  <2>1. worker[w] = "ready" /\ worker' = [worker EXCEPT ![w] = "exited"]
        /\ stop /\ tasks = <<>> /\ UNCHANGED <<tasks, stop, destructor>>
    BY <1>7 DEF Exit
  <2>2. In("exited")' = In("exited") \cup {w} /\ In("asleep")' = In("asleep") \ {w}
    BY <2>1, InAfter DEF WorkerState
  <2> QED BY <2>1, <2>2
<1>4. ASSUME Stop \/ NotifyAll \/ Join \/ Gone
      PROVE  ExitsWhenDrained' /\ NoneSleepsOnceNotified'
  BY <1>4 DEF Stop, NotifyAll, Join, Gone, vars, In, TypeOK
<1> QED BY <1>1, <1>2, <1>3, <1>4, <1>5, <1>6, <1>7 DEF Next, WorkerStep

(***************************************************************************)
(* Wake-ups.  A task comes with a notification; a notification becomes an  *)
(* awake worker; a worker leaves the awake ones with a task or when there  *)
(* is none.                                                                *)
(***************************************************************************)
LEMMA WakeupsStep ==
  ASSUME TypeOK, TypeOK', WakeupsCoverTasks, Next
  PROVE  WakeupsCoverTasks'
<1> DEFINE awake == Cardinality(In("ready"))
           sent == Cardinality(notifying)
<1>a. awake \in Nat /\ sent \in Nat /\ Len(tasks) \in Nat
      /\ IsFiniteSet(In("ready")) /\ IsFiniteSet(notifying)
  BY Finite DEF WorkerState
<1>b. awake' \in Nat /\ sent' \in Nat
  <2>1. In("ready")' \in SUBSET Worker /\ notifying' \in SUBSET Thread
    BY DEF In, TypeOK
  <2>2. IsFiniteSet(Worker) /\ IsFiniteSet(Thread)
    BY WorkerAssumption, CallerAssumption, FS_Union DEF Thread
  <2> QED BY <2>1, <2>2, FS_Subset, FS_CardinalityType
<1>1. ASSUME NEW th \in Thread, NEW t \in Task, Enqueue(th, t)
      PROVE  WakeupsCoverTasks'
  <2>1. sent' = sent + 1
    BY <1>1, <1>a, FS_AddElement DEF Enqueue, MayCall
  <2>2. Len(tasks') = Len(tasks) + 1
    <3>1. tasks \in Seq(Task) /\ tasks' = Append(tasks, t)
      BY <1>1 DEF Enqueue, TypeOK
    <3> QED BY <3>1, AppendProperties
  <2>3. In("ready")' = In("ready") /\ In("asleep")' = In("asleep")
    BY <1>1 DEF Enqueue, In
  <2> QED BY <2>1, <2>2, <2>3, <1>a DEF WakeupsCoverTasks
<1>2. ASSUME NEW th \in Thread, NotifyOne(th)
      PROVE  WakeupsCoverTasks'
  <2>1. sent' = sent - 1
    BY <1>2, <1>a, FS_RemoveElement DEF NotifyOne
  <2>2. CASE In("asleep") = {}
    <3>1. In("asleep")' = {}
      BY <1>2, <2>2 DEF NotifyOne, In
    <3> QED BY <3>1 DEF WakeupsCoverTasks
  <2>3. ASSUME NEW w \in In("asleep"), worker' = [worker EXCEPT ![w] = "ready"]
        PROVE  WakeupsCoverTasks'
    <3>1. w \in Worker /\ w \notin In("ready")
      BY DEF In
    <3>2. In("ready")' = In("ready") \cup {w}
      BY <3>1, <2>3, InAfter DEF WorkerState
    <3>3. awake' = awake + 1
      BY <3>1, <3>2, <1>a, FS_AddElement
    <3> QED BY <3>3, <2>1, <1>a, <1>b, <1>2 DEF WakeupsCoverTasks, NotifyOne
  <2> QED BY <1>2, <2>2, <2>3 DEF NotifyOne
<1>3. ASSUME NEW w \in Worker, Sleep(w) \/ Exit(w)
      PROVE  WakeupsCoverTasks'
  <2>1. Len(tasks') = 0
    BY <1>3 DEF Sleep, Exit
  <2> QED BY <2>1, <1>b DEF WakeupsCoverTasks
<1>4. ASSUME NEW w \in Worker, Take(w)
      PROVE  WakeupsCoverTasks'
  <2>1. Len(tasks') = Len(tasks) - 1
    BY <1>4, HeadTailProperties DEF Take, TypeOK
  <2>2. w \in In("ready") /\ In("ready")' = In("ready") \ {w}
        /\ In("asleep")' = In("asleep") \ {w} /\ w \notin In("asleep")
    <3>1. worker' = [worker EXCEPT ![w] = "running"] /\ worker[w] = "ready"
      BY <1>4 DEF Take
    <3> QED BY <3>1, InAfter DEF WorkerState, In
  <2>3. awake' = awake - 1
    BY <2>2, <1>a, FS_RemoveElement
  <2> QED BY <2>1, <2>2, <2>3, <1>a, <1>4 DEF WakeupsCoverTasks, Take
<1>5. ASSUME NEW w \in Worker, Wake(w) \/ Finish(w)
      PROVE  WakeupsCoverTasks'
  <2>1. worker' = [worker EXCEPT ![w] = "ready"] /\ worker[w] # "ready"
        /\ UNCHANGED <<tasks, notifying>>
    BY <1>5 DEF Wake, Finish
  <2>2. In("ready")' = In("ready") \cup {w} /\ w \notin In("ready")
        /\ In("asleep")' = In("asleep") \ {w}
    BY <2>1, InAfter DEF WorkerState, In
  <2>3. awake' = awake + 1
    BY <2>2, <1>a, FS_AddElement
  <2> QED BY <2>1, <2>2, <2>3, <1>a DEF WakeupsCoverTasks
<1>6. ASSUME NotifyAll
      PROVE  WakeupsCoverTasks'
  BY <1>6 DEF NotifyAll, WakeupsCoverTasks, In, TypeOK
<1>7. ASSUME Stop \/ Join \/ Gone
      PROVE  WakeupsCoverTasks'
  BY <1>7 DEF Stop, Join, Gone, vars, WakeupsCoverTasks, In
<1> QED BY <1>1, <1>2, <1>3, <1>4, <1>5, <1>6, <1>7 DEF Next, WorkerStep

(***************************************************************************)
(* Tasks: a task moves from enqueue to the queue, to a worker, to done.    *)
(***************************************************************************)
LEMMA TasksStep ==
  ASSUME TypeOK, TaskInOnePlace, Next
  PROVE  TaskInOnePlace'
<1> DEFINE held == {running[w] : w \in In("running")}
<1>1. ASSUME NEW th \in Thread, NEW t \in Task, Enqueue(th, t)
      PROVE  TaskInOnePlace'
  <2>1. tasks \in Seq(Task) /\ tasks' = Append(tasks, t) /\ accepted' = accepted \cup {t}
        /\ t \notin accepted /\ UNCHANGED <<worker, running, done>>
    BY <1>1 DEF Enqueue, TypeOK
  <2>2. Elements(tasks') = Elements(tasks) \cup {t}
    BY <2>1, ElementsAppend
  <2>3. \A i, j \in DOMAIN tasks' : tasks'[i] = tasks'[j] => i = j
    <3>1. /\ DOMAIN tasks' = 1..(Len(tasks) + 1) /\ DOMAIN tasks = 1..Len(tasks)
          /\ \A i \in 1..Len(tasks) : tasks'[i] = tasks[i] /\ tasks'[i] # t
          /\ tasks'[Len(tasks) + 1] = t
      BY <2>1, AppendProperties, LenProperties DEF TaskInOnePlace, Elements
    <3> QED BY <3>1, <2>1, LenProperties DEF TaskInOnePlace
  <2>4. In("running")' = In("running")
    BY <2>1 DEF In
  <2> QED BY <2>1, <2>2, <2>3, <2>4 DEF TaskInOnePlace
<1>2. ASSUME NEW w \in Worker, NEW s \in {"ready", "asleep", "exited"},
             worker' = [worker EXCEPT ![w] = s], worker[w] # "running",
             UNCHANGED <<tasks, running, accepted, done>>
      PROVE  TaskInOnePlace'
  <2>1. In("running")' = In("running")
    BY <1>2 DEF In, TypeOK
  <2> QED BY <2>1, <1>2 DEF TaskInOnePlace
<1>3. ASSUME NEW th \in Thread, NotifyOne(th)
      PROVE  TaskInOnePlace'
  <2>1. CASE In("asleep") = {}
    BY <1>3, <2>1 DEF NotifyOne, TaskInOnePlace, In
  <2>2. ASSUME NEW w \in In("asleep"), worker' = [worker EXCEPT ![w] = "ready"]
        PROVE  TaskInOnePlace'
    BY <1>3, <2>2, <1>2 DEF NotifyOne, In
  <2> QED BY <1>3, <2>1, <2>2 DEF NotifyOne
<1>4. ASSUME NEW w \in Worker, Sleep(w) \/ Wake(w) \/ Exit(w)
      PROVE  TaskInOnePlace'
  BY <1>4, <1>2 DEF Sleep, Wake, Exit
<1>5. ASSUME NEW w \in Worker, Take(w)
      PROVE  TaskInOnePlace'
  <2>1. /\ tasks \in Seq(Task) /\ tasks # <<>> /\ tasks' = Tail(tasks)
        /\ worker[w] = "ready" /\ worker' = [worker EXCEPT ![w] = "running"]
        /\ running' = [running EXCEPT ![w] = Head(tasks)]
        /\ UNCHANGED <<accepted, done>>
    BY <1>5 DEF Take, TypeOK
  <2>2. /\ Elements(tasks') = Elements(tasks) \ {Head(tasks)}
        /\ Head(tasks) \in Elements(tasks)
        /\ \A i, j \in DOMAIN tasks' : tasks'[i] = tasks'[j] => i = j
    BY <2>1, ElementsTail DEF TaskInOnePlace
  <2>3. In("running")' = In("running") \cup {w} /\ w \notin In("running")
    BY <2>1, InAfter DEF In, WorkerState
  <2>4. running'[w] = Head(tasks) /\ \A v \in In("running") : running'[v] = running[v]
    BY <2>1, <2>3 DEF TypeOK, In
  <2>5. held' = held \cup {Head(tasks)}
    BY <2>3, <2>4
  <2> QED BY <2>1, <2>2, <2>3, <2>4, <2>5 DEF TaskInOnePlace
<1>6. ASSUME NEW w \in Worker, Finish(w)
      PROVE  TaskInOnePlace'
  <2>1. /\ worker[w] = "running" /\ worker' = [worker EXCEPT ![w] = "ready"]
        /\ running' = [running EXCEPT ![w] = NoTask]
        /\ done' = done \cup {running[w]}
        /\ UNCHANGED <<tasks, accepted>>
    BY <1>6 DEF Finish
  <2>2. In("running")' = In("running") \ {w} /\ w \in In("running")
    BY <2>1, InAfter DEF In, WorkerState
  <2>3. \A v \in In("running") \ {w} : running'[v] = running[v]
    BY <2>1 DEF TypeOK, In
  <2>4. held = held' \cup {running[w]}
    BY <2>2, <2>3
  <2> QED BY <2>1, <2>2, <2>3, <2>4 DEF TaskInOnePlace
<1>7. ASSUME Stop \/ NotifyAll \/ Join \/ Gone
      PROVE  TaskInOnePlace'
  <2>1. UNCHANGED <<tasks, running, accepted, done>> /\ In("running")' = In("running")
    BY <1>7 DEF Stop, NotifyAll, Join, Gone, vars, In
  <2> QED BY <2>1 DEF TaskInOnePlace
<1> QED BY <1>1, <1>3, <1>4, <1>5, <1>6, <1>7 DEF Next, WorkerStep

LEMMA AlwaysInv == Spec => []Inv
<1>1. Inv /\ Next => Inv'
  BY TypeStep, DestructorStep, WakeupsStep, TasksStep DEF Inv
<1>2. Inv /\ UNCHANGED vars => Inv'
  <2> SUFFICES ASSUME Inv, UNCHANGED vars PROVE Inv'
    OBVIOUS
  <2>1. TypeOK'
    BY DEF Inv, vars, TypeOK
  <2>2. \A s \in WorkerState : In(s)' = In(s)
    BY DEF vars, In
  <2>3. ExitsWhenDrained' /\ NoneSleepsOnceNotified' /\ WakeupsCoverTasks'
    BY <2>2 DEF Inv, vars, WorkerState, ExitsWhenDrained, NoneSleepsOnceNotified,
         WakeupsCoverTasks
  <2>4. TaskInOnePlace'
    BY <2>2 DEF Inv, vars, WorkerState, TaskInOnePlace
  <2> QED BY <2>1, <2>3, <2>4 DEF Inv
<1> QED BY <1>1, <1>2, InitInv, PTL DEF Spec

(***************************************************************************)
(* No worker pops an empty queue, and every variable keeps its type.       *)
(***************************************************************************)
THEOREM PoolTypeCorrect == Spec => []TypeOK
<1>1. Inv => TypeOK
  BY DEF Inv
<1> QED BY <1>1, AlwaysInv, PTL

(***************************************************************************)
(* No wake-up is missed: queued tasks are covered by awake workers and     *)
(* notifications under way as long as anybody sleeps.                      *)
(***************************************************************************)
THEOREM WakeupsCorrect == Spec => []WakeupsCoverTasks
<1>1. Inv => WakeupsCoverTasks
  BY DEF Inv
<1> QED BY <1>1, AlwaysInv, PTL

(***************************************************************************)
(* After the destructor's notify_all no worker sleeps.                     *)
(***************************************************************************)
THEOREM ShutdownWakesAll == Spec => []NoneSleepsOnceNotified
<1>1. Inv => NoneSleepsOnceNotified
  BY DEF Inv
<1> QED BY <1>1, AlwaysInv, PTL

(***************************************************************************)
(* Each accepted task runs once at most, and has run when the destructor   *)
(* returns.                                                                *)
(***************************************************************************)
THEOREM NothingLost == Spec => []EachTaskRunsOnce
<1>1. Inv => EachTaskRunsOnce
  <2> SUFFICES ASSUME Inv, destructor = "joined" PROVE done = accepted
    BY DEF Inv, EachTaskRunsOnce
  <2>1. In("exited") = Worker /\ In("running") = {}
    BY DEF Inv, ExitsWhenDrained, In
  <2>2. tasks = <<>>
    BY <2>1, WorkerAssumption DEF Inv, ExitsWhenDrained
  <2>3. Elements(tasks) = {}
    <3>1. tasks \in Seq(Task) /\ Len(tasks) = 0
      BY <2>2, EmptySeq
    <3> QED BY <3>1, LenProperties DEF Elements
  <2> QED BY <2>1, <2>3 DEF Inv, TaskInOnePlace
<1> QED BY <1>1, AlwaysInv, PTL

(***************************************************************************)
(* The pool implements Executor.  What Executor sees of a step:            *)
(***************************************************************************)
Held == {running[w] : w \in In("running")}

PoolPhase == IF destructor = "joined" THEN "gone" ELSE IF stop THEN "closed" ELSE "open"

\* Steps that Executor does not see.
LEMMA QuietPool ==
  ASSUME UNCHANGED <<tasks, running, done, stop, destructor>>, In("running")' = In("running")
  PROVE  UNCHANGED <<tasks, Held, done, PoolPhase>>
BY DEF Held, PoolPhase

\* As many tasks are held as workers run, at most; a worker that takes one is free.
LEMMA RoomForOne ==
  ASSUME TypeOK, NEW w \in Worker, w \notin In("running")
  PROVE  Cardinality(Held) < Cardinality(Worker)
<1> DEFINE busy == In("running")
           f == [v \in busy |-> running[v]]
<1>1. IsFiniteSet(Worker) /\ Cardinality(Worker) \in Nat
  BY WorkerAssumption, FS_CardinalityType
<1>2. busy \in SUBSET (Worker \ {w})
  BY DEF In
<1>3. IsFiniteSet(Worker \ {w}) /\ Cardinality(Worker \ {w}) = Cardinality(Worker) - 1
  BY <1>1, FS_RemoveElement
<1>4. IsFiniteSet(busy) /\ Cardinality(busy) <= Cardinality(Worker) - 1
      /\ Cardinality(busy) \in Nat
  BY <1>2, <1>3, FS_Subset, FS_CardinalityType
<1>5. f \in Surjection(busy, Held)
  BY DEF Surjection, Held
<1> HIDE DEF busy, f
<1>6. IsFiniteSet(Held) /\ Cardinality(Held) <= Cardinality(busy)
  BY <1>4, <1>5, FS_Surjection
<1>7. Cardinality(Held) \in Nat
  BY <1>6, FS_CardinalityType
<1> QED BY <1>1, <1>4, <1>6, <1>7

LEMMA PoolInit == Init => Exec!Init
<1> SUFFICES ASSUME Init PROVE Exec!Init
  OBVIOUS
<1>1. Held = {}
  BY DEF Init, In, Held
<1> QED BY <1>1 DEF Init, Exec!Init, Held

LEMMA PoolStep ==
  Inv /\ [Next]_vars => [Exec!Next]_<<tasks, Held, done, PoolPhase>>
<1> SUFFICES ASSUME Inv, [Next]_vars
             PROVE  Exec!Next \/ UNCHANGED <<tasks, Held, done, PoolPhase>>
  OBVIOUS
<1>a. TypeOK /\ ExitsWhenDrained /\ TaskInOnePlace
  BY DEF Inv
<1>1. ASSUME NEW th \in Thread, NEW t \in Task, Enqueue(th, t) PROVE Exec!Next
  <2>1. /\ tasks' = Append(tasks, t) /\ ~stop /\ t \notin accepted
        /\ UNCHANGED <<worker, running, done, stop, destructor>>
    BY <1>1 DEF Enqueue
  <2>2. Held' = Held /\ PoolPhase = "open" /\ PoolPhase' = "open"
    BY <2>1, <1>a DEF Held, In, PoolPhase, ExitsWhenDrained
  <2>3. t \notin {tasks[i] : i \in DOMAIN tasks} \cup Held \cup done
    BY <2>1, <1>a DEF TaskInOnePlace, Elements, Held
  <2>4. Exec!Accept(t)
    BY <2>1, <2>2, <2>3 DEF Exec!Accept, Exec!New, Held, PoolPhase
  <2> QED BY <2>4 DEF Exec!Next
<1>2. ASSUME NEW w \in Worker, Take(w) PROVE Exec!Next
  <2>1. /\ tasks # <<>> /\ tasks' = Tail(tasks)
        /\ worker[w] = "ready" /\ worker' = [worker EXCEPT ![w] = "running"]
        /\ running' = [running EXCEPT ![w] = Head(tasks)]
        /\ UNCHANGED <<done, stop, destructor>>
    BY <1>2 DEF Take
  <2>2. In("running")' = In("running") \cup {w} /\ w \notin In("running")
    BY <2>1, <1>a, InAfter DEF In, WorkerState
  <2>3. running'[w] = Head(tasks) /\ \A v \in In("running") : running'[v] = running[v]
    BY <2>1, <2>2, <1>a DEF TypeOK, In
  <2>4. Held' = Held \cup {Head(tasks)}
    BY <2>2, <2>3 DEF Held
  <2>5. Cardinality(Held) < Cardinality(Worker)
    BY <2>2, <1>a, RoomForOne
  <2>6. PoolPhase' = PoolPhase /\ PoolPhase # "gone"
    <3>1. destructor # "joined"
      BY <2>1, <1>a DEF ExitsWhenDrained, In
    <3> QED BY <3>1, <2>1 DEF PoolPhase
  <2>7. Exec!Cardinality(Held) = Cardinality(Held)
    BY Zenon DEF Exec!Cardinality, Cardinality
  <2>8. Exec!StartOldest
    BY <2>1, <2>4, <2>5, <2>6, <2>7 DEF Exec!StartOldest, Held, PoolPhase
  <2> QED BY <2>8 DEF Exec!Next
<1>3. ASSUME NEW w \in Worker, Finish(w) PROVE Exec!Next
  <2>1. PICK t \in Task : t = running[w]
    BY <1>3, <1>a DEF Finish, TypeOK
  <2>2. /\ worker[w] = "running" /\ worker' = [worker EXCEPT ![w] = "ready"]
        /\ running' = [running EXCEPT ![w] = NoTask]
        /\ done' = done \cup {t}
        /\ UNCHANGED <<tasks, stop, destructor>>
    BY <1>3, <2>1 DEF Finish
  <2>3. In("running")' = In("running") \ {w} /\ w \in In("running")
    BY <2>2, <1>a, InAfter DEF In, WorkerState
  <2>4. \A v \in In("running") \ {w} : running'[v] = running[v] /\ running[v] # t
    BY <2>1, <2>2, <2>3, <1>a DEF TypeOK, In, TaskInOnePlace
  <2>5. Held' = Held \ {t} /\ t \in Held
    BY <2>1, <2>3, <2>4 DEF Held
  <2>6. PoolPhase' = PoolPhase /\ PoolPhase # "gone"
    <3>1. destructor # "joined"
      BY <2>2, <1>a DEF ExitsWhenDrained, In
    <3> QED BY <3>1, <2>2 DEF PoolPhase
  <2>7. Exec!End(t)
    BY <2>2, <2>5, <2>6 DEF Exec!End, Held, PoolPhase
  <2> QED BY <2>7 DEF Exec!Next
<1>4. ASSUME NEW th \in Thread, NotifyOne(th)
      PROVE  UNCHANGED <<tasks, Held, done, PoolPhase>>
  <2>1. In("running")' = In("running")
    BY <1>4, <1>a DEF NotifyOne, In, TypeOK
  <2> QED BY <2>1, <1>4, QuietPool DEF NotifyOne
<1>5. ASSUME NEW w \in Worker, Sleep(w) \/ Wake(w) \/ Exit(w)
      PROVE  UNCHANGED <<tasks, Held, done, PoolPhase>>
  <2>1. In("running")' = In("running")
    BY <1>5, <1>a DEF Sleep, Wake, Exit, In, TypeOK
  <2> QED BY <2>1, <1>5, QuietPool DEF Sleep, Wake, Exit
<1>6. CASE NotifyAll
  <2>1. /\ UNCHANGED <<tasks, running, done, stop>>
        /\ destructor = "stopped" /\ destructor' = "joining"
        /\ worker' = [w \in Worker |-> IF worker[w] = "asleep" THEN "ready" ELSE worker[w]]
    BY <1>6 DEF NotifyAll
  <2>2. In("running")' = In("running")
    BY <2>1 DEF In
  <2>3. PoolPhase' = PoolPhase
    BY <2>1 DEF PoolPhase
  <2> QED BY <2>1, <2>2, <2>3 DEF Held
<1>7. CASE Gone \/ UNCHANGED vars
  BY <1>7 DEF Gone, vars, Held, In, PoolPhase
<1>8. CASE Stop
  <2>1. /\ UNCHANGED <<tasks, Held, done>>
        /\ PoolPhase = "open" /\ PoolPhase' = "closed"
    BY <1>8, <1>a DEF Stop, Held, In, PoolPhase, ExitsWhenDrained
  <2>2. Exec!Close
    BY <2>1 DEF Exec!Close, Held, PoolPhase
  <2> QED BY <2>2 DEF Exec!Next
<1>9. CASE Join
  <2>1. In("exited") = Worker /\ destructor = "joining" /\ destructor' = "joined"
        /\ UNCHANGED <<tasks, worker, running, done, stop>>
    BY <1>9 DEF Join
  <2>2. tasks = <<>> /\ stop
    BY <2>1, <1>a, WorkerAssumption DEF ExitsWhenDrained
  <2>3. Held = {} /\ Held' = {}
    BY <2>1 DEF Held, In
  <2>4. PoolPhase = "closed" /\ PoolPhase' = "gone"
    BY <2>1, <2>2 DEF PoolPhase
  <2>5. Exec!Leave
    BY <2>1, <2>2, <2>3, <2>4 DEF Exec!Leave, Held, PoolPhase
  <2> QED BY <2>5 DEF Exec!Next
<1> QED BY <1>1, <1>2, <1>3, <1>4, <1>5, <1>6, <1>7, <1>8, <1>9
   DEF Next, WorkerStep

(***************************************************************************)
(* The pool implements Executor: whatever its threads, its lock and its    *)
(* condition variable do, accepted tasks start in order, each one once, at *)
(* most one per worker at a time, and all have run when ~ThreadPool ends.  *)
(***************************************************************************)
THEOREM PoolIsExecutor == Spec => ImplementsExecutor
<1>1. Inv /\ [Next]_vars => [Exec!Next]_(Exec!state)
  BY PoolStep DEF Exec!state, Held, PoolPhase
<1> QED BY <1>1, PoolInit, AlwaysInv, PTL DEF Spec, ImplementsExecutor, Exec!Spec
=============================================================================
