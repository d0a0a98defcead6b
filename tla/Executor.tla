------------------------------ MODULE Executor ------------------------------
(***************************************************************************)
(* What ThreadPool promises to those who call enqueue, threads, locks and  *)
(* wake-ups left out: accepted tasks start in the order in which they were *)
(* accepted, each one once, at most Limit of them run at a time, and the   *)
(* pool goes away only when it has been closed and everything has run.     *)
(***************************************************************************)
EXTENDS Naturals, Sequences, FiniteSets

CONSTANTS Task,
          Limit    \* how many tasks may run at the same time

VARIABLES
  waiting,   \* accepted tasks that have not started, oldest first
  started,   \* tasks that run
  ended,     \* tasks that have run
  phase      \* "open", "closed" (no task is accepted any more) or "gone"

state == <<waiting, started, ended, phase>>

Init ==
  /\ waiting = <<>>
  /\ started = {} /\ ended = {}
  /\ phase = "open"

New(t) == t \notin {waiting[i] : i \in DOMAIN waiting} \cup started \cup ended

Accept(t) ==
  /\ phase = "open"
  /\ New(t)
  /\ waiting' = Append(waiting, t)
  /\ UNCHANGED <<started, ended, phase>>

StartOldest ==
  /\ phase # "gone"
  /\ waiting # <<>>
  /\ Cardinality(started) < Limit
  /\ started' = started \cup {Head(waiting)}
  /\ waiting' = Tail(waiting)
  /\ UNCHANGED <<ended, phase>>

End(t) ==
  /\ phase # "gone"
  /\ t \in started
  /\ started' = started \ {t}
  /\ ended' = ended \cup {t}
  /\ UNCHANGED <<waiting, phase>>

Close ==
  /\ phase = "open"
  /\ phase' = "closed"
  /\ UNCHANGED <<waiting, started, ended>>

Leave ==
  /\ phase = "closed"
  /\ waiting = <<>> /\ started = {}
  /\ phase' = "gone"
  /\ UNCHANGED <<waiting, started, ended>>

Next ==
  \/ \E t \in Task : Accept(t) \/ End(t)
  \/ StartOldest
  \/ Close \/ Leave

Spec == Init /\ [][Next]_state
=============================================================================
