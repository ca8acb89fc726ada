--------------------------- MODULE SerialExecutor ---------------------------
(***************************************************************************)
(* What ThreadPool promises to its callers, without threads, mutex,        *)
(* counter or condition variable: tasks are executed one at a time, in the *)
(* order in which they were pushed, each at most once; once the pool is    *)
(* being destroyed, tasks still pending may be discarded instead, oldest   *)
(* first.                                                                  *)
(***************************************************************************)
EXTENDS Sequences

CONSTANTS Tasks,    \* every task a caller may ever push
          NoTask    \* nothing is being executed

VARIABLES pending,   \* pushed and not started, in push order
          running,   \* the task being executed, or NoTask
          finished,  \* executed tasks, in execution order
          discarded  \* tasks deleted by the destructor without being executed

vars == <<pending, running, finished, discarded>>

Seen(t) == \/ \E i \in DOMAIN pending : pending[i] = t
           \/ running = t
           \/ \E i \in DOMAIN finished : finished[i] = t
           \/ t \in discarded

Init == /\ pending = <<>>
        /\ running = NoTask
        /\ finished = <<>>
        /\ discarded = {}

Submit(t) == /\ ~Seen(t)
             /\ pending' = Append(pending, t)
             /\ UNCHANGED <<running, finished, discarded>>

Start == /\ running = NoTask
         /\ pending # <<>>
         /\ running' = Head(pending)
         /\ pending' = Tail(pending)
         /\ UNCHANGED <<finished, discarded>>

Finish == /\ running # NoTask
          /\ finished' = Append(finished, running)
          /\ running' = NoTask
          /\ UNCHANGED <<pending, discarded>>

Discard == /\ pending # <<>>
           /\ discarded' = discarded \cup {Head(pending)}
           /\ pending' = Tail(pending)
           /\ UNCHANGED <<running, finished>>

Next == \/ \E t \in Tasks : Submit(t)
        \/ Start
        \/ Finish
        \/ Discard

Spec == Init /\ [][Next]_vars
=============================================================================
