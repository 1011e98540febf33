------------------------------ MODULE Monitor ------------------------------
(***************************************************************************)
(* What threads.h promises its callers: monitors (mutexes with condition   *)
(* variables) and threads that finish and are joined.  No scheduler, no    *)
(* interrupts, no lists: a step is the moment at which a call takes effect.*)
(* Threads implements this specification.                                  *)
(***************************************************************************)
CONSTANTS
  Thread,   \* threads; the mutex and the condition of thread t are named t
  Idle,     \* the thread whose waits may end without a notification
  Mutex,    \* all mutexes, those of the threads included
  Cond,     \* all conditions, those of the threads included
  CondMutex \* CondMutex[c]: the mutex of condition c

VARIABLES
  holds,   \* holds[t]: the mutexes t has locked
  waiting, \* waiting[c]: the threads that wait for a notification of c
  over     \* over[t]: t has finished

vars == <<holds, waiting, over>>

Free(m) == \A t \in Thread : m \notin holds[t]
Waits(t) == \E c \in Cond : t \in waiting[c]

Init ==
  /\ holds = [t \in Thread |-> {}]
  /\ waiting = [c \in Cond |-> {}]
  /\ over = [t \in Thread |-> FALSE]

Acquire(t, m) ==
  /\ Free(m)
  /\ ~Waits(t)
  /\ holds' = [holds EXCEPT ![t] = @ \cup {m}]
  /\ UNCHANGED <<waiting, over>>

Release(t, m) ==
  /\ m \in holds[t] \ Thread
  /\ holds' = [holds EXCEPT ![t] = @ \ {m}]
  /\ UNCHANGED <<waiting, over>>

(* Waiting and giving the mutex back are one step: no notification fits    *)
(* between the two.                                                        *)
Wait(t, c) ==
  /\ CondMutex[c] \in holds[t]
  /\ c \in Thread => ~over[c]
  /\ holds' = [holds EXCEPT ![t] = @ \ {CondMutex[c]}]
  /\ waiting' = IF t = Idle THEN waiting
                ELSE [waiting EXCEPT ![c] = @ \cup {t}]
  /\ UNCHANGED over

Notify(c) ==
  /\ \E t \in waiting[c] : waiting' = [waiting EXCEPT ![c] = @ \ {t}]
  /\ UNCHANGED <<holds, over>>

NotifyAll(c) ==
  /\ waiting' = [waiting EXCEPT ![c] = {}]
  /\ UNCHANGED <<holds, over>>

(* A thread finishes under its own lock and wakes its joiner.              *)
Finish(t) ==
  /\ ~over[t]
  /\ holds[t] = {t}
  /\ over' = [over EXCEPT ![t] = TRUE]
  /\ holds' = [holds EXCEPT ![t] = {}]
  /\ IF waiting[t] = {} THEN UNCHANGED waiting
     ELSE \E u \in waiting[t] : waiting' = [waiting EXCEPT ![t] = @ \ {u}]

(* A join returns after the thread has finished.                           *)
Join(t, u) ==
  /\ over[u]
  /\ u \in holds[t]
  /\ holds' = [holds EXCEPT ![t] = @ \ {u}]
  /\ UNCHANGED <<waiting, over>>

(* A slot is used for a new thread only when nobody uses the old one.      *)
Create(u) ==
  /\ Free(u)
  /\ waiting[u] = {}
  /\ holds[u] = {}
  /\ over' = [over EXCEPT ![u] = FALSE]
  /\ UNCHANGED <<holds, waiting>>

Next ==
  \/ \E t \in Thread, m \in Mutex : Acquire(t, m) \/ Release(t, m)
  \/ \E t \in Thread, c \in Cond : Wait(t, c)
  \/ \E c \in Cond : Notify(c) \/ NotifyAll(c)
  \/ \E t \in Thread : Finish(t) \/ Create(t)
  \/ \E t, u \in Thread : Join(t, u)

Spec == Init /\ [][Next]_vars
=============================================================================
