----------------------------- MODULE MCThreads -----------------------------
(***************************************************************************)
(* Threads on small instances: the idle thread and a few slots for created *)
(* threads, one `mutex` and conditions of the client that all use it.      *)
(***************************************************************************)
EXTENDS Threads, TLC

CONSTANT mutex

MCCondMutex == [c \in UserCond |-> mutex]

(* The created threads are interchangeable.  Safety runs only.             *)
Slots == Permutations(Thread \ {Idle})
=============================================================================
