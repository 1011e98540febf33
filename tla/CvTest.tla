------------------------------- MODULE CvTest -------------------------------
(***************************************************************************)
(* The self-tests as main() runs them: test_threads, then                  *)
(* test_condition_variable of test.c, which creates a waiter, yields once, *)
(* creates a setter and joins both.  The mutex `cs` and the condition `cv` *)
(* of struct test_cv_data are the client's mutex and condition.            *)
(***************************************************************************)
EXTENDS ThreadsTest

CONSTANTS
  cs,    \* data.cs
  cv,    \* data.cv
  YIELDS \* how often the setter yields while it computes (20 in the code)

ASSUME TestAssumption ==
  /\ cs \in UserMutex /\ cv \in UserCond /\ CondMutex[cv] = cs
  /\ YIELDS \in Nat

VARIABLES
  is_set,  \* data.is_set
  tooSlow, \* the waiter halted the kernel with "Too slow..."
  yields,  \* what is left of the setter's yields
  waiter, setter \* test_condition_variable's variables (Idle: not assigned)

cvTest == <<is_set, tooSlow, yields, waiter, setter>>
test == <<line, threadsTest, cvTest>>
allVars == <<vars, test>>

TestInit ==
  /\ ThreadsTestInit
  /\ is_set = FALSE
  /\ tooSlow = FALSE
  /\ yields = YIELDS
  /\ waiter = Idle
  /\ setter = Idle

----------------------------------------------------------------------------
(* test_condition_variable.                                                *)

MainThreadsTested ==
  /\ Statement("return", "main_create_waiter")
  /\ current = Idle
  /\ UNCHANGED <<vars, threadsTest, cvTest>>

MainCreateWaiter ==
  /\ Statement("main_create_waiter", "main_yield")
  /\ ThreadCreate
  /\ UNCHANGED <<threadsTest, cvTest>>

MainYield ==
  /\ Statement("main_yield", "main_create_setter")
  /\ Yield
  /\ UNCHANGED <<threadsTest, cvTest>>

MainCreateSetter ==
  /\ Statement("main_create_setter", "main_join_waiter")
  /\ ThreadCreate
  /\ UNCHANGED <<threadsTest, cvTest>>

MainJoinWaiter ==
  /\ Statement("main_join_waiter", "main_join_setter")
  /\ ThreadJoin(waiter)
  /\ UNCHANGED <<threadsTest, cvTest>>

MainJoinSetter ==
  /\ Statement("main_join_setter", "main_done")
  /\ ThreadJoin(setter)
  /\ UNCHANGED <<threadsTest, cvTest>>

(* The end of thread_create gives the new thread its function.             *)
TestThreadPublished ==
  LET u == target[current]
      isWaiter == line[current] = "main_yield"
  IN /\ line[current] \in {"main_yield", "main_join_waiter"}
     /\ ThreadPublished
     /\ node' = [node EXCEPT ![u] = Other]
     /\ data' = [data EXCEPT ![u] = 0]
     /\ line' = [line EXCEPT ![u] = IF isWaiter THEN "waiter_lock" ELSE "setter_lock"]
     /\ waiter' = IF isWaiter THEN u ELSE waiter
     /\ setter' = IF isWaiter THEN setter ELSE u
     /\ UNCHANGED <<kids, got, is_set, tooSlow, yields>>

----------------------------------------------------------------------------
(* test_cv_waiter.                                                         *)

WaiterLock ==
  /\ Statement("waiter_lock", "waiter_test")
  /\ MutexLock(cs)
  /\ UNCHANGED <<threadsTest, cvTest>>

(* if (data->is_set) halt("Too slow...");                                  *)
WaiterTest ==
  /\ Statement("waiter_test", "waiter_loop")
  /\ tooSlow' = is_set
  /\ halted' = is_set
  /\ UNCHANGED <<current, alive, sleep, dead, sync, prog, ticks>>
  /\ UNCHANGED <<threadsTest, is_set, yields, waiter, setter>>

WaiterWait ==
  /\ Statement("waiter_loop", "waiter_loop")
  /\ ~is_set
  /\ CvWait(cv)
  /\ UNCHANGED <<threadsTest, cvTest>>

WaiterUnlock ==
  /\ Statement("waiter_loop", "waiter_return")
  /\ is_set
  /\ MutexUnlock(cs)
  /\ UNCHANGED <<threadsTest, cvTest>>

----------------------------------------------------------------------------
(* test_cv_setter.                                                         *)

SetterLock ==
  /\ Statement("setter_lock", "setter_work")
  /\ MutexLock(cs)
  /\ UNCHANGED <<threadsTest, cvTest>>

SetterYield ==
  /\ Statement("setter_work", "setter_work")
  /\ yields > 0
  /\ yields' = yields - 1
  /\ Yield
  /\ UNCHANGED <<threadsTest, is_set, tooSlow, waiter, setter>>

(* The computed sum is not 0.                                              *)
SetterSet ==
  /\ Statement("setter_work", "setter_notify")
  /\ yields = 0
  /\ is_set' = TRUE
  /\ UNCHANGED <<vars, threadsTest, tooSlow, yields, waiter, setter>>

(* The setter forgets to notify.                                           *)
FaultSetterNotify ==
  /\ Statement("setter_notify", "setter_unlock")
  /\ UNCHANGED <<vars, threadsTest, cvTest>>

SetterNotify ==
  /\ Statement("setter_notify", "setter_unlock")
  /\ CvNotify(cv)
  /\ UNCHANGED <<threadsTest, cvTest>>

SetterUnlock ==
  /\ Statement("setter_unlock", "setter_return")
  /\ MutexUnlock(cs)
  /\ UNCHANGED <<threadsTest, cvTest>>

(* Both functions return to thread_run.                                    *)
TestThreadReturn ==
  /\ \/ Statement("waiter_return", "none")
     \/ Statement("setter_return", "none")
  /\ ThreadReturn
  /\ UNCHANGED <<threadsTest, cvTest>>

----------------------------------------------------------------------------
TestStep ==
  \/ (NodeStep \/ TakeResult \/ KeepResult) /\ UNCHANGED cvTest
  \/ MainThreadsTested
  \/ MainCreateWaiter \/ MainYield \/ MainCreateSetter
  \/ MainJoinWaiter \/ MainJoinSetter
  \/ WaiterLock \/ WaiterTest \/ WaiterWait \/ WaiterUnlock
  \/ SetterLock \/ SetterYield \/ SetterSet \/ SetterNotify \/ SetterUnlock
  \/ TestThreadReturn
  \/ TestThreadPublished
  \/ /\ \/ LockWait \/ LockTake \/ StackAllocated
        \/ \E u \in Thread : ThreadAllocated(u)
        \/ ThreadStart \/ JoinWait
        \/ Reap \/ JoinFreesStack \/ JoinFreesThread
     /\ UNCHANGED test

TestTick == PitHandler /\ UNCHANGED test

TestNext == TestStep \/ TestTick

(* The CPU executes the current thread, the timer keeps ticking.           *)
TestSpec ==
  /\ TestInit
  /\ [][TestNext]_allVars
  /\ \A t \in Thread : SF_allVars(current = t /\ TestStep)
  /\ SF_allVars(TestTick)

(* The self-tests never hang, and never stop at a wrong number: every      *)
(* thread of the tree is joined with its own result, though slots are used *)
(* again for other threads, and the condition variable test returns with   *)
(* the flag set and both threads freed, or its waiter stops the kernel.    *)
TestEnds ==
  <>( \/ tooSlow
      \/ /\ line[Idle] = "main_done" /\ pc[Idle] = "run"
         /\ is_set
         /\ \A t \in Thread \ {Idle} : pc[t] = "unused")
=============================================================================
