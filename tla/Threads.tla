------------------------------ MODULE Threads ------------------------------
(***************************************************************************)
(* threads.c: the scheduler, mutexes, condition variables, thread_create,  *)
(* thread_run and thread_join of a kernel that runs on one CPU.            *)
(*                                                                         *)
(* Only `current` executes.  Code under hard_lock runs with the interrupt  *)
(* flag clear and is one atomic step up to its next call of schedule();    *)
(* elsewhere the timer interrupt may call schedule() between two steps.    *)
(* pc[t] says where thread t is: "run" is the code of its client, which    *)
(* may make any legal call, the other values are points inside threads.c.  *)
(***************************************************************************)
EXTENDS Naturals, Sequences, FiniteSets, SequencesExt

CONSTANTS
  Thread,     \* the slots of struct thread, the idle thread's included
  Idle,       \* scheduler.idle: the boot thread, which schedule() needs alive
  UserMutex,  \* mutexes of the threads' clients
  UserCond,   \* condition variables of the threads' clients
  CondMutex,  \* CondMutex[c]: the mutex given to cv_init of c
  BuddyLock,  \* buddy_allocator.lock, taken by thread_create and thread_join
  ThreadSlab, \* thread_allocator.lock, taken by thread_create and thread_join
  PIT_TICKS   \* timer interrupts per time slice

(* Operators named Fault... are not part of the specification: each is the*)
(* definition below with a plausible bug, to show which property sees it.  *)

(* The mutex `lock` of thread t is named t, its condition `is_dead` too.   *)
Mutex == UserMutex \cup {BuddyLock, ThreadSlab} \cup Thread
Cond == UserCond \cup Thread
MutexOf(c) == IF c \in UserCond THEN CondMutex[c] ELSE c

ASSUME IdleAssumption == Idle \in Thread
ASSUME TicksAssumption == PIT_TICKS \in Nat \ {0}
ASSUME LockAssumption ==
  /\ BuddyLock # ThreadSlab
  /\ {BuddyLock, ThreadSlab} \cap (UserMutex \cup Thread) = {}
  /\ UserMutex \cap Thread = {}
ASSUME CondAssumption ==
  /\ UserCond \cap Thread = {}
  /\ CondMutex \in [UserCond -> UserMutex]

VARIABLES
  current,  \* scheduler.current
  alive,    \* scheduler.alive: the run queue, head first
  sleep,    \* scheduler.sleep (its order is never observed)
  dead,     \* scheduler.dead (its order is never observed)
  halted,   \* halt() was called
  occupied, \* occupied[m]: m->is_occupied
  lockers,  \* lockers[m]: m->is_locked.threads_head, head first
  waiters,  \* waiters[c]: c->threads_head, head first
  is_over,  \* is_over[t]: t->is_over
  pc,       \* where the thread is
  want,     \* want[t]: the mutex t is locking
  ret,      \* ret[t]: where t goes on when it has locked want[t]
  target,   \* target[t]: the thread t creates or joins (Idle: none)
  held,     \* held[t]: the mutexes t has locked, as its own code knows them
  ticks     \* pit_handler's counter

sched == <<current, alive, sleep, dead, halted>>
sync  == <<occupied, lockers, waiters, held>>
prog  == <<pc, want, ret, target, is_over>>
vars  == <<sched, sync, prog, ticks>>

(* Where the interrupt flag is set, and where hard_lock has cleared it.    *)
Enabled == {"run", "create_stack", "create_slab", "create_page",
            "create_fill", "create_fail", "create_undo", "create",
            "joining", "reap"}
Masked  == {"start", "lock", "exit", "free_stack", "free_thread"}
Absent  == {"unused", "embryo"}
PC      == Enabled \cup Masked \cup Absent \cup {"dead"}

At(label) == ~halted /\ pc[current] = label

----------------------------------------------------------------------------
(* Lists.  cv_wait and cv_notify work on the head of a waiting list.       *)

FaultOthers(q) == q  \* a notified thread stays on the waiting list

First(q)  == IF q = <<>> THEN <<>> ELSE <<Head(q)>>
Others(q) == IF q = <<>> THEN <<>> ELSE Tail(q)

(* list_delete of thread t, when it may be on list q, which has it once.   *)
Without(q, t) ==
  IF \E i \in 1 .. Len(q) : q[i] = t
  THEN RemoveAt(q, CHOOSE i \in 1 .. Len(q) : q[i] = t)
  ELSE q

----------------------------------------------------------------------------
(* The scheduler.                                                          *)

(* A preempted thread goes back to the head of the alive list.             *)
FaultSchedule(state, ready, asleep) ==
  LET queue == IF state = "ALIVE" THEN <<current>> \o ready ELSE ready
  IN /\ sleep' = IF state = "SLEEP" THEN asleep \cup {current} ELSE asleep
     /\ dead'  = IF state = "DEAD" THEN dead \cup {current} ELSE dead
     /\ current' = Head(queue)
     /\ alive' = Tail(queue)
     /\ UNCHANGED halted

(* schedule(state), when the caller's notifications have left `ready` on   *)
(* the alive list and `asleep` on the sleep list.                          *)
Schedule(state, ready, asleep) ==
  LET queue == IF state = "ALIVE" THEN Append(ready, current) ELSE ready
  IN /\ sleep' = IF state = "SLEEP" THEN asleep \cup {current} ELSE asleep
     /\ dead'  = IF state = "DEAD" THEN dead \cup {current} ELSE dead
     /\ IF queue = <<>>
        THEN /\ halted' = TRUE
             /\ alive' = queue
             /\ UNCHANGED current
        ELSE /\ current' = Head(queue)
             /\ alive' = Tail(queue)
             /\ UNCHANGED halted

(* A notified thread is not taken off the sleep list.                      *)
FaultWake(woken) ==
  /\ alive' = woken \o alive
  /\ UNCHANGED <<current, sleep, dead, halted>>

(* __cv_notify of the threads in `woken`: each goes to the head of alive.  *)
Wake(woken) ==
  /\ alive' = woken \o alive
  /\ sleep' = sleep \ ToSet(woken)
  /\ UNCHANGED <<current, dead, halted>>

----------------------------------------------------------------------------
(* Mutexes and condition variables, called by `current`.                   *)

GoTo(label) == pc' = [pc EXCEPT ![current] = label]

(* The call mutex_lock(m): interrupts go off before the first test.        *)
GoLock(m, label) ==
  /\ GoTo("lock")
  /\ want' = [want EXCEPT ![current] = m]
  /\ ret'  = [ret EXCEPT ![current] = label]

(* The writes of mutex_unlock(m) to m; First(lockers[m]) is notified.      *)
Unlock(m) ==
  /\ occupied' = [occupied EXCEPT ![m] = FALSE]
  /\ lockers'  = [lockers EXCEPT ![m] = Others(@)]
  /\ held'     = [held EXCEPT ![current] = @ \ {m}]

(* mutex_unlock notifies nobody.                                           *)
FaultRelease(m) ==
  /\ occupied' = [occupied EXCEPT ![m] = FALSE]
  /\ held' = [held EXCEPT ![current] = @ \ {m}]
  /\ UNCHANGED <<sched, lockers, waiters>>

Release(m) ==
  /\ Unlock(m)
  /\ Wake(First(lockers[m]))
  /\ UNCHANGED waiters

FaultCanSleep == TRUE  \* the idle thread sleeps like any other

(* "idle thread does not sleeps!"                                          *)
CanSleep == current # Idle

NewState == IF CanSleep THEN "SLEEP" ELSE "ALIVE"

(* cv_wait(c), up to its mutex_lock.                                       *)
Wait(c, label) ==
  LET m == MutexOf(c)
      woken == First(lockers[m])
  IN /\ waiters' = IF CanSleep THEN [waiters EXCEPT ![c] = <<current>> \o @]
                               ELSE waiters
     /\ Unlock(m)
     /\ GoLock(m, label)
     /\ Schedule(NewState, woken \o alive, sleep \ ToSet(woken))

(* mutex_lock finds the mutex occupied: cv_wait(&mutex->is_locked).        *)
LockWait ==
  LET m == want[current]
  IN /\ At("lock")
     /\ occupied[m]
     /\ lockers' = IF CanSleep THEN [lockers EXCEPT ![m] = <<current>> \o @]
                               ELSE lockers
     /\ Schedule(NewState, alive, sleep)
     /\ UNCHANGED <<occupied, waiters, held, prog, ticks>>

(* mutex_lock tests is_occupied once, before it waits, and not after.      *)
FaultLockTake ==
  LET m == want[current]
  IN /\ At("lock")
     /\ occupied' = [occupied EXCEPT ![m] = TRUE]
     /\ held' = [held EXCEPT ![current] = @ \cup {m}]
     /\ GoTo(ret[current])
     /\ want' = [want EXCEPT ![current] = BuddyLock]
     /\ ret' = [ret EXCEPT ![current] = "run"]
     /\ UNCHANGED <<sched, lockers, waiters, target, is_over, ticks>>

(* mutex_lock finds the mutex free and returns to its caller (want and ret *)
(* mean nothing outside mutex_lock and go back to their initial values).   *)
LockTake ==
  LET m == want[current]
  IN /\ At("lock")
     /\ ~occupied[m]
     /\ occupied' = [occupied EXCEPT ![m] = TRUE]
     /\ held' = [held EXCEPT ![current] = @ \cup {m}]
     /\ GoTo(ret[current])
     /\ want' = [want EXCEPT ![current] = BuddyLock]
     /\ ret' = [ret EXCEPT ![current] = "run"]
     /\ UNCHANGED <<sched, lockers, waiters, target, is_over, ticks>>

(* The calls of the client.  It locks no mutex twice, unlocks what it has  *)
(* locked, and waits on a condition with the condition's mutex locked.     *)
MutexLock(m) ==
  /\ At("run")
  /\ m \notin held[current]
  /\ GoLock(m, "run")
  /\ UNCHANGED <<sched, sync, target, is_over, ticks>>

MutexUnlock(m) ==
  /\ At("run")
  /\ m \in held[current]
  /\ Release(m)
  /\ UNCHANGED <<prog, ticks>>

CvWait(c) ==
  /\ At("run")
  /\ MutexOf(c) \in held[current]
  /\ Wait(c, "run")
  /\ UNCHANGED <<target, is_over, ticks>>

CvNotify(c) ==
  /\ At("run")
  /\ Wake(First(waiters[c]))
  /\ waiters' = [waiters EXCEPT ![c] = Others(@)]
  /\ UNCHANGED <<occupied, lockers, held, prog, ticks>>

CvNotifyAll(c) ==
  /\ At("run")
  /\ Wake(Reverse(waiters[c]))
  /\ waiters' = [waiters EXCEPT ![c] = <<>>]
  /\ UNCHANGED <<occupied, lockers, held, prog, ticks>>

Yield ==
  /\ At("run")
  /\ Schedule("ALIVE", alive, sleep)
  /\ UNCHANGED <<sync, prog, ticks>>

----------------------------------------------------------------------------
(* thread_create: buddy_alloc of the stack, slab_alloc of the thread (which*)
(* may have to buddy_alloc a page), initialisation.  Each allocation may   *)
(* fail.  What the allocators do inside their locks is not modelled here.  *)

ThreadCreate ==
  /\ At("run")
  /\ GoLock(BuddyLock, "create_stack")
  /\ UNCHANGED <<sched, sync, target, is_over, ticks>>

(* thread_create allocates the thread inside the page allocator's lock.    *)
FaultStackAllocated ==
  /\ At("create_stack")
  /\ GoLock(ThreadSlab, "create_slab")
  /\ UNCHANGED <<sched, sync, target, is_over, ticks>>

StackAllocated ==
  /\ At("create_stack")
  /\ Unlock(BuddyLock)
  /\ Wake(First(lockers[BuddyLock]))
  /\ GoLock(ThreadSlab, "create_slab")
  /\ UNCHANGED <<waiters, target, is_over, ticks>>

(* The error path of buddy_alloc keeps the lock.                           *)
FaultNoStack ==
  /\ At("create_stack")
  /\ GoTo("run")
  /\ UNCHANGED <<sched, sync, want, ret, target, is_over, ticks>>

NoStack ==
  /\ At("create_stack")
  /\ Release(BuddyLock)
  /\ GoTo("run")
  /\ UNCHANGED <<want, ret, target, is_over, ticks>>

(* slab_alloc finds a free slot in a slab it has, or in its new slab.      *)
ThreadAllocated(u) ==
  /\ At("create_slab") \/ At("create_fill")
  /\ pc[u] = "unused"
  /\ Release(ThreadSlab)
  /\ pc' = [pc EXCEPT ![current] = "create", ![u] = "embryo"]
  /\ target' = [target EXCEPT ![current] = u]
  /\ UNCHANGED <<want, ret, is_over, ticks>>

(* slab_alloc has no free slot: it holds its lock and asks for a page.     *)
SlabFull ==
  /\ At("create_slab")
  /\ GoLock(BuddyLock, "create_page")
  /\ UNCHANGED <<sched, sync, target, is_over, ticks>>

PageAllocated(label) ==
  /\ At("create_page")
  /\ label = "create_fill" => \E u \in Thread : pc[u] = "unused"
  /\ Release(BuddyLock)
  /\ GoTo(label)
  /\ UNCHANGED <<want, ret, target, is_over, ticks>>

NoThread ==
  /\ At("create_fail")
  /\ Release(ThreadSlab)
  /\ GoLock(BuddyLock, "create_undo")
  /\ UNCHANGED <<target, is_over, ticks>>

StackFreed ==
  /\ At("create_undo")
  /\ Release(BuddyLock)
  /\ GoTo("run")
  /\ UNCHANGED <<want, ret, target, is_over, ticks>>

(* The new thread is initialised and put at the head of the alive list.    *)
ThreadPublished ==
  LET u == target[current]
  IN /\ At("create")
     /\ occupied' = [occupied EXCEPT ![u] = FALSE]
     /\ lockers' = [lockers EXCEPT ![u] = <<>>]
     /\ waiters' = [waiters EXCEPT ![u] = <<>>]
     /\ is_over' = [is_over EXCEPT ![u] = FALSE]
     /\ pc' = [pc EXCEPT ![u] = "start", ![current] = "run"]
     /\ alive' = <<u>> \o alive
     /\ target' = [target EXCEPT ![current] = Idle]
     /\ UNCHANGED <<current, sleep, dead, halted, held, want, ret, ticks>>

----------------------------------------------------------------------------
(* thread_run: interrupts go on, the client's function runs and returns,   *)
(* then is_over is set and notified under the thread's own lock, with      *)
(* interrupts off from the function's return on.                           *)

ThreadStart ==
  /\ At("start")
  /\ GoTo("run")
  /\ UNCHANGED <<sched, sync, want, ret, target, is_over, ticks>>

ThreadReturn ==
  /\ At("run")
  /\ current # Idle
  /\ held[current] = {}
  /\ GoLock(current, "exit")
  /\ UNCHANGED <<sched, sync, target, is_over, ticks>>

(* thread_run does not notify is_dead.                                     *)
FaultThreadExit ==
  /\ At("exit")
  /\ is_over' = [is_over EXCEPT ![current] = TRUE]
  /\ Unlock(current)
  /\ GoTo("dead")
  /\ Schedule("DEAD", First(lockers[current]) \o alive,
              sleep \ ToSet(First(lockers[current])))
  /\ UNCHANGED <<waiters, want, ret, target, ticks>>

ThreadExit ==
  LET woken == First(lockers[current]) \o First(waiters[current])
  IN /\ At("exit")
     /\ is_over' = [is_over EXCEPT ![current] = TRUE]
     /\ waiters' = [waiters EXCEPT ![current] = Others(@)]
     /\ Unlock(current)
     /\ GoTo("dead")
     /\ Schedule("DEAD", woken \o alive, sleep \ ToSet(woken))
     /\ UNCHANGED <<want, ret, target, ticks>>

----------------------------------------------------------------------------
(* thread_join.  A thread is joined once, by another thread.               *)

Joinable(u) ==
  /\ u \notin {Idle, current}
  /\ pc[u] \notin Absent
  /\ \A t \in Thread : target[t] # u

ThreadJoin(u) ==
  /\ At("run")
  /\ Joinable(u)
  /\ target' = [target EXCEPT ![current] = u]
  /\ GoLock(u, "joining")
  /\ UNCHANGED <<sched, sync, is_over, ticks>>

JoinWait ==
  /\ At("joining")
  /\ ~is_over[target[current]]
  /\ Wait(target[current], "joining")
  /\ UNCHANGED <<target, is_over, ticks>>

(* thread_join believes the first wake-up and does not test is_over again. *)
FaultJoinDone ==
  /\ At("joining")
  /\ Release(target[current])
  /\ GoTo("reap")
  /\ UNCHANGED <<want, ret, target, is_over, ticks>>

JoinDone ==
  /\ At("joining")
  /\ is_over[target[current]]
  /\ Release(target[current])
  /\ GoTo("reap")
  /\ UNCHANGED <<want, ret, target, is_over, ticks>>

(* From here to JoinFreesThread interrupts are off.  list_delete takes the *)
(* thread out of whichever list it is in.                                  *)
Reap ==
  LET u == target[current]
  IN /\ At("reap")
     /\ alive' = Without(alive, u)
     /\ sleep' = sleep \ {u}
     /\ dead' = dead \ {u}
     /\ GoLock(BuddyLock, "free_stack")
     /\ UNCHANGED <<current, halted, sync, target, is_over, ticks>>

JoinFreesStack ==
  /\ At("free_stack")
  /\ Release(BuddyLock)
  /\ GoLock(ThreadSlab, "free_thread")
  /\ UNCHANGED <<target, is_over, ticks>>

JoinFreesThread ==
  /\ At("free_thread")
  /\ Release(ThreadSlab)
  /\ pc' = [pc EXCEPT ![target[current]] = "unused", ![current] = "run"]
  /\ target' = [target EXCEPT ![current] = Idle]
  /\ UNCHANGED <<want, ret, is_over, ticks>>

----------------------------------------------------------------------------
(* The timer interrupt, delivered only where the interrupt flag is set.    *)

PitHandler ==
  /\ ~halted
  /\ pc[current] \in Enabled
  /\ IF ticks + 1 >= PIT_TICKS
     THEN ticks' = 0 /\ Schedule("ALIVE", alive, sleep)
     ELSE ticks' = ticks + 1 /\ UNCHANGED sched
  /\ UNCHANGED <<sync, prog>>

----------------------------------------------------------------------------
(* scheduler_init: the boot thread becomes the idle thread.                *)
Init ==
  /\ current = Idle
  /\ alive = <<>>
  /\ sleep = {}
  /\ dead = {}
  /\ halted = FALSE
  /\ occupied = [m \in Mutex |-> FALSE]
  /\ lockers = [m \in Mutex |-> <<>>]
  /\ waiters = [c \in Cond |-> <<>>]
  /\ is_over = [t \in Thread |-> FALSE]
  /\ pc = [t \in Thread |-> IF t = Idle THEN "run" ELSE "unused"]
  /\ want = [t \in Thread |-> BuddyLock]
  /\ ret = [t \in Thread |-> "run"]
  /\ target = [t \in Thread |-> Idle]
  /\ held = [t \in Thread |-> {}]
  /\ ticks = 0

(* What the client of `current` decides.                                   *)
ClientStep ==
  \/ \E m \in UserMutex : MutexLock(m) \/ MutexUnlock(m)
  \/ \E c \in UserCond : CvWait(c) \/ CvNotify(c) \/ CvNotifyAll(c)
  \/ Yield
  \/ ThreadCreate
  \/ ThreadReturn
  \/ \E u \in Thread : ThreadJoin(u)

(* What threads.c does by itself once it was called.                       *)
KernelStep ==
  \/ LockWait
  \/ LockTake
  \/ StackAllocated
  \/ NoStack
  \/ \E u \in Thread : ThreadAllocated(u)
  \/ SlabFull
  \/ \E label \in {"create_fill", "create_fail"} : PageAllocated(label)
  \/ NoThread
  \/ StackFreed
  \/ ThreadPublished
  \/ ThreadStart
  \/ ThreadExit
  \/ JoinWait
  \/ JoinDone
  \/ Reap
  \/ JoinFreesStack
  \/ JoinFreesThread

Next == ClientStep \/ KernelStep \/ PitHandler

Spec == Init /\ [][Next]_vars

----------------------------------------------------------------------------
(* Safety.                                                                 *)

(* Types of the variables.                                                 *)
TypeOK ==
  /\ current \in Thread
  /\ alive \in Seq(Thread)
  /\ sleep \subseteq Thread
  /\ dead \subseteq Thread
  /\ halted \in BOOLEAN
  /\ occupied \in [Mutex -> BOOLEAN]
  /\ lockers \in [Mutex -> Seq(Thread)]
  /\ waiters \in [Cond -> Seq(Thread)]
  /\ is_over \in [Thread -> BOOLEAN]
  /\ pc \in [Thread -> PC]
  /\ want \in [Thread -> Mutex]
  /\ ret \in [Thread -> Enabled \cup Masked]
  /\ target \in [Thread -> Thread]
  /\ held \in [Thread -> SUBSET Mutex]
  /\ ticks \in 0 .. PIT_TICKS - 1

(* mutex_lock and mutex_unlock: no two threads have locked the same mutex, *)
(* and is_occupied is set exactly while some thread has the mutex locked,  *)
(* whatever the preemptions and wake-ups between the test and the write.   *)
MutualExclusion ==
  /\ \A t, u \in Thread : t # u => held[t] \cap held[u] = {}
  /\ \A m \in Mutex : occupied[m] <=> \E t \in Thread : m \in held[t]

(* schedule, __cv_notify, thread_create and thread_join move scheduler_link*)
(* between lists: a thread that exists and does not run is on exactly one  *)
(* of the three lists, once, and a slot that is free is on none.           *)
OneSchedulerList ==
  LET queued == ToSet(alive)
  IN /\ \A i, j \in DOMAIN alive : i # j => alive[i] # alive[j]
     /\ queued \cap sleep = {} /\ queued \cap dead = {} /\ sleep \cap dead = {}
     /\ current \notin queued \cup sleep \cup dead
     /\ \A t \in Thread \ {current} :
          /\ t \in queued \cup sleep <=> pc[t] \in Enabled \cup Masked
          /\ t \in dead => pc[t] = "dead"

(* Where thread t is on the waiting lists.                                 *)
Places(lists, t) ==
  UNION {{<<l, i>> : i \in {j \in DOMAIN lists[l] : lists[l][j] = t}} :
         l \in DOMAIN lists}

(* cv_wait and cv_notify: a thread sleeps exactly while its store_link is  *)
(* on one waiting list, the one of the mutex or condition it waits for,    *)
(* once; the idle thread is on none.                                       *)
SleepersWait ==
  /\ \A t \in Thread :
       Cardinality(Places(lockers, t)) + Cardinality(Places(waiters, t))
         = IF t \in sleep THEN 1 ELSE 0
  /\ \A m \in Mutex : \A t \in ToSet(lockers[m]) :
       t # Idle /\ pc[t] = "lock" /\ want[t] = m
  /\ \A c \in Cond : \A t \in ToSet(waiters[c]) :
       t # Idle /\ pc[t] = "lock" /\ want[t] = MutexOf(c)

(* mutex_unlock notifies one locker and others may take the mutex first:   *)
(* all the same, while a mutex is free and threads sleep waiting for it,   *)
(* some thread is awake and about to test it again.                        *)
NoLostWakeup ==
  \A m \in Mutex :
    ~occupied[m] /\ lockers[m] # <<>> =>
      \E t \in {current} \cup ToSet(alive) : pc[t] = "lock" /\ want[t] = m

(* thread_run and thread_join: nobody sleeps waiting for the death of a    *)
(* thread that is over already.                                            *)
NoLostDeath ==
  \A u \in Thread : is_over[u] => waiters[u] = <<>>

(* threads.c:13 "There always must be at least one alive thread": schedule *)
(* never finds the alive list empty, and never switches to a dead thread,  *)
(* because the idle thread is always running or on the alive list, whatever*)
(* it waits for itself (threads.c:54 "idle thread does not sleeps").       *)
NeverHalts ==
  /\ ~halted
  /\ pc[current] # "dead"
  /\ Idle \in {current} \cup ToSet(alive)

Reaping(t) ==
  LET reaper == {"reap", "free_stack", "free_thread"}
  IN pc[t] \in reaper \/ (pc[t] = "lock" /\ ret[t] \in reaper)

(* thread_join frees a stack and a struct thread: from its mutex_unlock on *)
(* the thread is dead, does not run, and no other thread is inside or      *)
(* waits at its lock or its is_dead.                                       *)
ReapedIsQuiet ==
  \A t \in Thread : Reaping(t) =>
    LET u == target[t]
    IN /\ pc[u] = "dead" /\ u # current
       /\ pc[t] = "reap" => u \in dead
       /\ ~occupied[u] /\ lockers[u] = <<>> /\ waiters[u] = <<>>
       /\ \A w \in Thread : pc[w] = "lock" => want[w] # u

(* What a thread has locked, and locks next, at each point of threads.c.   *)
Joining(t) ==
  \/ Reaping(t)
  \/ pc[t] = "joining"
  \/ pc[t] = "lock" /\ ret[t] = "joining"

LockPoints ==
  \A t \in Thread :
    /\ pc[t] \in {"create_stack", "create_page", "create_undo", "free_stack"} =>
         BuddyLock \in held[t]
    /\ pc[t] \in {"create_slab", "create_page", "create_fill", "create_fail", "free_thread"}
         \/ (pc[t] = "lock" /\ ret[t] = "create_page") => ThreadSlab \in held[t]
    /\ pc[t] = "joining" => target[t] \in held[t]
    /\ pc[t] = "exit" => t \in held[t]
    /\ pc[t] = "lock" =>
         \/ ret[t] = "run" /\ want[t] \in UserMutex
         \/ ret[t] = "exit" /\ want[t] = t
         \/ ret[t] = "joining" /\ want[t] = target[t]
         \/ /\ ret[t] \in {"create_stack", "create_page", "create_undo", "free_stack"}
            /\ want[t] = BuddyLock
         \/ ret[t] \in {"create_slab", "free_thread"} /\ want[t] = ThreadSlab

(* The lock of a thread is held by that thread as it exits, or by the one  *)
(* that joins it, while it looks at is_over.                               *)
OwnLocks ==
  \A t, u \in Thread : u \in held[t] =>
    (t = u /\ pc[t] = "exit") \/ (target[t] = u /\ pc[t] = "joining")

(* A thread is created or joined by one other thread at a time; the one    *)
(* that is joined exists until it is freed, and is dead by then.           *)
Targets ==
  /\ pc[Idle] \notin Absent
  /\ \A t \in Thread :
       /\ target[t] = Idle <=> ~(Joining(t) \/ pc[t] = "create")
       /\ target[t] # Idle => \A u \in Thread \ {t} : target[u] # target[t]
       /\ pc[t] = "create" => pc[target[t]] = "embryo"
       /\ Joining(t) => pc[target[t]] \notin Absent
       /\ Reaping(t) => pc[target[t]] = "dead"
       /\ is_over[t] => pc[t] \in Absent \cup {"dead"}

(* The inductive invariant for mutual exclusion: mutex_unlock is called by *)
(* the holder, and a slot's lock is initialised while nobody holds it.     *)
LockInv ==
  TypeOK /\ MutualExclusion /\ LockPoints /\ OwnLocks /\ Targets

(* thread_create and thread_join nest the allocators' locks: who is inside *)
(* the page allocator waits for no lock, who is inside the slab allocator  *)
(* waits for the page allocator's at most.                                 *)
AllocatorLockOrder ==
  \A t \in Thread : pc[t] = "lock" =>
    /\ BuddyLock \notin held[t]
    /\ ThreadSlab \in held[t] => want[t] = BuddyLock

(* What a thread has locked besides its client's mutexes follows from where*)
(* it is: the allocators' locks, and nothing while it is not in use.       *)
HeldPoints ==
  \A t \in Thread :
    /\ BuddyLock \in held[t] <=>
         pc[t] \in {"create_stack", "create_page", "create_undo", "free_stack"}
    /\ ThreadSlab \in held[t] <=>
         \/ pc[t] \in {"create_slab", "create_page", "create_fill", "create_fail", "free_thread"}
         \/ pc[t] = "lock" /\ ret[t] = "create_page"
    /\ pc[t] \in Absent \cup {"start", "dead"} \/ (pc[t] = "lock" /\ ret[t] = "exit") =>
         held[t] = {}
    /\ pc[t] = "exit" => held[t] = {t}

(* A thread lives from the end of its creation to the end of its function. *)
Living == {t \in Thread : pc[t] \in Enabled \cup Masked}

(* thread_join has taken t's target off the dead list but not freed it yet.*)
Buried(t) ==
  LET buried == {"free_stack", "free_thread"}
  IN pc[t] \in buried \/ (pc[t] = "lock" /\ ret[t] \in buried)

(* The idle thread neither sleeps nor dies, so that schedule finds it.     *)
IdleLives ==
  pc[Idle] \notin {"exit", "dead"} /\ (pc[Idle] = "lock" => ret[Idle] # "exit")

(* The scheduler's lists partition the threads that live and the dead ones.*)
SchedulerLists ==
  /\ IsInjective(alive)
  /\ current \notin ToSet(alive) \cup sleep
  /\ ToSet(alive) \cap sleep = {}
  /\ ToSet(alive) \cup sleep \cup {current} = Living
  /\ dead = {u \in Thread : pc[u] = "dead" /\ \A t \in Thread : Buried(t) => target[t] # u}

(* The waiting lists partition the sleeping threads, each at what it waits *)
(* for.                                                                    *)
WaitingLists ==
  /\ \A m \in Mutex : IsInjective(lockers[m])
  /\ \A c \in Cond : IsInjective(waiters[c])
  /\ \A m \in Mutex : \A t \in ToSet(lockers[m]) :
       t \in sleep \ {Idle} /\ pc[t] = "lock" /\ want[t] = m
  /\ \A c \in Cond : \A t \in ToSet(waiters[c]) :
       t \in sleep \ {Idle} /\ pc[t] = "lock" /\ want[t] = MutexOf(c)
  /\ \A m \in Mutex, c \in Cond : ToSet(lockers[m]) \cap ToSet(waiters[c]) = {}
  /\ \A c, d \in Cond : c # d => ToSet(waiters[c]) \cap ToSet(waiters[d]) = {}
  /\ \A t \in sleep : \/ \E m \in Mutex : t \in ToSet(lockers[m])
                      \/ \E c \in Cond : t \in ToSet(waiters[c])

(* The inductive invariant for the lists: who is awake, asleep or dead, and*)
(* on which list, follows from where the threads are.                      *)
ListInv ==
  /\ LockInv /\ HeldPoints
  /\ ~halted /\ IdleLives
  /\ SchedulerLists /\ WaitingLists
  /\ NoLostWakeup /\ NoLostDeath

----------------------------------------------------------------------------
(* What the lists, the scheduler and the interrupts amount to.             *)

M == INSTANCE Monitor WITH
       CondMutex <- [c \in Cond |-> MutexOf(c)],
       holds     <- held,
       waiting   <- [c \in Cond |-> ToSet(waiters[c])],
       over      <- is_over

(* threads.c implements the monitors of Monitor: every step of it is one   *)
(* atomic monitor operation or invisible, under every preemption.          *)
MonitorSpec == M!Spec

----------------------------------------------------------------------------
(* Liveness.  The CPU executes the current thread: one that gets the CPU   *)
(* again and again, and is inside threads.c each time, goes on.  The timer *)
(* keeps ticking and the PIC holds an interrupt until the flag is set.     *)
(* Nothing is assumed of the clients.                                      *)
Fairness ==
  /\ \A t \in Thread : SF_vars(current = t /\ KernelStep)
  /\ SF_vars(PitHandler)

FairSpec == Spec /\ Fairness

(* schedule takes the head of the alive list, where notified and created   *)
(* threads go too: a thread on it runs eventually, they never starve it.   *)
AliveRuns ==
  \A t \in Thread : t \in ToSet(alive) ~> current = t

Joins(t, u) == pc[t] = "lock" /\ ret[t] = "joining" /\ target[t] = u

(* thread_join returns from waiting for a thread that is over.             *)
DeathReachesJoiner ==
  \A t, u \in Thread : Joins(t, u) /\ is_over[u] ~> Reaping(t)

(* thread_create and thread_join are inside the page allocator for a       *)
(* finite time, though they are preempted there.                           *)
BuddyLockReleased ==
  occupied[BuddyLock] ~> ~occupied[BuddyLock]

=============================================================================
