--------------------------- MODULE Threads_proofs ---------------------------
(***************************************************************************)
(* Proofs about Threads, for every set of threads, mutexes and conditions. *)
(* First the types of the variables, mutual exclusion, and the order in    *)
(* which the locks of the allocators are taken; then the scheduler: who is *)
(* on which list, that no wake-up is lost, that there always is a thread   *)
(* to run, and that Threads implements Monitor.                            *)
(***************************************************************************)
EXTENDS Threads, TLAPS, SequenceTheorems, FiniteSetTheorems

----------------------------------------------------------------------------
(* Lists.                                                                  *)

(* What cv_notify takes off a waiting list, and what it leaves on it.      *)
LEMMA FirstAndOthers ==
  ASSUME NEW S, NEW q \in Seq(S)
  PROVE  First(q) \in Seq(S) /\ Others(q) \in Seq(S)
  BY DEF First, Others

(* The list after cv_notify_all has moved each head to the alive list.     *)
LEMMA ReverseType ==
  ASSUME NEW S, NEW q \in Seq(S)
  PROVE  Reverse(q) \in Seq(S)
<1>1. \A i \in 1 .. Len(q) : q[(Len(q) - i) + 1] \in S
  BY ElementOfSeq, LenProperties
<1>2. Len(q) \in Nat
  BY LenProperties
<1> DEFINE e(i) == q[(Len(q) - i) + 1]
<1>3. [i \in 1 .. Len(q) |-> e(i)] \in Seq(S)
  <2> HIDE DEF e
  <2>1. \A i \in 1 .. Len(q) : e(i) \in S
    BY <1>1 DEF e
  <2>2. QED
    BY <2>1, <1>2, IsASeq
<1>4. QED
  BY <1>3 DEF Reverse

(* What list_delete leaves of a list.                                      *)
LEMMA WithoutType ==
  ASSUME NEW S, NEW q \in Seq(S), NEW t
  PROVE  Without(q, t) \in Seq(S)
<1>1. CASE \E i \in 1 .. Len(q) : q[i] = t
  <2> DEFINE k == CHOOSE i \in 1 .. Len(q) : q[i] = t
  <2>1. k \in 1 .. Len(q) /\ Len(q) \in Nat
    BY <1>1, LenProperties
  <2> HIDE DEF k
  <2>2. SubSeq(q, 1, k - 1) \in Seq(S)
    BY <2>1, SubSeqProperties, ElementOfSeq
  <2>3. SubSeq(q, k + 1, Len(q)) \in Seq(S)
    BY <2>1, SubSeqProperties, ElementOfSeq
  <2>4. RemoveAt(q, k) \in Seq(S)
    BY <2>2, <2>3, ConcatProperties DEF RemoveAt
  <2>5. QED
    BY <1>1, <2>4 DEF Without, k
<1>2. CASE ~ \E i \in 1 .. Len(q) : q[i] = t
  BY <1>2 DEF Without
<1>3. QED
  BY <1>1, <1>2

(* Types of what a wake-up and a switch do to the scheduler's lists.       *)
SchedType ==
  /\ current \in Thread
  /\ alive \in Seq(Thread)
  /\ sleep \subseteq Thread
  /\ dead \subseteq Thread
  /\ halted \in BOOLEAN

LEMMA ScheduleType ==
  ASSUME SchedType, NEW state, NEW ready \in Seq(Thread),
         NEW asleep \in SUBSET Thread, Schedule(state, ready, asleep)
  PROVE  SchedType'
<1> DEFINE queue == IF state = "ALIVE" THEN Append(ready, current) ELSE ready
<1>1. queue \in Seq(Thread)
  BY AppendProperties DEF SchedType
<1>2. CASE queue = <<>>
  BY <1>1, <1>2 DEF SchedType, Schedule
<1>3. CASE queue # <<>>
  <2>1. Head(queue) \in Thread /\ Tail(queue) \in Seq(Thread)
    BY <1>1, <1>3, HeadTailProperties
  <2>2. QED
    BY <2>1, <1>3 DEF SchedType, Schedule
<1>4. QED
  BY <1>2, <1>3

LEMMA WakeType ==
  ASSUME SchedType, NEW woken \in Seq(Thread), Wake(woken)
  PROVE  SchedType'
<1>1. woken \o alive \in Seq(Thread)
  BY ConcatProperties DEF SchedType
<1>2. QED
  BY <1>1 DEF SchedType, Wake

----------------------------------------------------------------------------
(* Types of what mutex_unlock, mutex_lock and cv_wait write.               *)

SyncType ==
  /\ occupied \in [Mutex -> BOOLEAN]
  /\ lockers \in [Mutex -> Seq(Thread)]
  /\ waiters \in [Cond -> Seq(Thread)]
  /\ held \in [Thread -> SUBSET Mutex]

ProgType ==
  /\ is_over \in [Thread -> BOOLEAN]
  /\ pc \in [Thread -> PC]
  /\ want \in [Thread -> Mutex]
  /\ ret \in [Thread -> Enabled \cup Masked]
  /\ target \in [Thread -> Thread]

LEMMA TypeParts ==
  TypeOK <=> SchedType /\ SyncType /\ ProgType /\ ticks \in 0 .. PIT_TICKS - 1
  BY DEF TypeOK, SchedType, SyncType, ProgType

LEMMA TypePartsNext ==
  SchedType' /\ SyncType' /\ ProgType' /\ ticks' \in 0 .. PIT_TICKS - 1 => TypeOK'
  BY DEF TypeOK, SchedType, SyncType, ProgType

LEMMA MutexFacts ==
  /\ BuddyLock \in Mutex /\ ThreadSlab \in Mutex /\ Thread \subseteq Mutex
  /\ UserMutex \subseteq Mutex /\ Thread \subseteq Cond
  /\ UserCond \subseteq Cond
  /\ \A c \in Cond : MutexOf(c) \in Mutex
  /\ \A c \in UserCond : MutexOf(c) \in UserMutex
  /\ \A t \in Thread : MutexOf(t) = t
  BY CondAssumption DEF Mutex, Cond, MutexOf

LEMMA UnlockType ==
  ASSUME TypeOK, NEW m \in Mutex, Unlock(m)
  PROVE  /\ occupied' \in [Mutex -> BOOLEAN]
         /\ lockers' \in [Mutex -> Seq(Thread)]
         /\ held' \in [Thread -> SUBSET Mutex]
<1>1. Others(lockers[m]) \in Seq(Thread)
  BY FirstAndOthers DEF TypeOK
<1>2. QED
  BY <1>1 DEF TypeOK, Unlock

LEMMA ReleaseType ==
  ASSUME TypeOK, NEW m \in Mutex, Release(m)
  PROVE  SchedType' /\ SyncType'
<1>1. First(lockers[m]) \in Seq(Thread)
  BY FirstAndOthers DEF TypeOK
<1>2. SchedType'
  BY <1>1, WakeType, TypeParts DEF Release
<1>3. SyncType'
  BY UnlockType DEF Release, SyncType, TypeOK
<1>4. QED
  BY <1>2, <1>3

LEMMA GoLockType ==
  ASSUME TypeOK, NEW m \in Mutex, NEW label \in Enabled \cup Masked,
         GoLock(m, label), UNCHANGED <<target, is_over>>
  PROVE  ProgType'
  BY DEF TypeOK, ProgType, GoLock, GoTo, PC, Masked

LEMMA GoToType ==
  ASSUME TypeOK, NEW label \in PC, GoTo(label),
         UNCHANGED <<want, ret, target>>,
         is_over' \in [Thread -> BOOLEAN]
  PROVE  ProgType'
  BY DEF TypeOK, ProgType, GoTo

LEMMA WaitType ==
  ASSUME TypeOK, NEW c \in Cond, NEW label \in Enabled \cup Masked,
         Wait(c, label), UNCHANGED <<target, is_over>>
  PROVE  SchedType' /\ SyncType' /\ ProgType'
<1> DEFINE m == MutexOf(c)
<1>1. m \in Mutex
  BY MutexFacts
<1>2. First(lockers[m]) \in Seq(Thread)
  BY <1>1, FirstAndOthers DEF TypeOK
<1>3. First(lockers[m]) \o alive \in Seq(Thread)
  BY <1>2, ConcatProperties DEF TypeOK
<1>4. SchedType'
  BY <1>3, ScheduleType, TypeParts DEF Wait, SchedType
<1>5. <<current>> \o waiters[c] \in Seq(Thread)
  BY ConcatProperties DEF TypeOK
<1>6. waiters' \in [Cond -> Seq(Thread)]
  BY <1>5 DEF Wait, TypeOK
<1>7. Unlock(m) /\ GoLock(m, label)
  BY DEF Wait
<1>8. SyncType'
  BY <1>1, <1>6, <1>7, UnlockType DEF SyncType
<1>9. ProgType'
  BY <1>1, <1>7, GoLockType
<1>10. QED
  BY <1>4, <1>8, <1>9

----------------------------------------------------------------------------
(* Every step preserves the types.                                         *)

LEMMA TypeInit == Init => TypeOK
<1> SUFFICES ASSUME Init PROVE TypeOK
  OBVIOUS
<1>1. <<>> \in Seq(Thread)
  BY EmptySeq
<1>2. SchedType
  BY <1>1, IdleAssumption DEF Init, SchedType
<1>3. SyncType
  BY <1>1 DEF Init, SyncType
<1>4. ProgType
  BY IdleAssumption, MutexFacts DEF Init, ProgType, PC, Enabled, Absent
<1>5. ticks \in 0 .. PIT_TICKS - 1
  BY TicksAssumption DEF Init
<1>6. QED
  BY <1>2, <1>3, <1>4, <1>5, TypeParts

LEMMA TypeClient ==
  ASSUME TypeOK, ClientStep
  PROVE  TypeOK'
<1> USE TypeParts, TypePartsNext, MutexFacts
<1>0. {"run", "create_stack", "joining", "exit"} \subseteq Enabled \cup Masked
  BY DEF Enabled, Masked
<1>1. ASSUME NEW m \in UserMutex, MutexLock(m) PROVE TypeOK'
  BY <1>0, <1>1, GoLockType DEF MutexLock, sched, sync, SchedType, SyncType
<1>2. ASSUME NEW m \in UserMutex, MutexUnlock(m) PROVE TypeOK'
  BY <1>2, ReleaseType DEF MutexUnlock, prog, ProgType
<1>3. ASSUME NEW c \in UserCond, CvWait(c) PROVE TypeOK'
  BY <1>0, <1>3, WaitType DEF CvWait
<1>4. ASSUME NEW c \in UserCond, CvNotify(c) PROVE TypeOK'
  <2>1. First(waiters[c]) \in Seq(Thread) /\ Others(waiters[c]) \in Seq(Thread)
    BY FirstAndOthers DEF TypeOK
  <2>2. SchedType'
    BY <1>4, <2>1, WakeType DEF CvNotify
  <2>3. QED
    BY <1>4, <2>1, <2>2 DEF CvNotify, SyncType, prog, ProgType
<1>5. ASSUME NEW c \in UserCond, CvNotifyAll(c) PROVE TypeOK'
  <2>1. Reverse(waiters[c]) \in Seq(Thread)
    BY ReverseType DEF TypeOK
  <2>2. SchedType'
    BY <1>5, <2>1, WakeType DEF CvNotifyAll
  <2>3. QED
    BY <1>5, <2>2 DEF CvNotifyAll, SyncType, prog, ProgType
<1>6. ASSUME Yield PROVE TypeOK'
  <2>1. SchedType'
    BY <1>6, ScheduleType DEF Yield, SchedType
  <2>2. QED
    BY <1>6, <2>1 DEF Yield, sync, prog, SyncType, ProgType
<1>7. ASSUME ThreadCreate PROVE TypeOK'
  BY <1>0, <1>7, GoLockType DEF ThreadCreate, sched, sync, SchedType, SyncType
<1>8. ASSUME ThreadReturn PROVE TypeOK'
  <2>1. current \in Mutex
    BY DEF SchedType
  <2>2. QED
    BY <1>0, <1>8, <2>1, GoLockType
    DEF ThreadReturn, sched, sync, SchedType, SyncType
<1>9. ASSUME NEW u \in Thread, ThreadJoin(u) PROVE TypeOK'
  BY <1>0, <1>9
  DEF ThreadJoin, GoLock, GoTo, PC, Masked, sched, sync, SchedType, SyncType, ProgType
<1>10. QED
  BY <1>1, <1>2, <1>3, <1>4, <1>5, <1>6, <1>7, <1>8, <1>9 DEF ClientStep

LEMMA TypeKernel ==
  ASSUME TypeOK, KernelStep
  PROVE  TypeOK'
<1> USE TypeParts, TypePartsNext, MutexFacts
<1>0. PC = Enabled \cup Masked \cup Absent \cup {"dead"}
  BY DEF PC
<1>1. ASSUME LockWait PROVE TypeOK'
  <2>1. SchedType'
    BY <1>1, ScheduleType DEF LockWait, SchedType
  <2>2. want[current] \in Mutex
    BY DEF TypeOK
  <2>3. <<current>> \o lockers[want[current]] \in Seq(Thread)
    BY <2>2, ConcatProperties DEF TypeOK
  <2>4. lockers' \in [Mutex -> Seq(Thread)]
    BY <1>1, <2>3 DEF LockWait, SyncType
  <2>5. QED
    BY <1>1, <2>1, <2>4 DEF LockWait, SyncType, ProgType, prog
<1>2. ASSUME LockTake PROVE TypeOK'
  BY <1>2, <1>0 DEF LockTake, GoTo, sched, SchedType, SyncType, ProgType, Enabled
<1>3. ASSUME StackAllocated PROVE TypeOK'
  <2>1. Release(BuddyLock)
    BY <1>3 DEF StackAllocated, Release
  <2>2. QED
    BY <1>3, <2>1, ReleaseType, GoLockType DEF StackAllocated, Enabled
<1>4. ASSUME NoStack PROVE TypeOK'
  BY <1>4, ReleaseType, GoToType DEF NoStack, PC, Enabled, ProgType
<1>5. ASSUME NEW u \in Thread, ThreadAllocated(u) PROVE TypeOK'
  <2>1. SchedType' /\ SyncType'
    BY <1>5, ReleaseType DEF ThreadAllocated
  <2>2. ProgType'
    BY <1>5 DEF ThreadAllocated, ProgType, SchedType, PC, Enabled, Absent
  <2>3. QED
    BY <1>5, <2>1, <2>2 DEF ThreadAllocated
<1>6. ASSUME SlabFull PROVE TypeOK'
  BY <1>6, GoLockType DEF SlabFull, Enabled, sched, sync, SchedType, SyncType
<1>7. ASSUME NEW label \in {"create_fill", "create_fail"}, PageAllocated(label)
      PROVE TypeOK'
  BY <1>7, ReleaseType, GoToType DEF PageAllocated, PC, Enabled, ProgType
<1>8. ASSUME NoThread PROVE TypeOK'
  BY <1>8, ReleaseType, GoLockType DEF NoThread, Enabled
<1>9. ASSUME StackFreed PROVE TypeOK'
  BY <1>9, ReleaseType, GoToType DEF StackFreed, PC, Enabled, ProgType
<1>10. ASSUME ThreadPublished PROVE TypeOK'
  <2>1. <<target[current]>> \o alive \in Seq(Thread)
    BY ConcatProperties DEF TypeOK
  <2>2. SchedType'
    BY <1>10, <2>1 DEF ThreadPublished, SchedType
  <2>3. SyncType'
    <3>1. <<>> \in Seq(Thread)
      BY EmptySeq
    <3>2. QED
      BY <1>10, <3>1 DEF ThreadPublished, SyncType
  <2>4. ProgType'
    BY <1>10, IdleAssumption DEF ThreadPublished, ProgType, PC, Enabled, Masked
  <2>5. QED
    BY <1>10, <2>2, <2>3, <2>4 DEF ThreadPublished
<1>11. ASSUME ThreadStart PROVE TypeOK'
  BY <1>11, GoToType
  DEF ThreadStart, PC, Enabled, sched, sync, SchedType, SyncType, ProgType
<1>12. ASSUME ThreadExit PROVE TypeOK'
  <2>1. current \in Mutex /\ current \in Cond /\ current \in Thread
    BY DEF SchedType
  <2>2. /\ First(lockers[current]) \in Seq(Thread)
        /\ First(waiters[current]) \in Seq(Thread)
        /\ Others(waiters[current]) \in Seq(Thread)
    BY <2>1, FirstAndOthers DEF TypeOK
  <2>3. First(lockers[current]) \o First(waiters[current]) \in Seq(Thread)
    BY <2>2, ConcatProperties
  <2>4. (First(lockers[current]) \o First(waiters[current])) \o alive \in Seq(Thread)
    BY <2>3, ConcatProperties DEF TypeOK
  <2> DEFINE woken == First(lockers[current]) \o First(waiters[current])
  <2>5. SchedType'
    <3>1. Schedule("DEAD", woken \o alive, sleep \ ToSet(woken))
      BY <1>12 DEF ThreadExit
    <3>2. woken \o alive \in Seq(Thread)
      BY <2>4
    <3> HIDE DEF woken
    <3>3. sleep \ ToSet(woken) \in SUBSET Thread
      BY DEF SchedType
    <3>4. QED
      BY <3>1, <3>2, <3>3, ScheduleType
  <2>6. SyncType'
    BY <1>12, <2>1, <2>2, UnlockType DEF ThreadExit, SyncType
  <2>7. ProgType'
    BY <1>12, GoToType DEF ThreadExit, PC, ProgType
  <2>8. QED
    BY <1>12, <2>5, <2>6, <2>7 DEF ThreadExit
<1>13. ASSUME JoinWait PROVE TypeOK'
  <2>1. target[current] \in Cond
    BY DEF TypeOK
  <2>2. QED
    BY <1>13, <2>1, WaitType DEF JoinWait, Enabled
<1>14. ASSUME JoinDone PROVE TypeOK'
  <2>1. target[current] \in Mutex
    BY DEF TypeOK
  <2>2. QED
    BY <1>14, <2>1, ReleaseType, GoToType DEF JoinDone, PC, Enabled, ProgType
<1>15. ASSUME Reap PROVE TypeOK'
  <2>1. alive' \in Seq(Thread)
    BY <1>15, WithoutType DEF Reap, SchedType
  <2>2. QED
    BY <1>15, <2>1, GoLockType DEF Reap, Masked, SchedType, sync, SyncType
<1>16. ASSUME JoinFreesStack PROVE TypeOK'
  BY <1>16, ReleaseType, GoLockType DEF JoinFreesStack, Masked
<1>17. ASSUME JoinFreesThread PROVE TypeOK'
  <2>1. SchedType' /\ SyncType'
    BY <1>17, ReleaseType DEF JoinFreesThread
  <2>2. ProgType'
    BY <1>17, IdleAssumption DEF JoinFreesThread, ProgType, PC, Enabled, Absent
  <2>3. QED
    BY <1>17, <2>1, <2>2 DEF JoinFreesThread
<1>18. QED
  BY <1>1, <1>2, <1>3, <1>4, <1>5, <1>6, <1>7, <1>8, <1>9, <1>10, <1>11,
     <1>12, <1>13, <1>14, <1>15, <1>16, <1>17 DEF KernelStep

LEMMA TypePit ==
  ASSUME TypeOK, PitHandler
  PROVE  TypeOK'
<1> USE TypeParts, TypePartsNext
<1>1. CASE ticks + 1 >= PIT_TICKS
  <2>1. Schedule("ALIVE", alive, sleep) /\ ticks' = 0
    BY <1>1 DEF PitHandler
  <2>2. SchedType'
    BY <2>1, ScheduleType DEF SchedType
  <2>3. QED
    BY <2>1, <2>2, TicksAssumption
    DEF PitHandler, sync, prog, SyncType, ProgType
<1>2. CASE ~(ticks + 1 >= PIT_TICKS)
  BY <1>2, TicksAssumption
  DEF PitHandler, sched, sync, prog, SchedType, SyncType, ProgType
<1>3. QED
  BY <1>1, <1>2

LEMMA TypeStutter ==
  ASSUME TypeOK, UNCHANGED vars
  PROVE  TypeOK'
  BY DEF TypeOK, vars, sched, sync, prog

(* The variables of threads.c keep their types: in particular each of the  *)
(* scheduler's and the waiting lists only ever holds threads.              *)
THEOREM TypeCorrect == Spec => []TypeOK
<1>1. TypeOK /\ [Next]_vars => TypeOK'
  BY TypeClient, TypeKernel, TypePit, TypeStutter DEF Next
<1>2. QED
  BY TypeInit, <1>1, PTL DEF Spec

----------------------------------------------------------------------------
(* Mutual exclusion.  What matters for it is occupied, held, and where the *)
(* threads are; the lists do not.                                          *)

lockVars == <<occupied, held, pc, want, ret, target, is_over>>

LockTypes ==
  /\ current \in Thread
  /\ occupied \in [Mutex -> BOOLEAN]
  /\ held \in [Thread -> SUBSET Mutex]
  /\ is_over \in [Thread -> BOOLEAN]
  /\ pc \in [Thread -> PC]
  /\ want \in [Thread -> Mutex]
  /\ ret \in [Thread -> Enabled \cup Masked]
  /\ target \in [Thread -> Thread]

Core == MutualExclusion /\ LockPoints /\ OwnLocks /\ Targets

LEMMA CoreOfLockInv ==
  /\ LockInv => LockTypes /\ Core
  /\ TypeOK' /\ Core' => LockInv'
  BY DEF LockInv, Core, LockTypes, TypeOK

LEMMA LockNames ==
  /\ BuddyLock \notin Thread /\ ThreadSlab \notin Thread
  /\ BuddyLock \notin UserMutex /\ ThreadSlab \notin UserMutex
  /\ BuddyLock # ThreadSlab
  /\ UserMutex \cap Thread = {}
  /\ BuddyLock \in Mutex /\ ThreadSlab \in Mutex /\ Idle \in Thread
  /\ Thread \subseteq Mutex /\ UserMutex \subseteq Mutex
  BY LockAssumption, IdleAssumption, MutexFacts

LEMMA CoreUnchanged ==
  ASSUME Core, UNCHANGED lockVars
  PROVE  Core'
  BY DEF Core, lockVars, MutualExclusion, LockPoints, OwnLocks, Targets, Joining, Reaping

(* A thread that has the mutex unlocks it.                                 *)
LEMMA UnlockExcludes ==
  ASSUME LockTypes, MutualExclusion, NEW m \in held[current], Unlock(m)
  PROVE  MutualExclusion'
  BY DEF LockTypes, MutualExclusion, Unlock

(* A thread calls mutex_lock from a point where the caller may.            *)
LEMMA CoreClient ==
  ASSUME LockTypes, Core, ClientStep
  PROVE  Core'
<1> USE LockNames
<1>1. ASSUME NEW m \in UserMutex, MutexLock(m) PROVE Core'
  BY <1>1 DEF MutexLock, At, GoLock, GoTo, sched, sync, LockTypes,
       Core, MutualExclusion, LockPoints, OwnLocks, Targets, Joining, Reaping, Absent
<1>2. ASSUME NEW m \in UserMutex, MutexUnlock(m) PROVE Core'
  <2>1. Unlock(m) /\ m \in held[current]
    BY <1>2 DEF MutexUnlock, Release
  <2>2. MutualExclusion'
    BY <2>1, UnlockExcludes DEF Core
  <2>3. QED
    BY <1>2, <2>2 DEF MutexUnlock, At, Release, Unlock, prog, LockTypes,
       Core, LockPoints, OwnLocks, Targets, Joining, Reaping, Absent
<1>3. ASSUME NEW c \in UserCond, CvWait(c) PROVE Core'
  <2> DEFINE m == MutexOf(c)
  <2>1. Unlock(m) /\ GoLock(m, "run") /\ m \in held[current] /\ m \in UserMutex
    BY <1>3, MutexFacts DEF CvWait, Wait
  <2>2. MutualExclusion'
    BY <2>1, UnlockExcludes DEF Core
  <2>3. At("run") /\ UNCHANGED <<target, is_over>>
    BY <1>3 DEF CvWait
  <2> HIDE DEF m
  <2>4. QED
    BY <2>1, <2>2, <2>3 DEF At, Unlock, GoLock, GoTo, LockTypes,
       Core, LockPoints, OwnLocks, Targets, Joining, Reaping, Absent
<1>4. ASSUME NEW c \in UserCond, CvNotify(c) PROVE Core'
  BY <1>4, CoreUnchanged DEF CvNotify, prog, lockVars
<1>5. ASSUME NEW c \in UserCond, CvNotifyAll(c) PROVE Core'
  BY <1>5, CoreUnchanged DEF CvNotifyAll, prog, lockVars
<1>6. ASSUME Yield PROVE Core'
  BY <1>6, CoreUnchanged DEF Yield, sync, prog, lockVars
<1>7. ASSUME ThreadCreate PROVE Core'
  BY <1>7 DEF ThreadCreate, At, GoLock, GoTo, sched, sync, LockTypes,
       Core, MutualExclusion, LockPoints, OwnLocks, Targets, Joining, Reaping, Absent
<1>8. ASSUME ThreadReturn PROVE Core'
  BY <1>8 DEF ThreadReturn, At, GoLock, GoTo, sched, sync, LockTypes,
       Core, MutualExclusion, LockPoints, OwnLocks, Targets, Joining, Reaping, Absent
<1>9. ASSUME NEW u \in Thread, ThreadJoin(u) PROVE Core'
  BY <1>9 DEF ThreadJoin, Joinable, At, GoLock, GoTo, sched, sync, LockTypes,
       Core, MutualExclusion, LockPoints, OwnLocks, Targets, Joining, Reaping, Absent
<1>10. QED
  BY <1>1, <1>2, <1>3, <1>4, <1>5, <1>6, <1>7, <1>8, <1>9 DEF ClientStep

(* The same for the steps inside threads.c.                                *)
LEMMA CoreKernel ==
  ASSUME LockTypes, Core, KernelStep
  PROVE  Core'
<1> USE LockNames
<1>1. ASSUME LockWait PROVE Core'
  BY <1>1, CoreUnchanged DEF LockWait, prog, lockVars
<1>2. ASSUME LockTake PROVE Core'
  <2>1. ret[current] \notin Absent
    BY DEF LockTypes, Enabled, Masked, Absent
  <2>2. QED
    BY <1>2, <2>1 DEF LockTake, At, GoTo, LockTypes, MutualExclusion,
       Core, LockPoints, OwnLocks, Targets, Joining, Reaping, Absent
<1>3. ASSUME StackAllocated PROVE Core'
  <2>1. Unlock(BuddyLock) /\ BuddyLock \in held[current]
    BY <1>3 DEF StackAllocated, At, Core, LockPoints, LockTypes
  <2>2. MutualExclusion'
    BY <2>1, UnlockExcludes DEF Core
  <2>3. QED
    BY <1>3, <2>1, <2>2 DEF StackAllocated, At, Unlock, GoLock, GoTo, LockTypes,
       Core, LockPoints, OwnLocks, Targets, Joining, Reaping, Absent
<1>4. ASSUME NoStack PROVE Core'
  <2>1. Unlock(BuddyLock) /\ BuddyLock \in held[current]
    BY <1>4 DEF NoStack, Release, At, Core, LockPoints, LockTypes
  <2>2. MutualExclusion'
    BY <2>1, UnlockExcludes DEF Core
  <2>3. QED
    BY <1>4, <2>1, <2>2 DEF NoStack, At, Release, Unlock, GoLock, GoTo, LockTypes,
       Core, LockPoints, OwnLocks, Targets, Joining, Reaping, Absent
<1>5. ASSUME NEW u \in Thread, ThreadAllocated(u) PROVE Core'
  <2>1. Unlock(ThreadSlab) /\ ThreadSlab \in held[current]
    BY <1>5 DEF ThreadAllocated, Release, At, Core, LockPoints, LockTypes
  <2>2. MutualExclusion'
    BY <2>1, UnlockExcludes DEF Core
  <2>3. /\ pc[current] \in {"create_slab", "create_fill"} /\ pc[u] = "unused"
        /\ pc' = [pc EXCEPT ![current] = "create", ![u] = "embryo"]
        /\ target' = [target EXCEPT ![current] = u]
        /\ held' = [held EXCEPT ![current] = @ \ {ThreadSlab}]
        /\ UNCHANGED <<want, ret, is_over>>
    BY <1>5 DEF ThreadAllocated, At, Release, Unlock
  <2>4. u # Idle /\ \A t \in Thread : target[t] # u
    BY <2>3 DEF Core, Targets, LockTypes, Absent, LockPoints, Joining, Reaping
  <2>5. LockPoints'
    BY <2>3, <2>4 DEF Core, LockPoints, LockTypes
  <2>6. OwnLocks'
    BY <2>3, <2>4 DEF Core, OwnLocks, LockTypes
  <2>7. Targets'
    BY <2>3, <2>4 DEF Core, Targets, LockTypes, Absent, Joining, Reaping
  <2>8. QED
    BY <2>2, <2>5, <2>6, <2>7 DEF Core
<1>6. ASSUME SlabFull PROVE Core'
  BY <1>6 DEF SlabFull, At, GoLock, GoTo, sched, sync, LockTypes, MutualExclusion,
       Core, LockPoints, OwnLocks, Targets, Joining, Reaping, Absent
<1>7. ASSUME NEW label \in {"create_fill", "create_fail"}, PageAllocated(label) PROVE Core'
  <2>1. Unlock(BuddyLock) /\ BuddyLock \in held[current]
    BY <1>7 DEF PageAllocated, Release, At, Core, LockPoints, LockTypes
  <2>2. MutualExclusion'
    BY <2>1, UnlockExcludes DEF Core
  <2>3. QED
    BY <1>7, <2>1, <2>2 DEF PageAllocated, At, Release, Unlock, GoLock, GoTo, LockTypes,
       Core, LockPoints, OwnLocks, Targets, Joining, Reaping, Absent
<1>8. ASSUME NoThread PROVE Core'
  <2>1. Unlock(ThreadSlab) /\ ThreadSlab \in held[current]
    BY <1>8 DEF NoThread, Release, At, Core, LockPoints, LockTypes
  <2>2. MutualExclusion'
    BY <2>1, UnlockExcludes DEF Core
  <2>3. QED
    BY <1>8, <2>1, <2>2 DEF NoThread, At, Release, Unlock, GoLock, GoTo, LockTypes,
       Core, LockPoints, OwnLocks, Targets, Joining, Reaping, Absent
<1>9. ASSUME StackFreed PROVE Core'
  <2>1. Unlock(BuddyLock) /\ BuddyLock \in held[current]
    BY <1>9 DEF StackFreed, Release, At, Core, LockPoints, LockTypes
  <2>2. MutualExclusion'
    BY <2>1, UnlockExcludes DEF Core
  <2>3. QED
    BY <1>9, <2>1, <2>2 DEF StackFreed, At, Release, Unlock, GoLock, GoTo, LockTypes,
       Core, LockPoints, OwnLocks, Targets, Joining, Reaping, Absent
<1>10. ASSUME ThreadPublished PROVE Core'
  BY <1>10 DEF ThreadPublished, At, LockTypes, MutualExclusion,
       Core, LockPoints, OwnLocks, Targets, Joining, Reaping, Absent
<1>11. ASSUME ThreadStart PROVE Core'
  BY <1>11 DEF ThreadStart, At, GoTo, sched, sync, LockTypes, MutualExclusion,
       Core, LockPoints, OwnLocks, Targets, Joining, Reaping, Absent
<1>12. ASSUME ThreadExit PROVE Core'
  <2>1. Unlock(current) /\ current \in held[current]
    BY <1>12 DEF ThreadExit, At, Core, LockPoints, LockTypes
  <2>2. MutualExclusion'
    BY <2>1, UnlockExcludes DEF Core
  <2>3. QED
    BY <1>12, <2>1, <2>2 DEF ThreadExit, At, Unlock, GoLock, GoTo, LockTypes,
       Core, LockPoints, OwnLocks, Targets, Joining, Reaping, Absent
<1>13. ASSUME JoinWait PROVE Core'
  <2>1. Unlock(target[current]) /\ target[current] \in held[current]
    BY <1>13, MutexFacts DEF JoinWait, Wait, At, Core, LockPoints, LockTypes
  <2>2. MutualExclusion'
    BY <2>1, UnlockExcludes DEF Core
  <2>3. QED
    BY <1>13, <2>1, <2>2, MutexFacts DEF JoinWait, At, Wait, Unlock, GoLock, GoTo, LockTypes,
       Core, LockPoints, OwnLocks, Targets, Joining, Reaping, Absent
<1>14. ASSUME JoinDone PROVE Core'
  <2>1. Unlock(target[current]) /\ target[current] \in held[current]
    BY <1>14 DEF JoinDone, Release, At, Core, LockPoints, LockTypes
  <2>2. MutualExclusion'
    BY <2>1, UnlockExcludes DEF Core
  <2>3. QED
    BY <1>14, <2>1, <2>2 DEF JoinDone, At, Release, Unlock, GoLock, GoTo, LockTypes,
       Core, LockPoints, OwnLocks, Targets, Joining, Reaping, Absent
<1>15. ASSUME Reap PROVE Core'
  BY <1>15 DEF Reap, At, GoLock, GoTo, sync, LockTypes, MutualExclusion,
       Core, LockPoints, OwnLocks, Targets, Joining, Reaping, Absent
<1>16. ASSUME JoinFreesStack PROVE Core'
  <2>1. Unlock(BuddyLock) /\ BuddyLock \in held[current]
    BY <1>16 DEF JoinFreesStack, Release, At, Core, LockPoints, LockTypes
  <2>2. MutualExclusion'
    BY <2>1, UnlockExcludes DEF Core
  <2>3. QED
    BY <1>16, <2>1, <2>2 DEF JoinFreesStack, At, Release, Unlock, GoLock, GoTo, LockTypes,
       Core, LockPoints, OwnLocks, Targets, Joining, Reaping, Absent
<1>17. ASSUME JoinFreesThread PROVE Core'
  <2>1. Unlock(ThreadSlab) /\ ThreadSlab \in held[current]
    BY <1>17 DEF JoinFreesThread, Release, At, Core, LockPoints, LockTypes
  <2>2. MutualExclusion'
    BY <2>1, UnlockExcludes DEF Core
  <2>3. QED
    BY <1>17, <2>1, <2>2 DEF JoinFreesThread, At, Release, Unlock, GoLock, GoTo, LockTypes,
       Core, LockPoints, OwnLocks, Targets, Joining, Reaping, Absent
<1>18. QED
  BY <1>1, <1>2, <1>3, <1>4, <1>5, <1>6, <1>7, <1>8, <1>9, <1>10, <1>11,
     <1>12, <1>13, <1>14, <1>15, <1>16, <1>17 DEF KernelStep

LEMMA CoreInit == Init => Core
  BY LockNames DEF Init, Core, MutualExclusion, LockPoints, OwnLocks, Targets,
       Joining, Reaping, Absent

LEMMA LockStep ==
  ASSUME LockInv, [Next]_vars
  PROVE  LockInv'
<1>1. TypeOK /\ LockTypes /\ Core
  BY CoreOfLockInv DEF LockInv
<1>2. TypeOK'
  BY <1>1, TypeClient, TypeKernel, TypePit, TypeStutter DEF Next
<1>3. CASE PitHandler
  BY <1>1, <1>3, CoreUnchanged, CoreOfLockInv, <1>2
  DEF PitHandler, sync, prog, lockVars
<1>4. CASE UNCHANGED vars
  BY <1>1, <1>4, CoreUnchanged, CoreOfLockInv, <1>2
  DEF vars, sync, prog, lockVars
<1>5. QED
  BY <1>1, <1>2, <1>3, <1>4, CoreClient, CoreKernel, CoreOfLockInv DEF Next

(* LockInv is inductive: what a thread has locked follows from where it is.*)
THEOREM LockInvariant == Spec => []LockInv
<1>1. Init => LockInv
  BY TypeInit, CoreInit DEF LockInv, Core
<1>2. LockInv /\ [Next]_vars => LockInv'
  BY LockStep
<1>3. QED
  BY <1>1, <1>2, PTL DEF Spec

(* mutex_lock and mutex_unlock exclude: no two threads have locked a mutex,*)
(* and is_occupied says whether one has, under every interleaving.         *)
THEOREM MutualExclusionHolds == Spec => []MutualExclusion
<1>1. LockInv => MutualExclusion
  BY DEF LockInv
<1>2. QED
  BY <1>1, LockInvariant, PTL
----------------------------------------------------------------------------
(* Which of the allocators' locks a thread has, at each of its points.     *)

LEMMA HeldUnchanged ==
  ASSUME HeldPoints, UNCHANGED lockVars
  PROVE  HeldPoints'
  BY DEF lockVars, HeldPoints

(* A client locks and unlocks its own mutexes only.                        *)
LEMMA HeldClient ==
  ASSUME LockTypes, Core, HeldPoints, ClientStep
  PROVE  HeldPoints'
<1> USE LockNames
<1>1. ASSUME NEW m \in UserMutex, MutexLock(m) PROVE HeldPoints'
  BY <1>1 DEF MutexLock, At, GoLock, GoTo, sync, LockTypes, HeldPoints, Absent
<1>2. ASSUME NEW m \in UserMutex, MutexUnlock(m) PROVE HeldPoints'
  BY <1>2 DEF MutexUnlock, At, Release, Unlock, prog, LockTypes, HeldPoints, Absent
<1>3. ASSUME NEW c \in UserCond, CvWait(c) PROVE HeldPoints'
  <2> DEFINE m == MutexOf(c)
  <2>1. Unlock(m) /\ GoLock(m, "run") /\ m \in UserMutex /\ At("run")
    BY <1>3, MutexFacts DEF CvWait, Wait
  <2> HIDE DEF m
  <2>2. QED
    BY <2>1 DEF At, Unlock, GoLock, GoTo, LockTypes, HeldPoints, Absent
<1>4. ASSUME NEW c \in UserCond, CvNotify(c) PROVE HeldPoints'
  BY <1>4 DEF CvNotify, prog, HeldPoints
<1>5. ASSUME NEW c \in UserCond, CvNotifyAll(c) PROVE HeldPoints'
  BY <1>5 DEF CvNotifyAll, prog, HeldPoints
<1>6. ASSUME Yield PROVE HeldPoints'
  BY <1>6 DEF Yield, sync, prog, HeldPoints
<1>7. ASSUME ThreadCreate PROVE HeldPoints'
  BY <1>7 DEF ThreadCreate, At, GoLock, GoTo, sync, LockTypes, HeldPoints, Absent
<1>8. ASSUME ThreadReturn PROVE HeldPoints'
  BY <1>8 DEF ThreadReturn, At, GoLock, GoTo, sync, LockTypes, HeldPoints, Absent
<1>9. ASSUME NEW u \in Thread, ThreadJoin(u) PROVE HeldPoints'
  BY <1>9 DEF ThreadJoin, At, GoLock, GoTo, sync, LockTypes, HeldPoints, Absent
<1>10. QED
  BY <1>1, <1>2, <1>3, <1>4, <1>5, <1>6, <1>7, <1>8, <1>9 DEF ClientStep

(* thread_create and thread_join lock and unlock the allocators' locks at  *)
(* the points HeldPoints names.                                            *)
LEMMA HeldKernel ==
  ASSUME LockTypes, Core, HeldPoints, KernelStep
  PROVE  HeldPoints'
<1> USE LockNames
<1>1. ASSUME LockWait PROVE HeldPoints'
  BY <1>1 DEF LockWait, prog, HeldPoints
<1>2. ASSUME LockTake PROVE HeldPoints'
  <2>1. ret[current] \notin Absent \cup {"dead", "lock"}
    BY <1>2 DEF LockTake, At, LockTypes, Enabled, Masked, Absent, Core, LockPoints
  <2>2. QED
    BY <1>2, <2>1 DEF LockTake, At, GoTo, LockTypes, HeldPoints, Absent, Core, LockPoints
<1>3. ASSUME StackAllocated PROVE HeldPoints'
  <2>1. Unlock(BuddyLock) /\ BuddyLock \in held[current]
    BY <1>3 DEF StackAllocated, Release, At, Core, LockPoints, LockTypes
  <2>2. QED
    BY <1>3, <2>1 DEF StackAllocated, At, Unlock, GoLock, GoTo, LockTypes, HeldPoints, Absent
<1>4. ASSUME NoStack PROVE HeldPoints'
  <2>1. Unlock(BuddyLock) /\ BuddyLock \in held[current]
    BY <1>4 DEF NoStack, Release, At, Core, LockPoints, LockTypes
  <2>2. QED
    BY <1>4, <2>1 DEF NoStack, Release, At, Unlock, GoLock, GoTo, LockTypes, HeldPoints, Absent
<1>5. ASSUME NEW u \in Thread, ThreadAllocated(u) PROVE HeldPoints'
  <2>1. /\ pc[current] \in {"create_slab", "create_fill"} /\ pc[u] = "unused"
        /\ pc' = [pc EXCEPT ![current] = "create", ![u] = "embryo"]
        /\ held' = [held EXCEPT ![current] = @ \ {ThreadSlab}]
        /\ UNCHANGED ret
    BY <1>5 DEF ThreadAllocated, At, Release, Unlock
  <2>2. QED
    BY <2>1 DEF LockTypes, HeldPoints, Absent
<1>6. ASSUME SlabFull PROVE HeldPoints'
  BY <1>6 DEF SlabFull, At, GoLock, GoTo, sync, LockTypes, HeldPoints, Absent
<1>7. ASSUME NEW label \in {"create_fill", "create_fail"}, PageAllocated(label) PROVE HeldPoints'
  BY <1>7 DEF PageAllocated, At, Release, Unlock, GoLock, GoTo, LockTypes, HeldPoints, Absent
<1>8. ASSUME NoThread PROVE HeldPoints'
  BY <1>8 DEF NoThread, At, Release, Unlock, GoLock, GoTo, LockTypes, HeldPoints, Absent
<1>9. ASSUME StackFreed PROVE HeldPoints'
  BY <1>9 DEF StackFreed, At, Release, Unlock, GoLock, GoTo, LockTypes, HeldPoints, Absent
<1>10. ASSUME ThreadPublished PROVE HeldPoints'
  BY <1>10 DEF ThreadPublished, At, LockTypes, HeldPoints, Absent, Core, Targets
<1>11. ASSUME ThreadStart PROVE HeldPoints'
  BY <1>11 DEF ThreadStart, At, GoTo, sync, LockTypes, HeldPoints, Absent
<1>12. ASSUME ThreadExit PROVE HeldPoints'
  BY <1>12 DEF ThreadExit, At, Unlock, GoTo, LockTypes, HeldPoints, Absent
<1>13. ASSUME JoinWait PROVE HeldPoints'
  <2> DEFINE m == MutexOf(target[current])
  <2>1. Unlock(m) /\ GoLock(m, "joining") /\ m \in Thread /\ At("joining")
    BY <1>13, MutexFacts DEF JoinWait, Wait, LockTypes
  <2> HIDE DEF m
  <2>2. QED
    BY <2>1 DEF At, Unlock, GoLock, GoTo, LockTypes, HeldPoints, Absent
<1>14. ASSUME JoinDone PROVE HeldPoints'
  BY <1>14 DEF JoinDone, At, Release, Unlock, GoTo, LockTypes, HeldPoints, Absent
<1>15. ASSUME Reap PROVE HeldPoints'
  BY <1>15 DEF Reap, At, GoLock, GoTo, sync, LockTypes, HeldPoints, Absent
<1>16. ASSUME JoinFreesStack PROVE HeldPoints'
  BY <1>16 DEF JoinFreesStack, At, Release, Unlock, GoLock, GoTo, LockTypes, HeldPoints, Absent
<1>17. ASSUME JoinFreesThread PROVE HeldPoints'
  BY <1>17 DEF JoinFreesThread, At, Release, Unlock, LockTypes, HeldPoints, Absent,
       Core, Targets, Joining, Reaping
<1>18. QED
  BY <1>1, <1>2, <1>3, <1>4, <1>5, <1>6, <1>7, <1>8, <1>9, <1>10, <1>11,
     <1>12, <1>13, <1>14, <1>15, <1>16, <1>17 DEF KernelStep

(* HeldPoints holds beside LockInv.                                        *)
LEMMA HeldStep ==
  ASSUME LockInv, HeldPoints, [Next]_vars
  PROVE  HeldPoints'
<1>1. LockTypes /\ Core
  BY CoreOfLockInv
<1>2. CASE PitHandler
  BY <1>2, HeldUnchanged DEF PitHandler, sync, prog, lockVars
<1>3. CASE UNCHANGED vars
  BY <1>3, HeldUnchanged DEF vars, sync, prog, lockVars
<1>4. QED
  BY <1>1, <1>2, <1>3, HeldClient, HeldKernel DEF Next

LEMMA HeldInit == Init => HeldPoints
  BY LockNames DEF Init, HeldPoints, Absent

(* The allocators' locks nest in one order: a thread that is inside the    *)
(* page allocator waits for nothing, one inside the slab allocator of      *)
(* threads waits for the page allocator at most, so that they cannot wait  *)
(* for each other, under every interleaving of creations and joins.        *)
THEOREM AllocatorLocksNest == Spec => []AllocatorLockOrder
<1>1. LockInv /\ HeldPoints => AllocatorLockOrder
  <2> SUFFICES ASSUME LockInv, HeldPoints, NEW t \in Thread, pc[t] = "lock"
               PROVE  BuddyLock \notin held[t] /\ (ThreadSlab \in held[t] => want[t] = BuddyLock)
    BY DEF AllocatorLockOrder
  <2>1. BuddyLock \notin held[t]
    BY DEF HeldPoints
  <2>2. ASSUME ThreadSlab \in held[t] PROVE want[t] = BuddyLock
    BY <2>2 DEF HeldPoints, LockInv, LockPoints
  <2>3. QED
    BY <2>1, <2>2
<1>2. LockInv /\ HeldPoints /\ [Next]_vars => HeldPoints'
  BY HeldStep
<1>3. QED
  BY <1>1, <1>2, HeldInit, LockInvariant, PTL DEF Spec

----------------------------------------------------------------------------
(* Lists without repetitions.                                              *)

LEMMA Elements ==
  ASSUME NEW S, NEW q \in Seq(S)
  PROVE  /\ Len(q) \in Nat /\ DOMAIN q = 1 .. Len(q)
         /\ ToSet(q) \subseteq S
         /\ \A x : x \in ToSet(q) <=> \E i \in 1 .. Len(q) : q[i] = x
         /\ IsInjective(q) <=> \A i, j \in 1 .. Len(q) : q[i] = q[j] => i = j
<1>1. Len(q) \in Nat /\ DOMAIN q = 1 .. Len(q)
  BY LenProperties
<1>2. \A i \in 1 .. Len(q) : q[i] \in S
  BY ElementOfSeq
<1>3. QED
  BY <1>1, <1>2 DEF ToSet, IsInjective

LEMMA EmptyList ==
  /\ ToSet(<<>>) = {} /\ IsInjective(<<>>)
  /\ \A S : \A q \in Seq(S) : ToSet(q) = {} <=> q = <<>>
<1>1. ToSet(<<>>) = {} /\ IsInjective(<<>>)
  BY DEF ToSet, IsInjective
<1>2. ASSUME NEW S, NEW q \in Seq(S), q # <<>> PROVE ToSet(q) # {}
  <2>1. Len(q) \in Nat \ {0}
    BY <1>2, EmptySeq
  <2>2. 1 \in 1 .. Len(q)
    BY <2>1
  <2>3. q[1] \in ToSet(q)
    BY <2>2, Elements
  <2>4. QED
    BY <2>3
<1>3. QED
  BY <1>1, <1>2

LEMMA ConcatElements ==
  ASSUME NEW S, NEW p \in Seq(S), NEW q \in Seq(S)
  PROVE  /\ p \o q \in Seq(S)
         /\ ToSet(p \o q) = ToSet(p) \cup ToSet(q)
         /\ IsInjective(p) /\ IsInjective(q) /\ ToSet(p) \cap ToSet(q) = {}
              => IsInjective(p \o q)
<1> DEFINE r == p \o q
<1>1. /\ r \in Seq(S) /\ Len(r) = Len(p) + Len(q)
      /\ \A i \in 1 .. Len(p) + Len(q) : r[i] = IF i <= Len(p) THEN p[i] ELSE q[i - Len(p)]
      /\ Len(p) \in Nat /\ Len(q) \in Nat
  BY ConcatProperties, LenProperties
<1> HIDE DEF r
<1>2. \A x : x \in ToSet(r) <=> \E i \in 1 .. Len(p) + Len(q) : r[i] = x
  <2>1. \A x : x \in ToSet(r) <=> \E i \in 1 .. Len(r) : r[i] = x
    BY <1>1, Elements
  <2>2. Len(r) = Len(p) + Len(q)
    BY <1>1
  <2>3. QED
    BY <2>1, <2>2
<1>3. \A x : x \in ToSet(p) <=> \E i \in 1 .. Len(p) : p[i] = x
  BY Elements
<1>4. \A x : x \in ToSet(q) <=> \E i \in 1 .. Len(q) : q[i] = x
  BY Elements
<1>5. ToSet(r) = ToSet(p) \cup ToSet(q)
  <2>1. ASSUME NEW x \in ToSet(r) PROVE x \in ToSet(p) \cup ToSet(q)
    <3>1. PICK i \in 1 .. Len(p) + Len(q) : r[i] = x
      BY <1>2, <2>1
    <3>2. CASE i <= Len(p)
      <4>1. i \in 1 .. Len(p) /\ p[i] = x
        BY <3>1, <3>2, <1>1
      <4>2. QED
        BY <4>1, <1>3
    <3>3. CASE ~(i <= Len(p))
      <4>1. i - Len(p) \in 1 .. Len(q) /\ q[i - Len(p)] = x
        BY <3>1, <3>3, <1>1
      <4>2. QED
        BY <4>1, <1>4
    <3>4. QED
      BY <3>2, <3>3
  <2>2. ASSUME NEW x \in ToSet(p) PROVE x \in ToSet(r)
    <3>1. PICK i \in 1 .. Len(p) : p[i] = x
      BY <1>3, <2>2
    <3>2. i \in 1 .. Len(p) + Len(q) /\ r[i] = x
      BY <3>1, <1>1
    <3>3. QED
      BY <3>2, <1>2
  <2>3. ASSUME NEW x \in ToSet(q) PROVE x \in ToSet(r)
    <3>1. PICK i \in 1 .. Len(q) : q[i] = x
      BY <1>4, <2>3
    <3>2. /\ i + Len(p) \in 1 .. Len(p) + Len(q)
          /\ ~(i + Len(p) <= Len(p)) /\ (i + Len(p)) - Len(p) = i
      BY <1>1
    <3>3. r[i + Len(p)] = q[(i + Len(p)) - Len(p)]
      BY <3>2, <1>1
    <3>4. r[i + Len(p)] = x
      BY <3>1, <3>2, <3>3
    <3>5. QED
      BY <3>2, <3>4, <1>2
  <2>4. QED
    BY <2>1, <2>2, <2>3
<1>6. ASSUME IsInjective(p), IsInjective(q), ToSet(p) \cap ToSet(q) = {}
      PROVE  IsInjective(r)
  <2>1. \A i, j \in 1 .. Len(p) : p[i] = p[j] => i = j
    BY <1>6, Elements
  <2>2. \A i, j \in 1 .. Len(q) : q[i] = q[j] => i = j
    BY <1>6, Elements
  <2>3. \A i \in 1 .. Len(p), j \in 1 .. Len(q) : p[i] # q[j]
    BY <1>3, <1>4, <1>6
  <2>4. ASSUME NEW i \in 1 .. Len(r), NEW j \in 1 .. Len(r), r[i] = r[j]
        PROVE  i = j
    <3>1. CASE i <= Len(p) /\ j <= Len(p)
      BY <1>1, <2>1, <2>4, <3>1
    <3>2. CASE i <= Len(p) /\ ~(j <= Len(p))
      <4>1. i \in 1 .. Len(p) /\ j - Len(p) \in 1 .. Len(q) /\ p[i] = q[j - Len(p)]
        BY <1>1, <2>4, <3>2
      <4>2. QED
        BY <4>1, <2>3
    <3>3. CASE ~(i <= Len(p)) /\ j <= Len(p)
      <4>1. j \in 1 .. Len(p) /\ i - Len(p) \in 1 .. Len(q) /\ p[j] = q[i - Len(p)]
        BY <1>1, <2>4, <3>3
      <4>2. QED
        BY <4>1, <2>3
    <3>4. CASE ~(i <= Len(p)) /\ ~(j <= Len(p))
      <4>1. /\ i - Len(p) \in 1 .. Len(q) /\ j - Len(p) \in 1 .. Len(q)
            /\ q[i - Len(p)] = q[j - Len(p)]
        BY <1>1, <2>4, <3>4
      <4>2. i - Len(p) = j - Len(p)
        BY <4>1, <2>2
      <4>3. QED
        BY <4>2, <1>1
    <3>5. QED
      BY <3>1, <3>2, <3>3, <3>4
  <2>5. QED
    BY <1>1, <2>4, Elements
<1>7. QED
  BY <1>1, <1>5, <1>6 DEF r

LEMMA OneElement ==
  ASSUME NEW S, NEW x \in S
  PROVE  <<x>> \in Seq(S) /\ ToSet(<<x>>) = {x} /\ IsInjective(<<x>>)
  BY DEF ToSet, IsInjective

(* list_add_tail.                                                          *)
LEMMA AppendElements ==
  ASSUME NEW S, NEW q \in Seq(S), NEW x \in S
  PROVE  /\ Append(q, x) \in Seq(S) /\ Append(q, x) # <<>>
         /\ ToSet(Append(q, x)) = ToSet(q) \cup {x}
         /\ IsInjective(q) /\ x \notin ToSet(q) => IsInjective(Append(q, x))
<1>1. Append(q, x) = q \o <<x>> /\ Append(q, x) # <<>>
  BY AppendIsConcat, AppendProperties
<1>2. <<x>> \in Seq(S) /\ ToSet(<<x>>) = {x} /\ IsInjective(<<x>>)
  BY OneElement
<1>3. /\ q \o <<x>> \in Seq(S)
      /\ ToSet(q \o <<x>>) = ToSet(q) \cup ToSet(<<x>>)
      /\ IsInjective(q) /\ IsInjective(<<x>>) /\ ToSet(q) \cap ToSet(<<x>>) = {}
           => IsInjective(q \o <<x>>)
  BY <1>2, ConcatElements
<1>4. QED
  BY <1>1, <1>2, <1>3

(* list_add.                                                               *)
LEMMA ConsElements ==
  ASSUME NEW S, NEW q \in Seq(S), NEW x \in S
  PROVE  /\ <<x>> \o q \in Seq(S)
         /\ ToSet(<<x>> \o q) = {x} \cup ToSet(q)
         /\ IsInjective(q) /\ x \notin ToSet(q) => IsInjective(<<x>> \o q)
<1>1. <<x>> \in Seq(S) /\ ToSet(<<x>>) = {x} /\ IsInjective(<<x>>)
  BY OneElement
<1>2. /\ <<x>> \o q \in Seq(S)
      /\ ToSet(<<x>> \o q) = ToSet(<<x>>) \cup ToSet(q)
      /\ IsInjective(<<x>>) /\ IsInjective(q) /\ ToSet(<<x>>) \cap ToSet(q) = {}
           => IsInjective(<<x>> \o q)
  BY <1>1, ConcatElements
<1>3. QED
  BY <1>1, <1>2

(* list_first and list_delete of it.                                       *)
LEMMA HeadTailElements ==
  ASSUME NEW S, NEW q \in Seq(S), q # <<>>
  PROVE  /\ Head(q) \in S /\ Tail(q) \in Seq(S)
         /\ ToSet(q) = {Head(q)} \cup ToSet(Tail(q))
         /\ IsInjective(q) => IsInjective(Tail(q)) /\ Head(q) \notin ToSet(Tail(q))
<1> DEFINE h == Head(q)
           r == Tail(q)
           n == Len(q)
<1>1. /\ h \in S /\ r \in Seq(S) /\ Len(r) = n - 1 /\ n \in Nat \ {0} /\ h = q[1]
      /\ \A i \in 1 .. n - 1 : r[i] = q[i + 1]
  <2>1. n \in Nat \ {0}
    BY EmptySeq
  <2>2. QED
    BY <2>1, HeadTailProperties
<1>2. \A x : x \in ToSet(q) <=> \E i \in 1 .. n : q[i] = x
  BY Elements
<1> HIDE DEF h, r, n
<1>3. \A x : x \in ToSet(r) <=> \E i \in 1 .. n - 1 : r[i] = x
  BY <1>1, Elements
<1>4. ASSUME NEW x PROVE x \in ToSet(q) <=> x = h \/ x \in ToSet(r)
  <2>1. ASSUME x \in ToSet(q), x # h PROVE x \in ToSet(r)
    <3>1. PICK i \in 1 .. n : q[i] = x
      BY <1>2, <2>1
    <3>2. i # 1
      BY <3>1, <2>1, <1>1
    <3>3. i - 1 \in 1 .. n - 1 /\ r[i - 1] = q[(i - 1) + 1] /\ (i - 1) + 1 = i
      BY <1>1, <3>2
    <3>4. QED
      BY <3>1, <3>3, <1>3
  <2>2. ASSUME x \in ToSet(r) PROVE x \in ToSet(q)
    <3>1. PICK i \in 1 .. n - 1 : r[i] = x
      BY <1>3, <2>2
    <3>2. i + 1 \in 1 .. n /\ q[i + 1] = x
      BY <3>1, <1>1
    <3>3. QED
      BY <3>2, <1>2
  <2>3. h \in ToSet(q)
    <3>1. 1 \in 1 .. n
      BY <1>1
    <3>2. QED
      BY <3>1, <1>1, <1>2
  <2>4. QED
    BY <2>1, <2>2, <2>3
<1>5. ASSUME IsInjective(q) PROVE IsInjective(r) /\ h \notin ToSet(r)
  <2>1. \A i, j \in 1 .. n : q[i] = q[j] => i = j
    BY <1>5, Elements DEF n
  <2>2. \A i, j \in 1 .. n - 1 : r[i] = r[j] => i = j
    <3> SUFFICES ASSUME NEW i \in 1 .. n - 1, NEW j \in 1 .. n - 1, r[i] = r[j]
                 PROVE  i = j
      OBVIOUS
    <3>1. q[i + 1] = q[j + 1] /\ i + 1 \in 1 .. n /\ j + 1 \in 1 .. n
      BY <1>1
    <3>2. i + 1 = j + 1
      BY <3>1, <2>1
    <3>3. QED
      BY <3>2
  <2>3. IsInjective(r)
    BY <1>1, <2>2, Elements
  <2>4. ASSUME h \in ToSet(r) PROVE FALSE
    <3>1. PICK i \in 1 .. n - 1 : r[i] = h
      BY <2>4, <1>3
    <3>2. q[i + 1] = q[1] /\ i + 1 \in 1 .. n /\ 1 \in 1 .. n /\ i + 1 # 1
      BY <3>1, <1>1
    <3>3. QED
      BY <3>2, <2>1
  <2>5. QED
    BY <2>3, <2>4
<1>6. QED
  BY <1>1, <1>4, <1>5 DEF h, r

(* cv_notify: the first is taken off, the others stay.                     *)
LEMMA NotifiedElements ==
  ASSUME NEW S, NEW q \in Seq(S), IsInjective(q)
  PROVE  /\ First(q) \in Seq(S) /\ Others(q) \in Seq(S)
         /\ IsInjective(First(q)) /\ IsInjective(Others(q))
         /\ ToSet(First(q)) \cup ToSet(Others(q)) = ToSet(q)
         /\ ToSet(First(q)) \cap ToSet(Others(q)) = {}
         /\ \A x, y \in ToSet(First(q)) : x = y
         /\ q # <<>> => First(q) # <<>>
<1>1. CASE q = <<>>
  BY <1>1, EmptyList DEF First, Others
<1>2. CASE q # <<>>
  <2>1. First(q) = <<Head(q)>> /\ Others(q) = Tail(q) /\ <<Head(q)>> # <<>>
    BY <1>2 DEF First, Others
  <2>2. QED
    BY <1>2, <2>1, HeadTailElements, OneElement
<1>3. QED
  BY <1>1, <1>2

(* cv_notify_all.                                                          *)
LEMMA ReverseElements ==
  ASSUME NEW S, NEW q \in Seq(S), IsInjective(q)
  PROVE  Reverse(q) \in Seq(S) /\ ToSet(Reverse(q)) = ToSet(q) /\ IsInjective(Reverse(q))
<1> DEFINE n == Len(q)
           r == Reverse(q)
<1>1. n \in Nat /\ r = [i \in 1 .. n |-> q[(n - i) + 1]]
  BY LenProperties DEF Reverse
<1>2. r \in Seq(S)
  BY ReverseType
<1>3. DOMAIN r = 1 .. n /\ DOMAIN q = 1 .. n
  BY <1>1, LenProperties
<1> HIDE DEF n, r
<1>4. \A i \in 1 .. n : (n - i) + 1 \in 1 .. n /\ r[i] = q[(n - i) + 1] /\ (n - ((n - i) + 1)) + 1 = i
  BY <1>1
<1>5. ToSet(r) = ToSet(q)
  BY <1>3, <1>4 DEF ToSet
<1>6. IsInjective(r)
  <2> SUFFICES ASSUME NEW i \in 1 .. n, NEW j \in 1 .. n, r[i] = r[j]
               PROVE  i = j
    BY <1>3 DEF IsInjective
  <2>1. (n - i) + 1 = (n - j) + 1
    BY <1>3, <1>4 DEF IsInjective
  <2>2. QED
    BY <2>1, <1>1
<1>7. QED
  BY <1>2, <1>5, <1>6 DEF r

(* list_delete of a thread that may be on the list.                        *)
LEMMA WithoutElements ==
  ASSUME NEW S, NEW q \in Seq(S), NEW x, IsInjective(q)
  PROVE  /\ Without(q, x) \in Seq(S)
         /\ ToSet(Without(q, x)) = ToSet(q) \ {x}
         /\ IsInjective(Without(q, x))
<1>1. CASE x \notin ToSet(q)
  <2>1. Without(q, x) = q
    BY <1>1, Elements DEF Without
  <2>2. QED
    BY <1>1, <2>1
<1>2. CASE x \in ToSet(q)
  <2> DEFINE k == CHOOSE i \in 1 .. Len(q) : q[i] = x
             a == SubSeq(q, 1, k - 1)
             b == SubSeq(q, k + 1, Len(q))
             n == Len(q)
  <2>1. k \in 1 .. n /\ q[k] = x /\ Without(q, x) = a \o b /\ n \in Nat
    <3>1. \E i \in 1 .. Len(q) : q[i] = x
      BY <1>2, Elements
    <3>2. k \in 1 .. n /\ q[k] = x
      BY <3>1
    <3>3. QED
      BY <3>1, <3>2, Elements DEF Without, RemoveAt
  <2>2. \A i, j \in 1 .. n : q[i] = q[j] => i = j
    BY Elements
  <2>3. \A i \in 1 .. n : q[i] \in S
    BY Elements, ElementOfSeq
  <2> HIDE DEF k, n
  <2>4. /\ a \in Seq(S) /\ Len(a) = k - 1
        /\ \A i \in 1 .. k - 1 : a[i] = q[i]
    <3>1. \A i \in 1 .. k - 1 : q[i] \in S
      BY <2>1, <2>3
    <3>2. QED
      BY <2>1, <3>1, SubSeqProperties
  <2>5. /\ b \in Seq(S) /\ Len(b) = n - k
        /\ \A i \in 1 .. n - k : b[i] = q[k + i]
    <3>1. \A i \in k + 1 .. n : q[i] \in S
      BY <2>1, <2>3
    <3>2. /\ SubSeq(q, k + 1, n) \in Seq(S)
          /\ Len(SubSeq(q, k + 1, n)) = IF k + 1 <= n THEN n - (k + 1) + 1 ELSE 0
          /\ \A i \in 1 .. n - (k + 1) + 1 : SubSeq(q, k + 1, n)[i] = q[(k + 1) + i - 1]
      BY <2>1, <3>1, SubSeqProperties
    <3>3. \A i \in 1 .. n - k : i \in 1 .. n - (k + 1) + 1 /\ (k + 1) + i - 1 = k + i
      BY <2>1
    <3>4. (IF k + 1 <= n THEN n - (k + 1) + 1 ELSE 0) = n - k
      BY <2>1
    <3>5. QED
      BY <3>2, <3>3, <3>4 DEF n
  <2> HIDE DEF a, b
  <2>6. \A y : y \in ToSet(a) <=> \E i \in 1 .. k - 1 : q[i] = y
    BY <2>4, Elements
  <2>7. \A y : y \in ToSet(b) <=> \E i \in 1 .. n - k : q[k + i] = y
    BY <2>5, Elements
  <2>8. \A y : y \in ToSet(q) <=> \E i \in 1 .. n : q[i] = y
    BY Elements DEF n
  <2>9. ToSet(a) \cup ToSet(b) = ToSet(q) \ {x}
    <3>1. ASSUME NEW y \in ToSet(a) PROVE y \in ToSet(q) \ {x}
      <4>1. PICK i \in 1 .. k - 1 : q[i] = y
        BY <2>6, <3>1
      <4>2. i \in 1 .. n /\ i # k
        BY <2>1
      <4>3. QED
        BY <4>1, <4>2, <2>1, <2>2, <2>8
    <3>2. ASSUME NEW y \in ToSet(b) PROVE y \in ToSet(q) \ {x}
      <4>1. PICK i \in 1 .. n - k : q[k + i] = y
        BY <2>7, <3>2
      <4>2. k + i \in 1 .. n /\ k + i # k
        BY <2>1
      <4>3. QED
        BY <4>1, <4>2, <2>1, <2>2, <2>8
    <3>3. ASSUME NEW y \in ToSet(q), y # x PROVE y \in ToSet(a) \cup ToSet(b)
      <4>1. PICK i \in 1 .. n : q[i] = y
        BY <2>8, <3>3
      <4>2. i # k
        BY <4>1, <3>3, <2>1
      <4>3. CASE i < k
        <5>1. i \in 1 .. k - 1
          BY <4>3, <2>1
        <5>2. QED
          BY <4>1, <5>1, <2>6
      <4>4. CASE i > k
        <5>1. i - k \in 1 .. n - k /\ k + (i - k) = i
          BY <4>4, <2>1
        <5>2. QED
          BY <4>1, <5>1, <2>7
      <4>5. QED
        BY <4>2, <4>3, <4>4, <2>1
    <3>4. QED
      BY <3>1, <3>2, <3>3
  <2>10. IsInjective(a)
    <3>1. \A i, j \in 1 .. k - 1 : a[i] = a[j] => i = j
      BY <2>1, <2>2, <2>4
    <3>2. QED
      BY <3>1, <2>4, Elements
  <2>11. IsInjective(b)
    <3> SUFFICES ASSUME NEW i \in 1 .. n - k, NEW j \in 1 .. n - k, b[i] = b[j]
                 PROVE  i = j
      BY <2>5, Elements
    <3>1. q[k + i] = q[k + j] /\ k + i \in 1 .. n /\ k + j \in 1 .. n
      BY <2>1, <2>5
    <3>2. k + i = k + j
      BY <3>1, <2>2
    <3>3. QED
      BY <3>2, <2>1
  <2>12. ToSet(a) \cap ToSet(b) = {}
    <3> SUFFICES ASSUME NEW y, y \in ToSet(a), y \in ToSet(b) PROVE FALSE
      OBVIOUS
    <3>1. PICK i \in 1 .. k - 1 : q[i] = y
      BY <2>6
    <3>2. PICK j \in 1 .. n - k : q[k + j] = y
      BY <2>7
    <3>3. i \in 1 .. n /\ k + j \in 1 .. n /\ i # k + j
      BY <2>1
    <3>4. QED
      BY <3>1, <3>2, <3>3, <2>2
  <2>13. QED
    BY <2>1, <2>4, <2>5, <2>9, <2>10, <2>11, <2>12, ConcatElements
<1>3. QED
  BY <1>1, <1>2
----------------------------------------------------------------------------
(* What a step may do to the lists.                                        *)

Awake == ToSet(alive) \cup {current}

RunQueue == IsInjective(alive) /\ current \notin ToSet(alive)

(* The threads that are over and not taken off the dead list yet.          *)
Dead == {u \in Thread : pc[u] = "dead" /\ \A t \in Thread : Buried(t) => target[t] # u}

Lists ==
  /\ ~halted /\ IdleLives
  /\ SchedulerLists /\ WaitingLists
  /\ NoLostWakeup /\ NoLostDeath

(* A step of the current thread after which the same threads live, and the *)
(* others are where they were.                                             *)
PointsKept ==
  /\ IdleLives'
  /\ Living' = Living
  /\ Dead' = Dead
  /\ \A t \in Living \ {current} : pc'[t] = pc[t] /\ want'[t] = want[t]

LEMMA SchedulerListsParts ==
  ASSUME SchedType
  PROVE  SchedulerLists <=> /\ RunQueue
                            /\ Awake \cap sleep = {} /\ Awake \cup sleep = Living
                            /\ dead = Dead
  BY DEF SchedulerLists, RunQueue, Awake, Dead

LEMMA SchedulerListsPartsNext ==
  ASSUME RunQueue', (Awake \cap sleep = {})', (Awake \cup sleep = Living)', (dead = Dead)'
  PROVE  SchedulerLists'
  BY DEF SchedulerLists, RunQueue, Awake, Dead

(* A wake-up puts sleeping threads on the alive list, once.                *)
LEMMA WokenElements ==
  ASSUME SchedType, SchedulerLists, NEW woken \in Seq(Thread), IsInjective(woken),
         ToSet(woken) \subseteq sleep
  PROVE  /\ woken \o alive \in Seq(Thread)
         /\ ToSet(woken \o alive) = ToSet(woken) \cup ToSet(alive)
         /\ IsInjective(woken \o alive)
         /\ current \notin ToSet(woken \o alive)
<1>1. alive \in Seq(Thread) /\ IsInjective(alive)
  BY DEF SchedType, SchedulerLists
<1>2. ToSet(woken) \cap ToSet(alive) = {}
  BY DEF SchedulerLists
<1>3. /\ woken \o alive \in Seq(Thread)
      /\ ToSet(woken \o alive) = ToSet(woken) \cup ToSet(alive)
      /\ IsInjective(woken) /\ IsInjective(alive) /\ ToSet(woken) \cap ToSet(alive) = {}
           => IsInjective(woken \o alive)
  BY <1>1, ConcatElements
<1>4. QED
  BY <1>1, <1>2, <1>3 DEF SchedulerLists

LEMMA WakeElements ==
  ASSUME SchedType, SchedulerLists, NEW woken \in Seq(Thread), IsInjective(woken),
         ToSet(woken) \subseteq sleep, Wake(woken)
  PROVE  /\ RunQueue' /\ Awake' = Awake \cup ToSet(woken)
         /\ sleep' = sleep \ ToSet(woken) /\ UNCHANGED <<dead, halted>>
<1>1. /\ ToSet(woken \o alive) = ToSet(woken) \cup ToSet(alive)
      /\ IsInjective(woken \o alive)
      /\ current \notin ToSet(woken \o alive)
  BY WokenElements
<1>2. alive' = woken \o alive /\ current' = current
  BY DEF Wake
<1>3. RunQueue'
  BY <1>1, <1>2 DEF RunQueue
<1>4. Awake' = Awake \cup ToSet(woken)
  BY <1>1, <1>2 DEF Awake
<1>5. QED
  BY <1>3, <1>4 DEF Wake

(* schedule() switches to the head of a list that is not empty.            *)
LEMMA ScheduleElements ==
  ASSUME SchedType, NEW state, NEW ready \in Seq(Thread), NEW asleep \in SUBSET Thread,
         IsInjective(ready), current \notin ToSet(ready),
         state = "ALIVE" \/ ToSet(ready) # {},
         Schedule(state, ready, asleep)
  PROVE  /\ RunQueue' /\ halted' = halted
         /\ Awake' = IF state = "ALIVE" THEN ToSet(ready) \cup {current} ELSE ToSet(ready)
         /\ sleep' = IF state = "SLEEP" THEN asleep \cup {current} ELSE asleep
         /\ dead' = IF state = "DEAD" THEN dead \cup {current} ELSE dead
<1> DEFINE queue == IF state = "ALIVE" THEN Append(ready, current) ELSE ready
<1>1. /\ Append(ready, current) \in Seq(Thread) /\ Append(ready, current) # <<>>
      /\ ToSet(Append(ready, current)) = ToSet(ready) \cup {current}
      /\ IsInjective(ready) /\ current \notin ToSet(ready) => IsInjective(Append(ready, current))
  BY AppendElements DEF SchedType
<1>2. /\ queue \in Seq(Thread) /\ queue # <<>> /\ IsInjective(queue)
      /\ ToSet(queue) = IF state = "ALIVE" THEN ToSet(ready) \cup {current} ELSE ToSet(ready)
  BY <1>1, EmptyList
<1>3. /\ sleep' = IF state = "SLEEP" THEN asleep \cup {current} ELSE asleep
      /\ dead' = IF state = "DEAD" THEN dead \cup {current} ELSE dead
      /\ current' = Head(queue) /\ alive' = Tail(queue) /\ halted' = halted
  BY <1>2 DEF Schedule
<1> HIDE DEF queue
<1>4. /\ ToSet(queue) = {Head(queue)} \cup ToSet(Tail(queue))
      /\ IsInjective(Tail(queue)) /\ Head(queue) \notin ToSet(Tail(queue))
  BY <1>2, HeadTailElements
<1>5. RunQueue' /\ Awake' = ToSet(queue)
  BY <1>3, <1>4 DEF RunQueue, Awake
<1>6. QED
  BY <1>2, <1>3, <1>5

(* The idle thread is always awake: schedule finds it.                     *)
LEMMA IdleAwake ==
  ASSUME TypeOK, Targets, IdleLives, SchedulerLists, WaitingLists
  PROVE  Idle \in Awake /\ Idle \notin sleep /\ current \in Living
<1>1. Idle \in Living
  BY IdleAssumption DEF TypeOK, Targets, IdleLives, Living, PC
<1>2. Idle \notin sleep
  BY DEF WaitingLists
<1>3. QED
  BY <1>1, <1>2 DEF SchedulerLists, Awake

----------------------------------------------------------------------------
(* The parts of Lists, one by one.                                         *)

(* Threads move between the alive and the sleep list.                      *)
LEMMA SchedulerStep ==
  ASSUME SchedType, SchedulerLists, RunQueue',
         Awake' \cap sleep' = {}, Awake' \cup sleep' = Awake \cup sleep,
         dead' = dead, Living' = Living, Dead' = Dead
  PROVE  SchedulerLists'
<1>1. Awake \cup sleep = Living /\ dead = Dead
  BY SchedulerListsParts
<1>2. QED
  BY <1>1, SchedulerListsPartsNext

(* The waiting lists lose the threads that are woken, and no other.        *)
LEMMA WaitingShrinks ==
  ASSUME WaitingLists, NEW gone, sleep' = sleep \ gone,
         \A m \in Mutex : /\ ToSet(lockers'[m]) = ToSet(lockers[m]) \ gone
                          /\ IsInjective(lockers'[m]),
         \A c \in Cond : /\ ToSet(waiters'[c]) = ToSet(waiters[c]) \ gone
                         /\ IsInjective(waiters'[c]),
         \A t \in sleep : pc'[t] = pc[t] /\ want'[t] = want[t]
  PROVE  WaitingLists'
<1>1. \A m \in Mutex : \A t \in ToSet(lockers'[m]) :
        t \in sleep' \ {Idle} /\ pc'[t] = "lock" /\ want'[t] = m
  BY DEF WaitingLists
<1>2. \A c \in Cond : \A t \in ToSet(waiters'[c]) :
        t \in sleep' \ {Idle} /\ pc'[t] = "lock" /\ want'[t] = MutexOf(c)
  BY DEF WaitingLists
<1>3. \A m \in Mutex, c \in Cond : ToSet(lockers'[m]) \cap ToSet(waiters'[c]) = {}
  BY DEF WaitingLists
<1>4. \A c, d \in Cond : c # d => ToSet(waiters'[c]) \cap ToSet(waiters'[d]) = {}
  BY DEF WaitingLists
<1>5. \A t \in sleep' : \/ \E m \in Mutex : t \in ToSet(lockers'[m])
                        \/ \E c \in Cond : t \in ToSet(waiters'[c])
  BY DEF WaitingLists
<1>6. QED
  BY <1>1, <1>2, <1>3, <1>4, <1>5 DEF WaitingLists

(* A mutex that is free has somebody awake to test it again.               *)
LEMMA WakeupStep ==
  ASSUME NoLostWakeup,
         \A k \in Mutex : ~occupied'[k] /\ lockers'[k] # <<>> =>
           \/ ~occupied[k] /\ lockers[k] # <<>>
           \/ \E t \in Awake' : pc'[t] = "lock" /\ want'[t] = k,
         \A t \in Awake : pc[t] = "lock" =>
           \/ t \in Awake' /\ pc'[t] = "lock" /\ want'[t] = want[t]
           \/ occupied'[want[t]]
  PROVE  NoLostWakeup'
<1> SUFFICES ASSUME NEW k \in Mutex, ~occupied'[k], lockers'[k] # <<>>
             PROVE  \E t \in Awake' : pc'[t] = "lock" /\ want'[t] = k
  BY DEF NoLostWakeup, Awake
<1>1. CASE ~occupied[k] /\ lockers[k] # <<>>
  <2>1. PICK t \in Awake : pc[t] = "lock" /\ want[t] = k
    BY <1>1 DEF NoLostWakeup, Awake
  <2>2. QED
    BY <2>1
<1>2. QED
  BY <1>1

LEMMA DeathStep ==
  ASSUME TypeOK, TypeOK', NoLostDeath, UNCHANGED is_over,
         \A c \in Cond : ToSet(waiters'[c]) \subseteq ToSet(waiters[c])
  PROVE  NoLostDeath'
<1> SUFFICES ASSUME NEW u \in Thread, is_over[u] PROVE waiters'[u] = <<>>
  BY DEF NoLostDeath
<1>1. u \in Cond
  BY MutexFacts
<1>2. waiters[u] \in Seq(Thread) /\ waiters'[u] \in Seq(Thread)
  BY <1>1 DEF TypeOK
<1>3. ToSet(waiters[u]) = {}
  BY EmptyList DEF NoLostDeath
<1>4. ToSet(waiters'[u]) = {}
  BY <1>1, <1>3
<1>5. QED
  BY <1>2, <1>4, EmptyList
----------------------------------------------------------------------------
(* What notifications take off the waiting lists.                          *)

(* mutex_unlock: the first locker is on no other list.                     *)
LEMMA UnlockTakes ==
  ASSUME TypeOK, WaitingLists, NEW m \in Mutex,
         lockers' = [lockers EXCEPT ![m] = Others(@)]
  PROVE  /\ First(lockers[m]) \in Seq(Thread) /\ IsInjective(First(lockers[m]))
         /\ ToSet(First(lockers[m])) \subseteq sleep
         /\ \A k \in Mutex : /\ ToSet(lockers'[k]) = ToSet(lockers[k]) \ ToSet(First(lockers[m]))
                             /\ IsInjective(lockers'[k])
                             /\ k # m => lockers'[k] = lockers[k]
         /\ \A c \in Cond : ToSet(waiters[c]) = ToSet(waiters[c]) \ ToSet(First(lockers[m]))
         /\ \A t \in ToSet(First(lockers[m])) : pc[t] = "lock" /\ want[t] = m
         /\ lockers'[m] # <<>> => ToSet(First(lockers[m])) # {}
<1> DEFINE w == First(lockers[m])
           q == lockers[m]
<1>1. q \in Seq(Thread) /\ IsInjective(q) /\ lockers'[m] = Others(q)
  BY DEF TypeOK, WaitingLists
<1>2. \A k \in Mutex : k # m => lockers'[k] = lockers[k]
  BY DEF TypeOK
<1>3. /\ First(q) \in Seq(Thread) /\ Others(q) \in Seq(Thread)
      /\ IsInjective(First(q)) /\ IsInjective(Others(q))
      /\ ToSet(First(q)) \cup ToSet(Others(q)) = ToSet(q)
      /\ ToSet(First(q)) \cap ToSet(Others(q)) = {}
      /\ q # <<>> => First(q) # <<>>
  BY <1>1, NotifiedElements
<1>4. \A t \in ToSet(q) : t \in sleep /\ pc[t] = "lock" /\ want[t] = m
  BY DEF WaitingLists
<1>5. \A k \in Mutex : k # m => ToSet(lockers[k]) \cap ToSet(q) = {}
  BY DEF WaitingLists
<1>6. \A c \in Cond : ToSet(waiters[c]) \cap ToSet(q) = {}
  BY DEF WaitingLists
<1>7. Others(q) # <<>> => ToSet(First(q)) # {}
  <2>1. q = <<>> => Others(q) = <<>>
    BY DEF Others
  <2>2. ToSet(First(q)) = {} <=> First(q) = <<>>
    BY <1>3, EmptyList
  <2>3. QED
    BY <2>1, <2>2, <1>3
<1>8. ASSUME NEW k \in Mutex
      PROVE  /\ ToSet(lockers'[k]) = ToSet(lockers[k]) \ ToSet(w)
             /\ IsInjective(lockers'[k])
  <2>1. CASE k = m
    BY <2>1, <1>1, <1>3
  <2>2. CASE k # m
    BY <2>2, <1>2, <1>3, <1>5 DEF WaitingLists
  <2>3. QED
    BY <2>1, <2>2
<1>9. QED
  BY <1>1, <1>2, <1>3, <1>4, <1>6, <1>7, <1>8

(* cv_notify: the same for the first waiter.                               *)
LEMMA NotifyTakes ==
  ASSUME TypeOK, WaitingLists, NEW c \in Cond,
         waiters' = [waiters EXCEPT ![c] = Others(@)]
  PROVE  /\ First(waiters[c]) \in Seq(Thread) /\ IsInjective(First(waiters[c]))
         /\ ToSet(First(waiters[c])) \subseteq sleep
         /\ \A d \in Cond : /\ ToSet(waiters'[d]) = ToSet(waiters[d]) \ ToSet(First(waiters[c]))
                            /\ IsInjective(waiters'[d])
         /\ \A m \in Mutex : ToSet(lockers[m]) = ToSet(lockers[m]) \ ToSet(First(waiters[c]))
         /\ \A t \in ToSet(First(waiters[c])) : pc[t] = "lock" /\ want[t] = MutexOf(c)
<1> DEFINE w == First(waiters[c])
           q == waiters[c]
<1>1. q \in Seq(Thread) /\ IsInjective(q) /\ waiters'[c] = Others(q)
  BY DEF TypeOK, WaitingLists
<1>2. \A d \in Cond : d # c => waiters'[d] = waiters[d]
  BY DEF TypeOK
<1>3. /\ First(q) \in Seq(Thread) /\ Others(q) \in Seq(Thread)
      /\ IsInjective(First(q)) /\ IsInjective(Others(q))
      /\ ToSet(First(q)) \cup ToSet(Others(q)) = ToSet(q)
      /\ ToSet(First(q)) \cap ToSet(Others(q)) = {}
  BY <1>1, NotifiedElements
<1>4. \A t \in ToSet(q) : t \in sleep /\ pc[t] = "lock" /\ want[t] = MutexOf(c)
  BY DEF WaitingLists
<1>5. \A d \in Cond : d # c => ToSet(waiters[d]) \cap ToSet(q) = {}
  BY DEF WaitingLists
<1>6. \A m \in Mutex : ToSet(lockers[m]) \cap ToSet(q) = {}
  BY DEF WaitingLists
<1>7. ASSUME NEW d \in Cond
      PROVE  /\ ToSet(waiters'[d]) = ToSet(waiters[d]) \ ToSet(w)
             /\ IsInjective(waiters'[d])
  <2>1. CASE d = c
    BY <2>1, <1>1, <1>3
  <2>2. CASE d # c
    BY <2>2, <1>2, <1>3, <1>5 DEF WaitingLists
  <2>3. QED
    BY <2>1, <2>2
<1>8. QED
  BY <1>1, <1>3, <1>4, <1>6, <1>7

(* cv_notify_all: every waiter, in the order of the notifications.         *)
LEMMA NotifyAllTakes ==
  ASSUME TypeOK, WaitingLists, NEW c \in Cond,
         waiters' = [waiters EXCEPT ![c] = <<>>]
  PROVE  /\ Reverse(waiters[c]) \in Seq(Thread) /\ IsInjective(Reverse(waiters[c]))
         /\ ToSet(Reverse(waiters[c])) \subseteq sleep
         /\ \A d \in Cond : /\ ToSet(waiters'[d]) = ToSet(waiters[d]) \ ToSet(Reverse(waiters[c]))
                            /\ IsInjective(waiters'[d])
         /\ \A m \in Mutex : ToSet(lockers[m]) = ToSet(lockers[m]) \ ToSet(Reverse(waiters[c]))
<1> DEFINE w == Reverse(waiters[c])
           q == waiters[c]
<1>1. q \in Seq(Thread) /\ IsInjective(q) /\ waiters'[c] = <<>>
  BY DEF TypeOK, WaitingLists
<1>2. \A d \in Cond : d # c => waiters'[d] = waiters[d]
  BY DEF TypeOK
<1>3. w \in Seq(Thread) /\ ToSet(w) = ToSet(q) /\ IsInjective(w)
  BY <1>1, ReverseElements
<1>4. \A t \in ToSet(q) : t \in sleep
  BY DEF WaitingLists
<1>5. \A d \in Cond : d # c => ToSet(waiters[d]) \cap ToSet(q) = {}
  BY DEF WaitingLists
<1>6. \A m \in Mutex : ToSet(lockers[m]) \cap ToSet(q) = {}
  BY DEF WaitingLists
<1>7. ASSUME NEW d \in Cond
      PROVE  /\ ToSet(waiters'[d]) = ToSet(waiters[d]) \ ToSet(w)
             /\ IsInjective(waiters'[d])
  <2>1. CASE d = c
    BY <2>1, <1>1, <1>3, EmptyList
  <2>2. CASE d # c
    BY <2>2, <1>2, <1>3, <1>5 DEF WaitingLists
  <2>3. QED
    BY <2>1, <2>2
<1>8. QED
  BY <1>3, <1>4, <1>6, <1>7

(* cv_wait puts the current thread on the list of c, after `gone` left.    *)
LEMMA WaiterAdded ==
  ASSUME TypeOK, TypeOK', WaitingLists, NEW gone, NEW c \in Cond,
         current # Idle, current \notin sleep,
         sleep' = (sleep \ gone) \cup {current},
         \A m \in Mutex : /\ ToSet(lockers'[m]) = ToSet(lockers[m]) \ gone
                          /\ IsInjective(lockers'[m]),
         \A d \in Cond : ToSet(waiters[d]) = ToSet(waiters[d]) \ gone,
         waiters' = [waiters EXCEPT ![c] = <<current>> \o @],
         \A t \in sleep : pc'[t] = pc[t] /\ want'[t] = want[t],
         pc'[current] = "lock", want'[current] = MutexOf(c)
  PROVE  WaitingLists'
<1>1. \A d \in Cond : waiters[d] \in Seq(Thread) /\ IsInjective(waiters[d]) /\ current \in Thread
  BY DEF TypeOK, WaitingLists
<1>2. current \notin ToSet(waiters[c])
  BY DEF WaitingLists
<1>3. /\ ToSet(<<current>> \o waiters[c]) = {current} \cup ToSet(waiters[c])
      /\ IsInjective(waiters[c]) /\ current \notin ToSet(waiters[c])
           => IsInjective(<<current>> \o waiters[c])
  BY <1>1, ConsElements
<1>4. /\ ToSet(waiters'[c]) = ToSet(waiters[c]) \cup {current} /\ IsInjective(waiters'[c])
      /\ \A d \in Cond \ {c} : waiters'[d] = waiters[d]
  BY <1>1, <1>2, <1>3 DEF TypeOK
<1>5. \A d \in Cond : /\ ToSet(waiters'[d]) = ToSet(waiters[d]) \cup IF d = c THEN {current} ELSE {}
                      /\ IsInjective(waiters'[d])
  BY <1>1, <1>4
<1>6. \A m \in Mutex : \A t \in ToSet(lockers'[m]) :
        t \in sleep' \ {Idle} /\ pc'[t] = "lock" /\ want'[t] = m
  BY DEF WaitingLists
<1>7. \A d \in Cond : \A t \in ToSet(waiters'[d]) :
        t \in sleep' \ {Idle} /\ pc'[t] = "lock" /\ want'[t] = MutexOf(d)
  BY <1>5 DEF WaitingLists
<1>8. ASSUME NEW m \in Mutex, NEW d \in Cond
      PROVE  ToSet(lockers'[m]) \cap ToSet(waiters'[d]) = {}
  <2>1. ToSet(lockers[m]) \cap ToSet(waiters[d]) = {} /\ current \notin ToSet(lockers[m])
    BY DEF WaitingLists
  <2>2. /\ ToSet(lockers'[m]) \subseteq ToSet(lockers[m])
        /\ ToSet(waiters'[d]) \subseteq ToSet(waiters[d]) \cup {current}
    BY <1>5
  <2>3. QED
    BY <2>1, <2>2
<1>9. ASSUME NEW d \in Cond, NEW e \in Cond, d # e
      PROVE  ToSet(waiters'[d]) \cap ToSet(waiters'[e]) = {}
  <2>1. /\ ToSet(waiters[d]) \cap ToSet(waiters[e]) = {}
        /\ current \notin ToSet(waiters[d]) \cup ToSet(waiters[e])
    BY <1>9 DEF WaitingLists
  <2>2. /\ ToSet(waiters'[d]) = ToSet(waiters[d]) \cup IF d = c THEN {current} ELSE {}
        /\ ToSet(waiters'[e]) = ToSet(waiters[e]) \cup IF e = c THEN {current} ELSE {}
    BY <1>5
  <2>3. QED
    BY <2>1, <2>2, <1>9
<1>10. \A t \in sleep' : \/ \E m \in Mutex : t \in ToSet(lockers'[m])
                         \/ \E d \in Cond : t \in ToSet(waiters'[d])
  BY <1>5 DEF WaitingLists
<1>11. QED
  BY <1>5, <1>6, <1>7, <1>8, <1>9, <1>10 DEF WaitingLists

(* mutex_lock puts it on the list of the mutex it finds occupied.          *)
LEMMA LockerAdded ==
  ASSUME TypeOK, TypeOK', WaitingLists, NEW m \in Mutex,
         current # Idle, current \notin sleep, sleep' = sleep \cup {current},
         lockers' = [lockers EXCEPT ![m] = <<current>> \o @],
         UNCHANGED <<waiters, pc, want>>,
         pc[current] = "lock", want[current] = m
  PROVE  WaitingLists'
<1>1. \A k \in Mutex : lockers[k] \in Seq(Thread) /\ IsInjective(lockers[k]) /\ current \in Thread
  BY DEF TypeOK, WaitingLists
<1>2. current \notin ToSet(lockers[m])
  BY DEF WaitingLists
<1>3. /\ ToSet(<<current>> \o lockers[m]) = {current} \cup ToSet(lockers[m])
      /\ IsInjective(lockers[m]) /\ current \notin ToSet(lockers[m])
           => IsInjective(<<current>> \o lockers[m])
  BY <1>1, ConsElements
<1>4. /\ ToSet(lockers'[m]) = ToSet(lockers[m]) \cup {current} /\ IsInjective(lockers'[m])
      /\ \A k \in Mutex \ {m} : lockers'[k] = lockers[k]
  BY <1>1, <1>2, <1>3 DEF TypeOK
<1>5. \A k \in Mutex : /\ ToSet(lockers'[k]) = ToSet(lockers[k]) \cup IF k = m THEN {current} ELSE {}
                       /\ IsInjective(lockers'[k])
  BY <1>1, <1>4
<1>6. \A k \in Mutex : \A t \in ToSet(lockers'[k]) :
        t \in sleep' \ {Idle} /\ pc'[t] = "lock" /\ want'[t] = k
  BY <1>5 DEF WaitingLists
<1>7. \A d \in Cond : \A t \in ToSet(waiters'[d]) :
        t \in sleep' \ {Idle} /\ pc'[t] = "lock" /\ want'[t] = MutexOf(d)
  BY DEF WaitingLists
<1>8. \A k \in Mutex, d \in Cond : ToSet(lockers'[k]) \cap ToSet(waiters'[d]) = {}
  BY <1>5 DEF WaitingLists
<1>9. \A t \in sleep' : \/ \E k \in Mutex : t \in ToSet(lockers'[k])
                        \/ \E d \in Cond : t \in ToSet(waiters'[d])
  BY <1>5 DEF WaitingLists
<1>10. QED
  BY <1>5, <1>6, <1>7, <1>8, <1>9 DEF WaitingLists
----------------------------------------------------------------------------
(* The kinds of steps, each after the calls it makes.                      *)

LEMMA ListFacts ==
  ASSUME ListInv
  PROVE  /\ TypeOK /\ LockTypes /\ Core /\ SchedType
         /\ Lists /\ SchedulerLists /\ WaitingLists /\ NoLostWakeup /\ NoLostDeath
         /\ Idle \in Awake /\ Idle \notin sleep
         /\ current \in Living /\ current \notin sleep /\ current \in Thread
         /\ Awake \subseteq Living /\ sleep \subseteq Living \ {current}
<1>1. TypeOK /\ LockTypes /\ Core /\ SchedType /\ Targets
  BY CoreOfLockInv, TypeParts DEF ListInv, LockInv
<1>2. /\ Lists /\ SchedulerLists /\ WaitingLists /\ NoLostWakeup /\ NoLostDeath /\ IdleLives
  BY DEF ListInv, Lists
<1>3. Idle \in Awake /\ Idle \notin sleep /\ current \in Living
  BY <1>1, <1>2, IdleAwake
<1>4. current \notin sleep /\ Awake \subseteq Living /\ sleep \subseteq Living \ {current}
  BY <1>2 DEF SchedulerLists, Awake
<1>5. QED
  BY <1>1, <1>2, <1>3, <1>4 DEF SchedType

(* No thread changes lists.                                                *)
LEMMA QuietStep ==
  ASSUME ListInv, TypeOK', PointsKept, UNCHANGED <<sched, lockers, waiters, is_over>>,
         \A k \in Mutex : ~occupied'[k] => ~occupied[k],
         pc[current] = "lock" => occupied'[want[current]]
  PROVE  Lists'
<1>0. /\ TypeOK /\ SchedType /\ SchedulerLists /\ WaitingLists /\ NoLostWakeup /\ NoLostDeath
      /\ current \in Living /\ current \notin sleep /\ current \in Thread
      /\ Awake \subseteq Living /\ sleep \subseteq Living \ {current}
  BY ListFacts
<1> USE <1>0
<1>1. UNCHANGED <<current, alive, sleep, dead, halted, lockers, waiters>>
  BY DEF sched
<1>2. RunQueue' /\ Awake' = Awake
  BY <1>1, SchedulerListsParts DEF RunQueue, Awake
<1>3. SchedulerLists'
  <2>1. Awake' \cap sleep' = {} /\ Awake' \cup sleep' = Awake \cup sleep
    BY <1>1, <1>2 DEF SchedulerLists, Awake
  <2>2. Living' = Living /\ Dead' = Dead
    BY DEF PointsKept
  <2>3. QED
    BY <1>1, <1>2, <2>1, <2>2, SchedulerStep
<1>4. \A t \in sleep : pc'[t] = pc[t] /\ want'[t] = want[t]
  BY DEF PointsKept
<1>5. WaitingLists'
  BY <1>1, <1>4 DEF WaitingLists
<1>6. NoLostWakeup'
  <2>1. \A k \in Mutex : ~occupied'[k] /\ lockers'[k] # <<>> => ~occupied[k] /\ lockers[k] # <<>>
    BY <1>1
  <2>2. ASSUME NEW t \in Awake, pc[t] = "lock"
        PROVE  \/ t \in Awake' /\ pc'[t] = "lock" /\ want'[t] = want[t]
               \/ occupied'[want[t]]
    BY <1>2, <2>2 DEF PointsKept
  <2>3. QED
    BY <2>1, <2>2, WakeupStep
<1>7. NoLostDeath'
  BY <1>1 DEF NoLostDeath
<1>8. QED
  BY <1>1, <1>3, <1>5, <1>6, <1>7 DEF Lists, PointsKept, ListInv

(* mutex_unlock(m), and whatever its caller does next by itself.           *)
LEMMA ReleaseStep ==
  ASSUME ListInv, TypeOK', PointsKept, NEW m \in Mutex, Unlock(m),
         Wake(First(lockers[m])), pc[current] # "lock", UNCHANGED <<waiters, is_over>>
  PROVE  Lists'
<1>0. /\ TypeOK /\ SchedType /\ SchedulerLists /\ WaitingLists /\ NoLostWakeup /\ NoLostDeath
      /\ current \in Living /\ current \notin sleep /\ current \in Thread
      /\ Awake \subseteq Living /\ sleep \subseteq Living \ {current}
  BY ListFacts
<1> USE <1>0
<1> DEFINE woken == First(lockers[m])
<1>1. lockers' = [lockers EXCEPT ![m] = Others(@)] /\ occupied' = [occupied EXCEPT ![m] = FALSE]
  BY DEF Unlock
<1>2. /\ woken \in Seq(Thread) /\ IsInjective(woken)
      /\ ToSet(woken) \subseteq sleep
      /\ \A k \in Mutex : /\ ToSet(lockers'[k]) = ToSet(lockers[k]) \ ToSet(woken)
                          /\ IsInjective(lockers'[k])
                          /\ k # m => lockers'[k] = lockers[k]
      /\ \A c \in Cond : ToSet(waiters[c]) = ToSet(waiters[c]) \ ToSet(woken)
      /\ \A t \in ToSet(woken) : pc[t] = "lock" /\ want[t] = m
      /\ lockers'[m] # <<>> => ToSet(woken) # {}
  BY <1>1, UnlockTakes
<1>3. Wake(woken)
  OBVIOUS
<1> HIDE DEF woken
<1>4. /\ RunQueue' /\ Awake' = Awake \cup ToSet(woken)
      /\ sleep' = sleep \ ToSet(woken) /\ UNCHANGED <<dead, halted>>
  BY <1>2, <1>3, WakeElements
<1>5. SchedulerLists'
  <2>1. Awake' \cap sleep' = {} /\ Awake' \cup sleep' = Awake \cup sleep
    BY <1>2, <1>4 DEF SchedulerLists, Awake
  <2>2. Living' = Living /\ Dead' = Dead /\ dead' = dead
    BY <1>4 DEF PointsKept
  <2>3. QED
    BY <1>2, <1>4, <2>1, <2>2, SchedulerStep
<1>6. \A t \in sleep : pc'[t] = pc[t] /\ want'[t] = want[t]
  BY DEF PointsKept
<1>7. WaitingLists'
  <2>1. \A c \in Cond : /\ ToSet(waiters'[c]) = ToSet(waiters[c]) \ ToSet(woken)
                        /\ IsInjective(waiters'[c])
    BY <1>2 DEF WaitingLists
  <2>2. QED
    BY <1>2, <1>4, <1>6, <2>1, WaitingShrinks
<1>8. NoLostWakeup'
  <2>1. ASSUME NEW k \in Mutex, ~occupied'[k], lockers'[k] # <<>>
        PROVE  \/ ~occupied[k] /\ lockers[k] # <<>>
               \/ \E t \in Awake' : pc'[t] = "lock" /\ want'[t] = k
    <3>1. CASE k # m
      BY <2>1, <3>1, <1>1, <1>2 DEF TypeOK
    <3>2. CASE k = m
      <4>1. PICK t \in ToSet(woken) : TRUE
        BY <2>1, <3>2, <1>2
      <4>2. t \in Awake' /\ pc'[t] = "lock" /\ want'[t] = m
        BY <4>1, <1>2, <1>4, <1>6
      <4>3. QED
        BY <3>2, <4>2
    <3>3. QED
      BY <3>1, <3>2
  <2>2. ASSUME NEW t \in Awake, pc[t] = "lock"
        PROVE  t \in Awake' /\ pc'[t] = "lock" /\ want'[t] = want[t]
    BY <1>4, <2>2 DEF PointsKept
  <2>3. QED
    BY <2>1, <2>2, WakeupStep
<1>9. NoLostDeath'
  <2>1. \A c \in Cond : ToSet(waiters'[c]) \subseteq ToSet(waiters[c])
    OBVIOUS
  <2>2. QED
    BY <2>1, DeathStep
<1>10. QED
  BY <1>4, <1>5, <1>7, <1>8, <1>9 DEF Lists, PointsKept, ListInv

(* cv_notify and cv_notify_all.                                            *)
LEMMA NotifyStep ==
  ASSUME ListInv, TypeOK', PointsKept, NEW woken \in Seq(Thread), IsInjective(woken),
         ToSet(woken) \subseteq sleep, Wake(woken),
         \A c \in Cond : /\ ToSet(waiters'[c]) = ToSet(waiters[c]) \ ToSet(woken)
                         /\ IsInjective(waiters'[c]),
         \A m \in Mutex : ToSet(lockers[m]) = ToSet(lockers[m]) \ ToSet(woken),
         pc[current] # "lock", UNCHANGED <<occupied, lockers, is_over>>
  PROVE  Lists'
<1>0. /\ TypeOK /\ SchedType /\ SchedulerLists /\ WaitingLists /\ NoLostWakeup /\ NoLostDeath
      /\ current \in Living /\ current \notin sleep /\ current \in Thread
      /\ Awake \subseteq Living /\ sleep \subseteq Living \ {current}
  BY ListFacts
<1> USE <1>0
<1>1. /\ RunQueue' /\ Awake' = Awake \cup ToSet(woken)
      /\ sleep' = sleep \ ToSet(woken) /\ UNCHANGED <<dead, halted>>
  BY WakeElements
<1>2. SchedulerLists'
  <2>1. Awake' \cap sleep' = {} /\ Awake' \cup sleep' = Awake \cup sleep
    BY <1>1 DEF SchedulerLists, Awake
  <2>2. Living' = Living /\ Dead' = Dead /\ dead' = dead
    BY <1>1 DEF PointsKept
  <2>3. QED
    BY <1>1, <2>1, <2>2, SchedulerStep
<1>3. \A t \in sleep : pc'[t] = pc[t] /\ want'[t] = want[t]
  BY DEF PointsKept
<1>4. WaitingLists'
  <2>1. \A m \in Mutex : /\ ToSet(lockers'[m]) = ToSet(lockers[m]) \ ToSet(woken)
                         /\ IsInjective(lockers'[m])
    BY DEF WaitingLists
  <2>2. QED
    BY <1>1, <1>3, <2>1, WaitingShrinks
<1>5. NoLostWakeup'
  <2>1. ASSUME NEW t \in Awake, pc[t] = "lock"
        PROVE  t \in Awake' /\ pc'[t] = "lock" /\ want'[t] = want[t]
    BY <1>1, <2>1 DEF PointsKept
  <2>2. QED
    BY <2>1, WakeupStep
<1>6. NoLostDeath'
  BY DeathStep
<1>7. QED
  BY <1>1, <1>2, <1>4, <1>5, <1>6 DEF Lists, PointsKept, ListInv

(* yield, and a preemption by the timer.                                   *)
LEMMA PreemptStep ==
  ASSUME ListInv, TypeOK', PointsKept, Schedule("ALIVE", alive, sleep),
         UNCHANGED <<sync, prog>>
  PROVE  Lists'
<1>0. /\ TypeOK /\ SchedType /\ SchedulerLists /\ WaitingLists /\ NoLostWakeup /\ NoLostDeath
      /\ current \in Living /\ current \notin sleep /\ current \in Thread
      /\ Awake \subseteq Living /\ sleep \subseteq Living \ {current}
  BY ListFacts
<1> USE <1>0
<1>1. alive \in Seq(Thread) /\ IsInjective(alive) /\ current \notin ToSet(alive) /\ sleep \in SUBSET Thread
  BY DEF SchedulerLists, TypeOK
<1>2. /\ RunQueue' /\ halted' = halted /\ Awake' = ToSet(alive) \cup {current}
      /\ sleep' = sleep /\ dead' = dead
  BY <1>1, ScheduleElements
<1>3. Awake' = Awake
  BY <1>2 DEF Awake
<1>4. SchedulerLists'
  <2>1. Awake' \cap sleep' = {} /\ Awake' \cup sleep' = Awake \cup sleep
    BY <1>2, <1>3 DEF SchedulerLists, Awake
  <2>2. Living' = Living /\ Dead' = Dead
    BY DEF PointsKept
  <2>3. QED
    BY <1>2, <2>1, <2>2, SchedulerStep
<1>5. WaitingLists' /\ NoLostDeath'
  BY <1>2 DEF sync, prog, WaitingLists, NoLostDeath
<1>6. NoLostWakeup'
  <2>1. UNCHANGED <<occupied, lockers, pc, want>>
    BY DEF sync, prog
  <2>2. QED
    BY <1>3, <2>1, WakeupStep
<1>7. QED
  BY <1>2, <1>4, <1>5, <1>6 DEF Lists, PointsKept, ListInv
(* cv_wait(c): the mutex of c is unlocked, and the thread goes to sleep.   *)
LEMMA WaitStep ==
  ASSUME ListInv, TypeOK', PointsKept, NEW c \in Cond, NEW label, Wait(c, label),
         c \in Thread => ~is_over[c], pc[current] # "lock", UNCHANGED is_over
  PROVE  Lists'
<1>0. /\ TypeOK /\ SchedType /\ SchedulerLists /\ WaitingLists /\ NoLostWakeup /\ NoLostDeath
      /\ current \in Living /\ current \notin sleep /\ current \in Thread
      /\ Awake \subseteq Living /\ sleep \subseteq Living \ {current}
      /\ Idle \in Awake
  BY ListFacts
<1> USE <1>0
<1> DEFINE m == MutexOf(c)
           woken == First(lockers[m])
           ready == woken \o alive
           asleep == sleep \ ToSet(woken)
<1>1. /\ Unlock(m) /\ Schedule(NewState, ready, asleep)
      /\ pc'[current] = "lock" /\ want'[current] = m
      /\ waiters' = IF CanSleep THEN [waiters EXCEPT ![c] = <<current>> \o @] ELSE waiters
  BY DEF Wait, GoLock, GoTo, TypeOK
<1>2. /\ lockers' = [lockers EXCEPT ![m] = Others(@)]
      /\ occupied' = [occupied EXCEPT ![m] = FALSE]
      /\ m \in Mutex
  BY <1>1, MutexFacts DEF Unlock
<1> HIDE DEF m
<1>3. /\ woken \in Seq(Thread) /\ IsInjective(woken)
      /\ ToSet(woken) \subseteq sleep
      /\ \A k \in Mutex : /\ ToSet(lockers'[k]) = ToSet(lockers[k]) \ ToSet(woken)
                          /\ IsInjective(lockers'[k])
                          /\ k # m => lockers'[k] = lockers[k]
      /\ \A d \in Cond : ToSet(waiters[d]) = ToSet(waiters[d]) \ ToSet(woken)
      /\ \A t \in ToSet(woken) : pc[t] = "lock" /\ want[t] = m
      /\ lockers'[m] # <<>> => ToSet(woken) # {}
  BY <1>2, UnlockTakes
<1> HIDE DEF woken
<1>4. /\ ready \in Seq(Thread) /\ IsInjective(ready)
      /\ ToSet(ready) = ToSet(woken) \cup ToSet(alive)
      /\ current \notin ToSet(ready)
  BY <1>3, WokenElements
<1>5. asleep \in SUBSET Thread
  BY DEF TypeOK
<1> HIDE DEF ready, asleep
<1>6. NewState = "ALIVE" \/ ToSet(ready) # {}
  BY <1>4 DEF NewState, CanSleep, Awake
<1>7. /\ RunQueue' /\ halted' = halted /\ dead' = dead
      /\ Awake' = IF CanSleep THEN ToSet(ready) ELSE ToSet(ready) \cup {current}
      /\ sleep' = IF CanSleep THEN asleep \cup {current} ELSE asleep
  <2>1. /\ RunQueue' /\ halted' = halted
        /\ Awake' = IF NewState = "ALIVE" THEN ToSet(ready) \cup {current} ELSE ToSet(ready)
        /\ sleep' = IF NewState = "SLEEP" THEN asleep \cup {current} ELSE asleep
        /\ dead' = IF NewState = "DEAD" THEN dead \cup {current} ELSE dead
    BY <1>1, <1>4, <1>5, <1>6, ScheduleElements
  <2>2. QED
    BY <2>1 DEF NewState
<1>8. SchedulerLists'
  <2>1. Awake' \cap sleep' = {} /\ Awake' \cup sleep' = Awake \cup sleep
    BY <1>3, <1>4, <1>7 DEF SchedulerLists, Awake, asleep
  <2>2. Living' = Living /\ Dead' = Dead
    BY DEF PointsKept
  <2>3. QED
    BY <1>7, <2>1, <2>2, SchedulerStep
<1>9. \A t \in sleep : pc'[t] = pc[t] /\ want'[t] = want[t]
  BY DEF PointsKept
<1>10. WaitingLists'
  <2>1. CASE CanSleep
    <3>1. sleep' = (sleep \ ToSet(woken)) \cup {current} /\ current # Idle
      BY <2>1, <1>7 DEF asleep, CanSleep
    <3>2. waiters' = [waiters EXCEPT ![c] = <<current>> \o @]
      BY <1>1, <2>1
    <3>3. want'[current] = MutexOf(c)
      BY <1>1 DEF m
    <3>4. QED
      BY <1>1, <1>3, <1>9, <3>1, <3>2, <3>3, WaiterAdded
  <2>2. CASE ~CanSleep
    <3>1. sleep' = sleep \ ToSet(woken)
      BY <2>2, <1>7 DEF asleep
    <3>2. \A d \in Cond : /\ ToSet(waiters'[d]) = ToSet(waiters[d]) \ ToSet(woken)
                          /\ IsInjective(waiters'[d])
      BY <1>1, <1>3, <2>2 DEF WaitingLists
    <3>3. QED
      BY <1>3, <1>9, <3>1, <3>2, WaitingShrinks
  <2>3. QED
    BY <2>1, <2>2
<1>11. NoLostWakeup'
  <2>1. ASSUME NEW k \in Mutex, ~occupied'[k], lockers'[k] # <<>>
        PROVE  \/ ~occupied[k] /\ lockers[k] # <<>>
               \/ \E t \in Awake' : pc'[t] = "lock" /\ want'[t] = k
    <3>1. CASE k # m
      BY <2>1, <3>1, <1>2, <1>3 DEF TypeOK
    <3>2. CASE k = m
      <4>1. PICK t \in ToSet(woken) : TRUE
        BY <2>1, <3>2, <1>3
      <4>2. t \in Awake' /\ pc'[t] = "lock" /\ want'[t] = m
        BY <4>1, <1>3, <1>4, <1>7, <1>9
      <4>3. QED
        BY <3>2, <4>2
    <3>3. QED
      BY <3>1, <3>2
  <2>2. ASSUME NEW t \in Awake, pc[t] = "lock"
        PROVE  t \in Awake' /\ pc'[t] = "lock" /\ want'[t] = want[t]
    <3>1. t # current
      BY <2>2
    <3>2. t \in ToSet(alive) /\ t \in Living
      BY <3>1 DEF Awake
    <3>3. QED
      BY <1>4, <1>7, <2>2, <3>1, <3>2 DEF PointsKept
  <2>3. QED
    BY <2>1, <2>2, WakeupStep
<1>12. NoLostDeath'
  <2> SUFFICES ASSUME NEW u \in Thread, is_over[u] PROVE waiters'[u] = <<>>
    BY DEF NoLostDeath
  <2>1. u # c /\ u \in Cond /\ waiters[u] = <<>>
    BY MutexFacts DEF NoLostDeath
  <2>2. QED
    BY <1>1, <2>1 DEF TypeOK
<1>13. QED
  BY <1>7, <1>8, <1>10, <1>11, <1>12 DEF Lists, PointsKept, ListInv

(* mutex_lock finds the mutex occupied.                                    *)
LEMMA LockWaitStep ==
  ASSUME ListInv, TypeOK', LockWait
  PROVE  Lists'
<1>0. /\ TypeOK /\ SchedType /\ SchedulerLists /\ WaitingLists /\ NoLostWakeup /\ NoLostDeath
      /\ current \in Living /\ current \notin sleep /\ current \in Thread
      /\ Awake \subseteq Living /\ sleep \subseteq Living \ {current}
      /\ Idle \in Awake
  BY ListFacts
<1> USE <1>0
<1> DEFINE m == want[current]
<1>1. /\ pc[current] = "lock" /\ occupied[m] /\ m \in Mutex
      /\ lockers' = IF CanSleep THEN [lockers EXCEPT ![m] = <<current>> \o @] ELSE lockers
      /\ Schedule(NewState, alive, sleep)
      /\ UNCHANGED <<occupied, waiters, pc, want, ret, target, is_over>>
  BY DEF LockWait, At, prog, TypeOK
<1> HIDE DEF m
<1>2. /\ alive \in Seq(Thread) /\ IsInjective(alive) /\ current \notin ToSet(alive)
      /\ sleep \in SUBSET Thread
  BY DEF SchedulerLists, TypeOK
<1>3. NewState = "ALIVE" \/ ToSet(alive) # {}
  BY DEF NewState, CanSleep, Awake
<1>4. /\ RunQueue' /\ halted' = halted /\ dead' = dead
      /\ Awake' = IF CanSleep THEN ToSet(alive) ELSE ToSet(alive) \cup {current}
      /\ sleep' = IF CanSleep THEN sleep \cup {current} ELSE sleep
  <2>1. /\ RunQueue' /\ halted' = halted
        /\ Awake' = IF NewState = "ALIVE" THEN ToSet(alive) \cup {current} ELSE ToSet(alive)
        /\ sleep' = IF NewState = "SLEEP" THEN sleep \cup {current} ELSE sleep
        /\ dead' = IF NewState = "DEAD" THEN dead \cup {current} ELSE dead
    BY <1>1, <1>2, <1>3, ScheduleElements
  <2>2. QED
    BY <2>1 DEF NewState
<1>5. SchedulerLists'
  <2>1. Awake' \cap sleep' = {} /\ Awake' \cup sleep' = Awake \cup sleep
    BY <1>2, <1>4 DEF SchedulerLists, Awake
  <2>2. Living' = Living /\ Dead' = Dead
    BY <1>1 DEF Living, Dead, Buried
  <2>3. QED
    BY <1>4, <2>1, <2>2, SchedulerStep
<1>6. WaitingLists'
  <2>1. CASE CanSleep
    <3>1. sleep' = sleep \cup {current} /\ current # Idle
      BY <2>1, <1>4 DEF CanSleep
    <3>2. lockers' = [lockers EXCEPT ![m] = <<current>> \o @] /\ want[current] = m
      BY <1>1, <2>1 DEF m
    <3>3. QED
      BY <1>1, <3>1, <3>2, LockerAdded
  <2>2. CASE ~CanSleep
    BY <1>1, <1>4, <2>2 DEF WaitingLists
  <2>3. QED
    BY <2>1, <2>2
<1>7. NoLostWakeup'
  <2>1. ASSUME NEW k \in Mutex, ~occupied'[k], lockers'[k] # <<>>
        PROVE  ~occupied[k] /\ lockers[k] # <<>>
    BY <1>1, <2>1 DEF TypeOK
  <2>2. ASSUME NEW t \in Awake, pc[t] = "lock"
        PROVE  \/ t \in Awake' /\ pc'[t] = "lock" /\ want'[t] = want[t]
               \/ occupied'[want[t]]
    <3>1. CASE t = current
      BY <1>1, <3>1 DEF m
    <3>2. CASE t # current
      BY <1>1, <1>4, <2>2, <3>2 DEF Awake
    <3>3. QED
      BY <3>1, <3>2
  <2>3. QED
    BY <2>1, <2>2, WakeupStep
<1>8. NoLostDeath' /\ IdleLives'
  BY <1>1 DEF NoLostDeath, IdleLives, ListInv
<1>9. QED
  BY <1>4, <1>5, <1>6, <1>7, <1>8 DEF Lists, ListInv
(* The waiters of a thread's death are one joiner at most.                 *)
LEMMA OneJoiner ==
  ASSUME ListInv, NEW u \in Thread, u # Idle, u \notin sleep
  PROVE  Others(waiters[u]) = <<>>
<1>0. /\ TypeOK /\ SchedType /\ SchedulerLists /\ WaitingLists /\ NoLostWakeup /\ NoLostDeath
      /\ current \in Living /\ current \notin sleep /\ current \in Thread
      /\ Awake \subseteq Living /\ sleep \subseteq Living \ {current}
      /\ Idle \in Awake /\ Core
  BY ListFacts
<1> USE <1>0
<1>1. u \in Cond /\ MutexOf(u) = u
  BY MutexFacts
<1>2. waiters[u] \in Seq(Thread) /\ IsInjective(waiters[u])
  BY <1>1 DEF TypeOK, WaitingLists
<1>3. \A t \in ToSet(waiters[u]) : t \in Thread /\ target[t] = u
  <2> SUFFICES ASSUME NEW t \in ToSet(waiters[u]) PROVE t \in Thread /\ target[t] = u
    OBVIOUS
  <2>1. t \in sleep /\ pc[t] = "lock" /\ want[t] = u
    BY <1>1 DEF WaitingLists
  <2>2. t \in Thread /\ t # u
    BY <2>1 DEF TypeOK
  <2>3. u # BuddyLock /\ u # ThreadSlab /\ u \notin UserMutex
    BY LockNames
  <2>4. QED
    BY <2>1, <2>2, <2>3 DEF Core, LockPoints
<1>4. \A t, v \in ToSet(waiters[u]) : t = v
  BY <1>3 DEF Core, Targets
<1>5. /\ Others(waiters[u]) \in Seq(Thread) /\ First(waiters[u]) \in Seq(Thread)
      /\ ToSet(First(waiters[u])) \cup ToSet(Others(waiters[u])) = ToSet(waiters[u])
      /\ ToSet(First(waiters[u])) \cap ToSet(Others(waiters[u])) = {}
      /\ waiters[u] # <<>> => First(waiters[u]) # <<>>
  BY <1>2, NotifiedElements
<1>6. CASE waiters[u] = <<>>
  BY <1>6 DEF Others
<1>7. CASE waiters[u] # <<>>
  <2>1. ToSet(First(waiters[u])) # {}
    BY <1>5, <1>7, EmptyList
  <2>2. ToSet(Others(waiters[u])) = {}
    BY <2>1, <1>4, <1>5
  <2>3. QED
    BY <2>2, <1>5, EmptyList
<1>8. QED
  BY <1>6, <1>7

(* thread_run leaves: the lockers' first and the joiner are woken.         *)
LEMMA ExitStep ==
  ASSUME ListInv, TypeOK', ThreadExit
  PROVE  Lists'
<1>0. /\ TypeOK /\ SchedType /\ SchedulerLists /\ WaitingLists /\ NoLostWakeup /\ NoLostDeath
      /\ current \in Living /\ current \notin sleep /\ current \in Thread
      /\ Awake \subseteq Living /\ sleep \subseteq Living \ {current}
      /\ Idle \in Awake /\ Core
  BY ListFacts
<1> USE <1>0
<1> DEFINE m == current
           locker == First(lockers[m])
           joiner == First(waiters[m])
           woken == locker \o joiner
           ready == woken \o alive
           asleep == sleep \ ToSet(woken)
<1>1. /\ pc[m] = "exit" /\ m \in Mutex /\ m \in Cond /\ m # Idle /\ MutexOf(m) = m
      /\ is_over' = [is_over EXCEPT ![m] = TRUE]
      /\ waiters' = [waiters EXCEPT ![m] = Others(@)]
      /\ lockers' = [lockers EXCEPT ![m] = Others(@)]
      /\ occupied' = [occupied EXCEPT ![m] = FALSE]
      /\ pc' = [pc EXCEPT ![m] = "dead"]
      /\ Schedule("DEAD", ready, asleep)
      /\ UNCHANGED <<want, ret, target>>
  BY MutexFacts DEF ThreadExit, At, Unlock, GoTo, ListInv, IdleLives
<1>2. Others(waiters[m]) = <<>>
  BY <1>1, OneJoiner
<1>3. /\ locker \in Seq(Thread) /\ IsInjective(locker)
      /\ ToSet(locker) \subseteq sleep
      /\ \A k \in Mutex : /\ ToSet(lockers'[k]) = ToSet(lockers[k]) \ ToSet(locker)
                          /\ IsInjective(lockers'[k])
                          /\ k # m => lockers'[k] = lockers[k]
      /\ \A d \in Cond : ToSet(waiters[d]) = ToSet(waiters[d]) \ ToSet(locker)
      /\ \A t \in ToSet(locker) : pc[t] = "lock" /\ want[t] = m
      /\ lockers'[m] # <<>> => ToSet(locker) # {}
  BY <1>1, UnlockTakes
<1>4. /\ joiner \in Seq(Thread) /\ IsInjective(joiner)
      /\ ToSet(joiner) \subseteq sleep
      /\ \A d \in Cond : /\ ToSet(waiters'[d]) = ToSet(waiters[d]) \ ToSet(joiner)
                         /\ IsInjective(waiters'[d])
      /\ \A k \in Mutex : ToSet(lockers[k]) = ToSet(lockers[k]) \ ToSet(joiner)
      /\ \A t \in ToSet(joiner) : pc[t] = "lock" /\ want[t] = MutexOf(m)
  BY <1>1, NotifyTakes
<1>5. ToSet(locker) \cap ToSet(joiner) = {}
  <2>1. lockers[m] \in Seq(Thread) /\ IsInjective(lockers[m])
    BY <1>1 DEF TypeOK, WaitingLists
  <2>2. ToSet(locker) \subseteq ToSet(lockers[m])
    BY <2>1, NotifiedElements
  <2>3. ToSet(lockers[m]) = ToSet(lockers[m]) \ ToSet(joiner)
    BY <1>1, <1>4
  <2> HIDE DEF locker, joiner
  <2>4. QED
    BY <2>2, <2>3
<1> HIDE DEF locker, joiner, m
<1>6. /\ woken \in Seq(Thread) /\ IsInjective(woken)
      /\ ToSet(woken) = ToSet(locker) \cup ToSet(joiner)
  BY <1>3, <1>4, <1>5, ConcatElements
<1>7. ToSet(woken) \subseteq sleep /\ \A t \in ToSet(woken) : pc[t] = "lock" /\ want[t] = m
  BY <1>1, <1>3, <1>4, <1>6
<1>8. \A k \in Mutex : /\ ToSet(lockers'[k]) = ToSet(lockers[k]) \ ToSet(woken)
                       /\ IsInjective(lockers'[k])
  <2> SUFFICES ASSUME NEW k \in Mutex
               PROVE  /\ ToSet(lockers'[k]) = ToSet(lockers[k]) \ ToSet(woken)
                      /\ IsInjective(lockers'[k])
    OBVIOUS
  <2>1. /\ ToSet(lockers'[k]) = ToSet(lockers[k]) \ ToSet(locker)
        /\ ToSet(lockers[k]) = ToSet(lockers[k]) \ ToSet(joiner)
        /\ IsInjective(lockers'[k])
    BY <1>3, <1>4
  <2>2. QED
    BY <2>1, <1>6
<1>9. \A d \in Cond : /\ ToSet(waiters'[d]) = ToSet(waiters[d]) \ ToSet(woken)
                      /\ IsInjective(waiters'[d])
  <2> SUFFICES ASSUME NEW d \in Cond
               PROVE  /\ ToSet(waiters'[d]) = ToSet(waiters[d]) \ ToSet(woken)
                      /\ IsInjective(waiters'[d])
    OBVIOUS
  <2>1. /\ ToSet(waiters'[d]) = ToSet(waiters[d]) \ ToSet(joiner)
        /\ ToSet(waiters[d]) = ToSet(waiters[d]) \ ToSet(locker)
        /\ IsInjective(waiters'[d])
    BY <1>3, <1>4
  <2>2. QED
    BY <2>1, <1>6
<1> HIDE DEF woken
<1>10. /\ ready \in Seq(Thread) /\ IsInjective(ready)
       /\ ToSet(ready) = ToSet(woken) \cup ToSet(alive)
       /\ current \notin ToSet(ready)
  BY <1>6, <1>7, WokenElements
<1>11. asleep \in SUBSET Thread
  BY DEF TypeOK
<1> HIDE DEF ready, asleep
<1>12. ToSet(ready) # {}
  BY <1>1, <1>10 DEF Awake, m
<1>13. /\ RunQueue' /\ halted' = halted /\ dead' = dead \cup {m}
       /\ Awake' = ToSet(ready) /\ sleep' = asleep
  <2>1. /\ RunQueue' /\ halted' = halted
        /\ Awake' = IF "DEAD" = "ALIVE" THEN ToSet(ready) \cup {current} ELSE ToSet(ready)
        /\ sleep' = IF "DEAD" = "SLEEP" THEN asleep \cup {current} ELSE asleep
        /\ dead' = IF "DEAD" = "DEAD" THEN dead \cup {current} ELSE dead
    BY <1>1, <1>10, <1>11, <1>12, ScheduleElements
  <2>2. QED
    BY <2>1 DEF m
<1>14. SchedulerLists'
  <2>1. Living' = Living \ {m}
    BY <1>1 DEF Living, Enabled, Masked, TypeOK, m
  <2>2. Dead' = Dead \cup {m}
    <3>1. \A t \in Thread : Buried(t) => target[t] # m
      BY <1>1 DEF Buried, Core, Targets, Reaping
    <3>2. \A t \in Thread : Buried(t)' <=> Buried(t)
      BY <1>1 DEF Buried, TypeOK
    <3>3. QED
      BY <1>1, <3>1, <3>2 DEF Dead, TypeOK, m
  <2>3. Awake \cap sleep = {} /\ Awake \cup sleep = Living /\ dead = Dead /\ RunQueue
    BY SchedulerListsParts
  <2>4. Awake' = (Awake \ {m}) \cup ToSet(woken) /\ sleep' = sleep \ ToSet(woken)
    BY <2>3, <1>10, <1>13 DEF Awake, RunQueue, asleep, m
  <2>5. m \in Awake
    BY DEF Awake, m
  <2>6. Awake' \cap sleep' = {} /\ Awake' \cup sleep' = Living' /\ dead' = Dead'
    BY <2>1, <2>2, <2>3, <2>4, <2>5, <1>7, <1>13
  <2>7. QED
    BY <1>13, <2>6, SchedulerListsPartsNext
<1>15. \A t \in Living \ {m} : pc'[t] = pc[t] /\ want'[t] = want[t]
  BY <1>1 DEF TypeOK, Living
<1>16. \A t \in sleep : pc'[t] = pc[t] /\ want'[t] = want[t]
  BY <1>15 DEF m
<1>17. WaitingLists'
  <2>1. sleep' = sleep \ ToSet(woken)
    BY <1>13 DEF asleep
  <2>2. QED
    BY <2>1, <1>8, <1>9, <1>16, WaitingShrinks
<1>18. NoLostWakeup'
  <2>1. ASSUME NEW k \in Mutex, ~occupied'[k], lockers'[k] # <<>>
        PROVE  \/ ~occupied[k] /\ lockers[k] # <<>>
               \/ \E t \in Awake' : pc'[t] = "lock" /\ want'[t] = k
    <3>1. CASE k # m
      BY <2>1, <3>1, <1>1, <1>3 DEF TypeOK
    <3>2. CASE k = m
      <4>1. PICK t \in ToSet(woken) : TRUE
        BY <2>1, <3>2, <1>3, <1>6
      <4>2. t \in Awake' /\ pc'[t] = "lock" /\ want'[t] = m
        BY <4>1, <1>7, <1>10, <1>13, <1>16
      <4>3. QED
        BY <3>2, <4>2
    <3>3. QED
      BY <3>1, <3>2
  <2>2. ASSUME NEW t \in Awake, pc[t] = "lock"
        PROVE  t \in Awake' /\ pc'[t] = "lock" /\ want'[t] = want[t]
    <3>1. t # m
      BY <2>2, <1>1
    <3>2. t \in ToSet(alive) /\ t \in Living
      BY <3>1 DEF Awake, m
    <3>3. QED
      BY <1>10, <1>13, <1>15, <2>2, <3>1, <3>2
  <2>3. QED
    BY <2>1, <2>2, WakeupStep
<1>19. NoLostDeath'
  <2> SUFFICES ASSUME NEW u \in Thread, is_over'[u] PROVE waiters'[u] = <<>>
    BY DEF NoLostDeath
  <2>1. CASE u = m
    BY <2>1, <1>1, <1>2 DEF TypeOK
  <2>2. CASE u # m
    <3>1. is_over[u] /\ u \in Cond
      BY <2>2, <1>1, MutexFacts DEF TypeOK
    <3>2. QED
      BY <2>2, <3>1, <1>1 DEF NoLostDeath, TypeOK
  <2>3. QED
    BY <2>1, <2>2
<1>20. ~halted' /\ IdleLives'
  BY <1>1, <1>13, IdleAssumption DEF ListInv, IdleLives, TypeOK
<1>21. QED
  BY <1>14, <1>17, <1>18, <1>19, <1>20 DEF Lists

(* thread_create puts the new thread at the head of the alive list.        *)
LEMMA PublishedStep ==
  ASSUME ListInv, TypeOK', ThreadPublished
  PROVE  Lists'
<1>0. /\ TypeOK /\ SchedType /\ SchedulerLists /\ WaitingLists /\ NoLostWakeup /\ NoLostDeath
      /\ current \in Living /\ current \notin sleep /\ current \in Thread
      /\ Awake \subseteq Living /\ sleep \subseteq Living \ {current}
      /\ Idle \in Awake /\ Core
  BY ListFacts
<1> USE <1>0
<1> DEFINE u == target[current]
<1>1. /\ pc[current] = "create" /\ pc[u] = "embryo" /\ u \in Thread /\ u # current
      /\ u \notin Living /\ u # Idle
  BY DEF ThreadPublished, At, TypeOK, Core, Targets, Living, Enabled, Masked, Absent
<1>2. /\ occupied' = [occupied EXCEPT ![u] = FALSE]
      /\ lockers' = [lockers EXCEPT ![u] = <<>>]
      /\ waiters' = [waiters EXCEPT ![u] = <<>>]
      /\ is_over' = [is_over EXCEPT ![u] = FALSE]
      /\ pc' = [pc EXCEPT ![u] = "start", ![current] = "run"]
      /\ alive' = <<u>> \o alive
      /\ target' = [target EXCEPT ![current] = Idle]
      /\ UNCHANGED <<current, sleep, dead, halted, want, ret>>
  BY DEF ThreadPublished
<1>3. u \in Mutex /\ u \in Cond
  BY <1>1, MutexFacts
<1> HIDE DEF u
<1>4. lockers[u] = <<>> /\ waiters[u] = <<>>
  <2>1. ASSUME NEW t \in sleep, pc[t] = "lock", want[t] = u PROVE FALSE
    <3>1. t \in Thread /\ t # current /\ t # u
      BY <2>1, <1>1 DEF TypeOK
    <3>2. u # BuddyLock /\ u # ThreadSlab /\ u \notin UserMutex
      BY <1>1, LockNames
    <3>3. target[t] = u
      BY <2>1, <3>1, <3>2 DEF Core, LockPoints
    <3>4. QED
      BY <3>1, <3>3, <1>1 DEF Core, Targets, u
  <2>2. MutexOf(u) = u
    BY <1>1, MutexFacts
  <2>3. ToSet(lockers[u]) = {} /\ ToSet(waiters[u]) = {}
    BY <2>1, <2>2, <1>3 DEF WaitingLists
  <2>4. lockers[u] \in Seq(Thread) /\ waiters[u] \in Seq(Thread)
    BY <1>3 DEF TypeOK
  <2>5. QED
    BY <2>3, <2>4, EmptyList
<1>5. lockers' = lockers /\ waiters' = waiters
  BY <1>2, <1>3, <1>4 DEF TypeOK
<1>6. alive \in Seq(Thread) /\ IsInjective(alive) /\ u \notin ToSet(alive) /\ current \notin ToSet(alive)
  BY <1>1 DEF SchedulerLists, TypeOK
<1>7. RunQueue' /\ Awake' = Awake \cup {u}
  <2>1. ToSet(<<u>> \o alive) = {u} \cup ToSet(alive) /\ IsInjective(<<u>> \o alive)
    BY <1>1, <1>6, ConsElements
  <2>2. QED
    BY <2>1, <1>1, <1>2, <1>6 DEF RunQueue, Awake
<1>8. SchedulerLists'
  <2>1. Living' = Living \cup {u}
    BY <1>1, <1>2 DEF Living, Enabled, Masked, TypeOK
  <2>2. Dead' = Dead
    BY <1>1, <1>2 DEF Dead, Buried, TypeOK
  <2>3. Awake \cap sleep = {} /\ Awake \cup sleep = Living /\ dead = Dead
    BY SchedulerListsParts
  <2>4. Awake' \cap sleep' = {} /\ Awake' \cup sleep' = Living' /\ dead' = Dead'
    BY <2>1, <2>2, <2>3, <1>1, <1>2, <1>7
  <2>5. QED
    BY <1>7, <2>4, SchedulerListsPartsNext
<1>9. \A t \in Living \ {current} : pc'[t] = pc[t] /\ want'[t] = want[t]
  <2> SUFFICES ASSUME NEW t \in Living \ {current} PROVE pc'[t] = pc[t]
    BY <1>2
  <2>1. t \in Thread /\ t # u /\ t # current
    BY <1>1 DEF Living
  <2>2. QED
    BY <2>1, <1>2 DEF TypeOK
<1>10. WaitingLists'
  <2>1. \A t \in sleep : pc'[t] = pc[t] /\ want'[t] = want[t]
    BY <1>9
  <2>2. QED
    BY <2>1, <1>2, <1>5 DEF WaitingLists
<1>11. NoLostWakeup'
  <2>1. ASSUME NEW k \in Mutex, ~occupied'[k], lockers'[k] # <<>>
        PROVE  ~occupied[k] /\ lockers[k] # <<>>
    BY <2>1, <1>2, <1>4, <1>5 DEF TypeOK
  <2>2. ASSUME NEW t \in Awake, pc[t] = "lock"
        PROVE  t \in Awake' /\ pc'[t] = "lock" /\ want'[t] = want[t]
    BY <2>2, <1>1, <1>7, <1>9
  <2>3. QED
    BY <2>1, <2>2, WakeupStep
<1>12. NoLostDeath' /\ IdleLives' /\ ~halted'
  BY <1>1, <1>2, <1>5, IdleAssumption DEF NoLostDeath, IdleLives, ListInv, TypeOK
<1>13. QED
  BY <1>8, <1>10, <1>11, <1>12 DEF Lists

(* thread_join takes a dead thread off the dead list.                      *)
LEMMA ReapStep ==
  ASSUME ListInv, TypeOK', Reap
  PROVE  Lists'
<1>0. /\ TypeOK /\ SchedType /\ SchedulerLists /\ WaitingLists /\ NoLostWakeup /\ NoLostDeath
      /\ current \in Living /\ current \notin sleep /\ current \in Thread
      /\ Awake \subseteq Living /\ sleep \subseteq Living \ {current}
      /\ Idle \in Awake /\ Core
  BY ListFacts
<1> USE <1>0
<1> DEFINE u == target[current]
<1>1. /\ pc[current] = "reap" /\ pc[u] = "dead" /\ u \in Thread /\ u # current /\ u \notin Living
  BY DEF Reap, At, TypeOK, Core, Targets, Reaping, Living, Enabled, Masked
<1>2. /\ alive' = Without(alive, u) /\ sleep' = sleep \ {u} /\ dead' = dead \ {u}
      /\ pc' = [pc EXCEPT ![current] = "lock"]
      /\ want' = [want EXCEPT ![current] = BuddyLock]
      /\ ret' = [ret EXCEPT ![current] = "free_stack"]
      /\ UNCHANGED <<current, halted, occupied, lockers, waiters, target, is_over>>
  BY DEF Reap, GoLock, GoTo, sync
<1>3. u \notin Awake /\ u \notin sleep
  BY <1>1
<1>4. alive \in Seq(Thread) /\ IsInjective(alive) /\ current \notin ToSet(alive)
  BY DEF SchedulerLists, TypeOK
<1>5. RunQueue' /\ Awake' = Awake /\ sleep' = sleep
  <2>1. ToSet(Without(alive, u)) = ToSet(alive) \ {u} /\ IsInjective(Without(alive, u))
    BY <1>4, WithoutElements
  <2> HIDE DEF u
  <2>2. QED
    BY <2>1, <1>2, <1>3, <1>4 DEF RunQueue, Awake
<1>6. SchedulerLists'
  <2>1. Living' = Living
    BY <1>1, <1>2 DEF Living, Enabled, Masked, TypeOK
  <2>2. Dead' = Dead \ {u}
    <3>1. \A t \in Thread \ {current} : Buried(t)' <=> Buried(t)
      BY <1>1, <1>2 DEF Buried, TypeOK
    <3>2. Buried(current)' /\ ~Buried(current)
      BY <1>1, <1>2 DEF Buried, TypeOK
    <3>3. \A t \in Thread : pc'[t] = "dead" <=> pc[t] = "dead"
      BY <1>1, <1>2 DEF TypeOK
    <3>4. QED
      BY <3>1, <3>2, <3>3, <1>2 DEF Dead
  <2>3. Awake \cap sleep = {} /\ Awake \cup sleep = Living /\ dead = Dead
    BY SchedulerListsParts
  <2>4. Awake' \cap sleep' = {} /\ Awake' \cup sleep' = Living' /\ dead' = Dead'
    BY <2>1, <2>2, <2>3, <1>2, <1>5
  <2>5. QED
    BY <1>5, <2>4, SchedulerListsPartsNext
<1>7. \A t \in Living \ {current} : pc'[t] = pc[t] /\ want'[t] = want[t]
  BY <1>2 DEF TypeOK, Living
<1>8. WaitingLists'
  <2>1. \A t \in sleep : pc'[t] = pc[t] /\ want'[t] = want[t]
    BY <1>7
  <2>2. QED
    BY <2>1, <1>2, <1>5 DEF WaitingLists
<1>9. NoLostWakeup'
  <2>1. ASSUME NEW t \in Awake, pc[t] = "lock"
        PROVE  t \in Awake' /\ pc'[t] = "lock" /\ want'[t] = want[t]
    BY <2>1, <1>1, <1>5, <1>7
  <2>2. QED
    BY <2>1, <1>2, WakeupStep
<1>10. NoLostDeath' /\ IdleLives' /\ ~halted'
  <2>1. NoLostDeath' /\ ~halted'
    BY <1>2 DEF NoLostDeath, ListInv
  <2>2. IdleLives
    BY DEF ListInv
  <2> HIDE DEF u
  <2>3. IdleLives'
    BY <2>2, <1>2, IdleAssumption DEF IdleLives, TypeOK
  <2>4. QED
    BY <2>1, <2>3
<1>11. QED
  BY <1>6, <1>8, <1>9, <1>10 DEF Lists
----------------------------------------------------------------------------
(* Which steps leave the threads that live where they were.                *)

LEMMA PointsClient ==
  ASSUME LockTypes, Core, IdleLives, ClientStep
  PROVE  PointsKept
<1> USE IdleAssumption
<1>1. ASSUME NEW m \in UserMutex, MutexLock(m) PROVE PointsKept
  BY <1>1 DEF MutexLock, At, GoLock, GoTo, PointsKept, Living, Dead, Buried, IdleLives, Enabled, Masked, LockTypes
<1>2. ASSUME NEW m \in UserMutex, MutexUnlock(m) PROVE PointsKept
  BY <1>2 DEF MutexUnlock, prog, PointsKept, Living, Dead, Buried, IdleLives
<1>3. ASSUME NEW c \in UserCond, CvWait(c) PROVE PointsKept
  <2> DEFINE m == MutexOf(c)
  <2>1. GoLock(m, "run") /\ At("run") /\ UNCHANGED target
    BY <1>3 DEF CvWait, Wait
  <2> HIDE DEF m
  <2>2. QED
    BY <2>1 DEF At, GoLock, GoTo, PointsKept, Living, Dead, Buried, IdleLives, Enabled, Masked, LockTypes
<1>4. ASSUME NEW c \in UserCond, CvNotify(c) PROVE PointsKept
  BY <1>4 DEF CvNotify, prog, PointsKept, Living, Dead, Buried, IdleLives
<1>5. ASSUME NEW c \in UserCond, CvNotifyAll(c) PROVE PointsKept
  BY <1>5 DEF CvNotifyAll, prog, PointsKept, Living, Dead, Buried, IdleLives
<1>6. ASSUME Yield PROVE PointsKept
  BY <1>6 DEF Yield, prog, PointsKept, Living, Dead, Buried, IdleLives
<1>7. ASSUME ThreadCreate PROVE PointsKept
  BY <1>7 DEF ThreadCreate, At, GoLock, GoTo, PointsKept, Living, Dead, Buried, IdleLives, Enabled, Masked, LockTypes
<1>8. ASSUME ThreadReturn PROVE PointsKept
  BY <1>8 DEF ThreadReturn, At, GoLock, GoTo, PointsKept, Living, Dead, Buried, IdleLives, Enabled, Masked, LockTypes
<1>9. ASSUME NEW u \in Thread, ThreadJoin(u) PROVE PointsKept
  BY <1>9 DEF ThreadJoin, At, GoLock, GoTo, PointsKept, Living, Dead, Buried, IdleLives, Enabled, Masked, LockTypes
<1>10. QED
  BY <1>1, <1>2, <1>3, <1>4, <1>5, <1>6, <1>7, <1>8, <1>9 DEF ClientStep

LEMMA PointsKernel ==
  ASSUME LockTypes, Core, IdleLives, KernelStep
  PROVE  LockWait \/ ThreadPublished \/ ThreadExit \/ Reap \/ PointsKept
<1> USE IdleAssumption
<1>1. ASSUME LockTake PROVE PointsKept
  <2>1. ret[current] = "exit" => current # Idle
    BY <1>1 DEF LockTake, At, IdleLives
  <2>2. QED
    BY <1>1, <2>1 DEF LockTake, At, GoTo, PointsKept, Living, Dead, Buried, IdleLives, LockTypes,
       Enabled, Masked
<1>2. ASSUME StackAllocated PROVE PointsKept
  BY <1>2 DEF StackAllocated, At, GoLock, GoTo, PointsKept, Living, Dead, Buried, IdleLives, Enabled, Masked, LockTypes
<1>3. ASSUME NoStack PROVE PointsKept
  BY <1>3 DEF NoStack, At, GoLock, GoTo, PointsKept, Living, Dead, Buried, IdleLives, Enabled, Masked, LockTypes
<1>4. ASSUME NEW u \in Thread, ThreadAllocated(u) PROVE PointsKept
  <2>1. /\ pc[current] \in {"create_slab", "create_fill"} /\ pc[u] = "unused"
        /\ pc' = [pc EXCEPT ![current] = "create", ![u] = "embryo"]
        /\ target' = [target EXCEPT ![current] = u]
        /\ UNCHANGED <<want, ret>>
    BY <1>4 DEF ThreadAllocated, At
  <2>2. Living' = Living /\ \A t \in Living \ {current} : pc'[t] = pc[t] /\ want'[t] = want[t]
    BY <2>1 DEF Living, Enabled, Masked, LockTypes
  <2>3. Dead' = Dead
    BY <2>1 DEF Dead, Buried, LockTypes
  <2>4. IdleLives'
    BY <2>1 DEF IdleLives, LockTypes
  <2>5. QED
    BY <2>2, <2>3, <2>4 DEF PointsKept
<1>5. ASSUME SlabFull PROVE PointsKept
  BY <1>5 DEF SlabFull, At, GoLock, GoTo, PointsKept, Living, Dead, Buried, IdleLives, Enabled, Masked, LockTypes
<1>6. ASSUME NEW label \in {"create_fill", "create_fail"}, PageAllocated(label) PROVE PointsKept
  BY <1>6 DEF PageAllocated, At, GoLock, GoTo, PointsKept, Living, Dead, Buried, IdleLives, Enabled, Masked, LockTypes
<1>7. ASSUME NoThread PROVE PointsKept
  BY <1>7 DEF NoThread, At, GoLock, GoTo, PointsKept, Living, Dead, Buried, IdleLives, Enabled, Masked, LockTypes
<1>8. ASSUME StackFreed PROVE PointsKept
  BY <1>8 DEF StackFreed, At, GoLock, GoTo, PointsKept, Living, Dead, Buried, IdleLives, Enabled, Masked, LockTypes
<1>9. ASSUME ThreadStart PROVE PointsKept
  BY <1>9 DEF ThreadStart, At, GoLock, GoTo, PointsKept, Living, Dead, Buried, IdleLives, Enabled, Masked, LockTypes
<1>10. ASSUME JoinWait PROVE PointsKept
  <2> DEFINE m == MutexOf(target[current])
  <2>1. GoLock(m, "joining") /\ At("joining") /\ UNCHANGED target
    BY <1>10 DEF JoinWait, Wait
  <2> HIDE DEF m
  <2>2. QED
    BY <2>1 DEF At, GoLock, GoTo, PointsKept, Living, Dead, Buried, IdleLives, Enabled, Masked, LockTypes
<1>11. ASSUME JoinDone PROVE PointsKept
  BY <1>11 DEF JoinDone, At, GoLock, GoTo, PointsKept, Living, Dead, Buried, IdleLives, Enabled, Masked, LockTypes
<1>12. ASSUME JoinFreesStack PROVE PointsKept
  BY <1>12 DEF JoinFreesStack, At, GoLock, GoTo, PointsKept, Living, Dead, Buried, IdleLives, Enabled, Masked, LockTypes
<1>13. ASSUME JoinFreesThread PROVE PointsKept
  <2> DEFINE u == target[current]
  <2>1. /\ pc[current] = "free_thread" /\ pc[u] = "dead" /\ u \in Thread
        /\ pc' = [pc EXCEPT ![u] = "unused", ![current] = "run"]
        /\ target' = [target EXCEPT ![current] = Idle]
        /\ UNCHANGED <<want, ret>>
    BY <1>13 DEF JoinFreesThread, At, Core, Targets, Joining, Reaping, LockTypes
  <2>2. Buried(current) /\ target[current] = u
    BY <2>1 DEF Buried
  <2>3. pc[Idle] # "dead"
    BY DEF IdleLives
  <2> HIDE DEF u
  <2>4. Living' = Living /\ \A t \in Living \ {current} : pc'[t] = pc[t] /\ want'[t] = want[t]
    BY <2>1 DEF Living, Enabled, Masked, LockTypes
  <2>5. Dead' = Dead
    <3>1. \A t \in Thread \ {current} : (Buried(t)' <=> Buried(t)) /\ target'[t] = target[t]
      BY <2>1 DEF Buried, LockTypes
    <3>2. \A t \in Thread : t = current => ~Buried(t)'
      BY <2>1 DEF Buried, LockTypes
    <3>3. current \in Thread /\ u # current /\ pc \in [Thread -> PC]
      BY <2>1 DEF LockTypes
    <3>4. pc'[current] = "run" /\ pc'[u] = "unused" /\ \A t \in Thread \ {current, u} : pc'[t] = pc[t]
      BY <2>1, <3>3
    <3>5. ASSUME NEW v \in Thread PROVE v \in Dead' <=> v \in Dead
      <4>1. CASE v = u
        <5>1. v \notin Dead
          BY <2>2, <3>3, <4>1 DEF Dead
        <5>2. v \notin Dead'
          BY <3>4, <4>1 DEF Dead
        <5>3. QED
          BY <5>1, <5>2
      <4>2. CASE v = current
        BY <2>1, <3>4, <4>2 DEF Dead
      <4>3. CASE v # u /\ v # current
        BY <2>2, <3>1, <3>2, <3>3, <3>4, <4>3 DEF Dead
      <4>4. QED
        BY <4>1, <4>2, <4>3
    <3>6. QED
      BY <3>5 DEF Dead
  <2>6. IdleLives'
    BY <2>1, <2>3 DEF IdleLives, LockTypes
  <2>7. QED
    BY <2>4, <2>5, <2>6 DEF PointsKept
<1>14. QED
  BY <1>1, <1>2, <1>3, <1>4, <1>5, <1>6, <1>7, <1>8, <1>9, <1>10, <1>11, <1>12, <1>13 DEF KernelStep
----------------------------------------------------------------------------
(* Every step preserves the lists.                                         *)

LEMMA ListsClient ==
  ASSUME ListInv, TypeOK', ClientStep
  PROVE  Lists'
<1>1. /\ TypeOK /\ LockTypes /\ Core /\ IdleLives /\ WaitingLists
      /\ current \in Thread
  BY ListFacts DEF ListInv
<1>2. PointsKept
  BY <1>1, PointsClient
<1>3. ASSUME NEW m \in UserMutex, MutexLock(m) PROVE Lists'
  BY <1>2, <1>3, QuietStep DEF MutexLock, At, sync
<1>4. ASSUME NEW m \in UserMutex, MutexUnlock(m) PROVE Lists'
  <2>1. /\ Unlock(m) /\ Wake(First(lockers[m])) /\ pc[current] # "lock"
        /\ UNCHANGED <<waiters, is_over>> /\ m \in Mutex
    BY <1>4, LockNames DEF MutexUnlock, Release, At, prog
  <2>2. QED
    BY <1>2, <2>1, ReleaseStep
<1>5. ASSUME NEW c \in UserCond, CvWait(c) PROVE Lists'
  <2>1. /\ c \in Cond /\ Wait(c, "run") /\ pc[current] # "lock" /\ UNCHANGED is_over
        /\ c \notin Thread
    BY <1>5, MutexFacts, CondAssumption DEF CvWait, At
  <2>2. QED
    BY <1>2, <2>1, WaitStep
<1>6. ASSUME NEW c \in UserCond, CvNotify(c) PROVE Lists'
  <2> DEFINE woken == First(waiters[c])
  <2>1. /\ Wake(woken) /\ waiters' = [waiters EXCEPT ![c] = Others(@)] /\ pc[current] # "lock"
        /\ UNCHANGED <<occupied, lockers, is_over>> /\ c \in Cond
    BY <1>6, MutexFacts DEF CvNotify, At, prog
  <2>2. /\ woken \in Seq(Thread) /\ IsInjective(woken)
        /\ ToSet(woken) \subseteq sleep
        /\ \A d \in Cond : /\ ToSet(waiters'[d]) = ToSet(waiters[d]) \ ToSet(woken)
                           /\ IsInjective(waiters'[d])
        /\ \A m \in Mutex : ToSet(lockers[m]) = ToSet(lockers[m]) \ ToSet(woken)
    BY <1>1, <2>1, NotifyTakes
  <2> HIDE DEF woken
  <2>3. QED
    BY <1>2, <2>1, <2>2, NotifyStep
<1>7. ASSUME NEW c \in UserCond, CvNotifyAll(c) PROVE Lists'
  <2> DEFINE woken == Reverse(waiters[c])
  <2>1. /\ Wake(woken) /\ waiters' = [waiters EXCEPT ![c] = <<>>] /\ pc[current] # "lock"
        /\ UNCHANGED <<occupied, lockers, is_over>> /\ c \in Cond
    BY <1>7, MutexFacts DEF CvNotifyAll, At, prog
  <2>2. /\ woken \in Seq(Thread) /\ IsInjective(woken)
        /\ ToSet(woken) \subseteq sleep
        /\ \A d \in Cond : /\ ToSet(waiters'[d]) = ToSet(waiters[d]) \ ToSet(woken)
                           /\ IsInjective(waiters'[d])
        /\ \A m \in Mutex : ToSet(lockers[m]) = ToSet(lockers[m]) \ ToSet(woken)
    BY <1>1, <2>1, NotifyAllTakes
  <2> HIDE DEF woken
  <2>3. QED
    BY <1>2, <2>1, <2>2, NotifyStep
<1>8. ASSUME Yield PROVE Lists'
  BY <1>2, <1>8, PreemptStep DEF Yield
<1>9. ASSUME ThreadCreate PROVE Lists'
  BY <1>2, <1>9, QuietStep DEF ThreadCreate, At, sync
<1>10. ASSUME ThreadReturn PROVE Lists'
  BY <1>2, <1>10, QuietStep DEF ThreadReturn, At, sync
<1>11. ASSUME NEW u \in Thread, ThreadJoin(u) PROVE Lists'
  BY <1>2, <1>11, QuietStep DEF ThreadJoin, At, sync
<1>12. QED
  BY <1>3, <1>4, <1>5, <1>6, <1>7, <1>8, <1>9, <1>10, <1>11 DEF ClientStep

LEMMA ListsKernel ==
  ASSUME ListInv, TypeOK', KernelStep
  PROVE  Lists'
<1>1. /\ TypeOK /\ LockTypes /\ Core /\ IdleLives /\ current \in Thread
      /\ target[current] \in Thread
  BY ListFacts DEF ListInv, LockTypes
<1>2. CASE LockWait \/ ThreadPublished \/ ThreadExit \/ Reap
  BY <1>2, LockWaitStep, PublishedStep, ExitStep, ReapStep
<1>3. CASE PointsKept
  <2>1. ASSUME LockTake PROVE Lists'
    <3>1. /\ UNCHANGED <<sched, lockers, waiters, is_over>>
          /\ occupied' = [occupied EXCEPT ![want[current]] = TRUE]
      BY <2>1 DEF LockTake
    <3>2. want[current] \in Mutex /\ occupied \in [Mutex -> BOOLEAN]
      BY <1>1 DEF TypeOK
    <3>3. occupied'[want[current]] /\ \A k \in Mutex : ~occupied'[k] => ~occupied[k]
      BY <3>1, <3>2
    <3>4. QED
      BY <1>3, <3>1, <3>3, QuietStep
  <2>2. ASSUME StackAllocated \/ NoStack \/ StackFreed \/ JoinFreesStack
               \/ \E label \in {"create_fill", "create_fail"} : PageAllocated(label)
        PROVE  Lists'
    <3>1. /\ Unlock(BuddyLock) /\ Wake(First(lockers[BuddyLock]))
          /\ pc[current] # "lock" /\ UNCHANGED <<waiters, is_over>> /\ BuddyLock \in Mutex
      BY <2>2, LockNames
      DEF StackAllocated, NoStack, StackFreed, JoinFreesStack, PageAllocated, Release, At
    <3>2. QED
      BY <1>3, <3>1, ReleaseStep
  <2>3. ASSUME NoThread \/ JoinFreesThread \/ \E u \in Thread : ThreadAllocated(u)
        PROVE  Lists'
    <3>1. /\ Unlock(ThreadSlab) /\ Wake(First(lockers[ThreadSlab]))
          /\ pc[current] # "lock" /\ UNCHANGED <<waiters, is_over>> /\ ThreadSlab \in Mutex
      BY <2>3, LockNames DEF NoThread, JoinFreesThread, ThreadAllocated, Release, At
    <3>2. QED
      BY <1>3, <3>1, ReleaseStep
  <2>4. ASSUME JoinDone PROVE Lists'
    <3> DEFINE m == target[current]
    <3>1. /\ Unlock(m) /\ Wake(First(lockers[m]))
          /\ pc[current] # "lock" /\ UNCHANGED <<waiters, is_over>> /\ m \in Mutex
      BY <1>1, <2>4, LockNames DEF JoinDone, Release, At
    <3> HIDE DEF m
    <3>2. QED
      BY <1>3, <3>1, ReleaseStep
  <2>5. ASSUME JoinWait PROVE Lists'
    <3> DEFINE c == target[current]
    <3>1. /\ c \in Cond /\ Wait(c, "joining") /\ ~is_over[c]
          /\ pc[current] # "lock" /\ UNCHANGED is_over
      BY <1>1, <2>5, MutexFacts DEF JoinWait, At
    <3> HIDE DEF c
    <3>2. QED
      BY <1>3, <3>1, WaitStep
  <2>6. ASSUME SlabFull \/ ThreadStart PROVE Lists'
    <3>1. /\ UNCHANGED <<sched, lockers, waiters, is_over, occupied>> /\ pc[current] # "lock"
      BY <2>6 DEF SlabFull, ThreadStart, At, sync
    <3>2. QED
      BY <1>3, <3>1, QuietStep
  <2>7. QED
    BY <1>2, <2>1, <2>2, <2>3, <2>4, <2>5, <2>6 DEF KernelStep
<1>4. QED
  BY <1>1, <1>2, <1>3, PointsKernel

LEMMA ListsPit ==
  ASSUME ListInv, TypeOK', PitHandler
  PROVE  Lists'
<1>1. UNCHANGED <<sync, prog>>
  BY DEF PitHandler
<1>2. PointsKept
  <2>1. UNCHANGED <<pc, want, ret, target>> /\ IdleLives
    BY <1>1 DEF prog, ListInv
  <2>2. QED
    BY <2>1 DEF PointsKept, Living, Dead, Buried, IdleLives
<1>3. CASE ticks + 1 >= PIT_TICKS
  BY <1>1, <1>2, <1>3, PreemptStep DEF PitHandler
<1>4. CASE ~(ticks + 1 >= PIT_TICKS)
  <2>1. UNCHANGED <<sched, lockers, waiters, is_over, occupied>> /\ pc[current] # "lock"
    BY <1>1, <1>4 DEF PitHandler, sync, prog, Enabled
  <2>2. QED
    BY <1>2, <2>1, QuietStep
<1>5. QED
  BY <1>3, <1>4

LEMMA ListsStutter ==
  ASSUME ListInv, UNCHANGED vars
  PROVE  Lists'
<1>1. UNCHANGED <<current, alive, sleep, dead, halted, occupied, lockers, waiters,
                  pc, want, ret, target, is_over>>
  BY DEF vars, sched, sync, prog
<1>2. Lists
  BY DEF ListInv, Lists
<1>3. SchedulerLists' /\ IdleLives' /\ ~halted'
  BY <1>1, <1>2 DEF Lists, SchedulerLists, IdleLives, Living, Buried
<1>4. WaitingLists' /\ NoLostWakeup' /\ NoLostDeath'
  BY <1>1, <1>2 DEF Lists, WaitingLists, NoLostWakeup, NoLostDeath
<1>5. QED
  BY <1>3, <1>4 DEF Lists

LEMMA ListsInit == Init => ListInv
<1> SUFFICES ASSUME Init PROVE ListInv
  OBVIOUS
<1>1. LockInv /\ HeldPoints
  BY TypeInit, CoreInit, HeldInit DEF LockInv, Core
<1>2. ToSet(alive) = {} /\ IsInjective(alive)
  BY EmptyList DEF Init
<1>3. \A m \in Mutex : ToSet(lockers[m]) = {} /\ IsInjective(lockers[m]) /\ lockers[m] = <<>>
  BY EmptyList DEF Init
<1>4. \A c \in Cond : ToSet(waiters[c]) = {} /\ IsInjective(waiters[c]) /\ waiters[c] = <<>>
  BY EmptyList DEF Init
<1>5. WaitingLists
  BY <1>3, <1>4 DEF WaitingLists, Init
<1>6. SchedulerLists
  <2>1. Living = {Idle}
    BY IdleAssumption DEF Init, Living, Enabled, Masked
  <2>2. dead = {u \in Thread : pc[u] = "dead" /\ \A t \in Thread : Buried(t) => target[t] # u}
    BY DEF Init
  <2>3. current = Idle /\ sleep = {}
    BY DEF Init
  <2>4. QED
    BY <1>2, <2>1, <2>2, <2>3 DEF SchedulerLists
<1>7. NoLostWakeup /\ NoLostDeath /\ IdleLives /\ ~halted
  BY <1>3, <1>4, IdleAssumption, MutexFacts DEF Init, NoLostWakeup, NoLostDeath, IdleLives
<1>8. QED
  BY <1>1, <1>5, <1>6, <1>7 DEF ListInv

LEMMA ListsStep ==
  ASSUME ListInv, [Next]_vars
  PROVE  ListInv'
<1>1. LockInv' /\ HeldPoints' /\ TypeOK'
  BY LockStep, HeldStep DEF ListInv, LockInv
<1>2. Lists'
  BY <1>1, ListsClient, ListsKernel, ListsPit, ListsStutter DEF Next
<1>3. QED
  BY <1>1, <1>2 DEF ListInv, Lists

(* ListInv is inductive: under every interleaving of calls, wake-ups and   *)
(* preemptions the scheduler's lists partition the threads that live, the  *)
(* waiting lists partition those that sleep, and no wake-up is lost.       *)
THEOREM ListInvariant == Spec => []ListInv
<1>1. ListInv /\ [Next]_vars => ListInv'
  BY ListsStep
<1>2. QED
  BY <1>1, ListsInit, PTL DEF Spec
----------------------------------------------------------------------------
(* What follows from the inductive invariant.                              *)

LEMMA OneListOfThread ==
  ASSUME ListInv
  PROVE  OneSchedulerList
<1>1. alive \in Seq(Thread) /\ IsInjective(alive) /\ SchedulerLists /\ dead \subseteq Thread
  BY ListFacts DEF SchedulerLists, TypeOK
<1>2. \A i, j \in DOMAIN alive : i # j => alive[i] # alive[j]
  BY <1>1, Elements
<1>3. /\ current \notin ToSet(alive) \cup sleep /\ ToSet(alive) \cap sleep = {}
      /\ ToSet(alive) \cup sleep \cup {current} = Living
  BY <1>1 DEF SchedulerLists
<1>4. \A u \in dead : pc[u] = "dead"
  BY <1>1 DEF SchedulerLists
<1>5. dead \cap Living = {}
  BY <1>4 DEF Living, Enabled, Masked
<1>6. \A t \in Thread : t \in Living <=> pc[t] \in Enabled \cup Masked
  BY DEF Living
<1>7. QED
  BY <1>2, <1>3, <1>4, <1>5, <1>6 DEF OneSchedulerList

(* A thread that exists and does not run is on exactly one of the alive,   *)
(* sleep and dead lists, once, whoever moved it there.                     *)
THEOREM SchedulerListsPartition == Spec => []OneSchedulerList
  BY OneListOfThread, ListInvariant, PTL

(* schedule always finds a thread to switch to, and never a dead one: the  *)
(* idle thread is always running or on the alive list.                     *)
THEOREM SchedulerNeverHalts == Spec => []NeverHalts
<1>1. ListInv => NeverHalts
  <2> SUFFICES ASSUME ListInv PROVE NeverHalts
    OBVIOUS
  <2>1. ~halted /\ current \in Living /\ Idle \in Awake
    BY ListFacts DEF ListInv
  <2>2. QED
    BY <2>1 DEF NeverHalts, Living, Enabled, Masked, Awake
<1>2. QED
  BY <1>1, ListInvariant, PTL

(* While a mutex is free and threads sleep waiting for it, some thread is  *)
(* awake and about to test it: mutex_unlock's one notification is enough.  *)
THEOREM WakeupsNotLost == Spec => []NoLostWakeup
<1>1. ListInv => NoLostWakeup
  BY DEF ListInv
<1>2. QED
  BY <1>1, ListInvariant, PTL

(* Nobody sleeps waiting for the death of a thread that is over.           *)
THEOREM DeathsNotLost == Spec => []NoLostDeath
<1>1. ListInv => NoLostDeath
  BY DEF ListInv
<1>2. QED
  BY <1>1, ListInvariant, PTL

(* Reaping is part of joining, and so has its target for itself.           *)
LEMMA ReapedQuiet ==
  ASSUME ListInv
  PROVE  ReapedIsQuiet
<1>0. /\ TypeOK /\ LockTypes /\ Core /\ SchedulerLists /\ WaitingLists
      /\ current \in Living /\ current \notin sleep
  BY ListFacts
<1> SUFFICES ASSUME NEW t \in Thread, Reaping(t)
             PROVE  LET u == target[t]
                    IN /\ pc[u] = "dead" /\ u # current
                       /\ pc[t] = "reap" => u \in dead
                       /\ ~occupied[u] /\ lockers[u] = <<>> /\ waiters[u] = <<>>
                       /\ \A w \in Thread : pc[w] = "lock" => want[w] # u
  BY DEF ReapedIsQuiet
<1> DEFINE u == target[t]
<1>1. u \in Thread /\ u # Idle /\ pc[u] = "dead" /\ u \in Mutex /\ u \in Cond /\ MutexOf(u) = u
  BY <1>0, MutexFacts DEF Core, Targets, Joining, LockTypes
<1>2. \A w \in Thread \ {t} : target[w] # u
  BY <1>0, <1>1 DEF Core, Targets
<1>3. pc[t] # "joining" /\ (pc[t] = "lock" => ret[t] # "joining")
  BY DEF Reaping
<1>4. u \notin UserMutex /\ u # BuddyLock /\ u # ThreadSlab
  BY <1>1, LockNames
<1> HIDE DEF u
<1>5. u # current
  BY <1>0, <1>1 DEF Living, Enabled, Masked
<1>6. ASSUME pc[t] = "reap" PROVE u \in dead
  <2>1. \A w \in Thread : Buried(w) => target[w] # u
    BY <1>2, <1>6 DEF Buried
  <2>2. QED
    BY <1>0, <1>1, <2>1 DEF SchedulerLists
<1>7. \A w \in Thread : u \notin held[w]
  BY <1>0, <1>1, <1>2, <1>3 DEF Core, OwnLocks
<1>8. ~occupied[u]
  BY <1>0, <1>1, <1>7 DEF Core, MutualExclusion
<1>9. ASSUME NEW w \in Thread, pc[w] = "lock" PROVE want[w] # u
  <2>1. CASE w = t
    BY <1>0, <1>1, <1>3, <1>4, <1>9, <2>1 DEF Core, LockPoints
  <2>2. CASE w # t
    BY <1>0, <1>1, <1>2, <1>4, <1>9, <2>2 DEF Core, LockPoints
  <2>3. QED
    BY <2>1, <2>2
<1>10. lockers[u] = <<>> /\ waiters[u] = <<>>
  <2>1. sleep \subseteq Thread /\ lockers[u] \in Seq(Thread) /\ waiters[u] \in Seq(Thread)
    BY <1>0, <1>1 DEF TypeOK
  <2>2. ToSet(lockers[u]) = {} /\ ToSet(waiters[u]) = {}
    BY <1>0, <1>1, <1>9, <2>1 DEF WaitingLists
  <2>3. QED
    BY <2>1, <2>2, EmptyList
<1>11. QED
  BY <1>1, <1>5, <1>6, <1>8, <1>9, <1>10 DEF u

(* thread_join frees a stack and a struct thread only when the thread is   *)
(* dead, and nobody is inside or waits at its lock or its is_dead.         *)
THEOREM ReapedThreadsAreQuiet == Spec => []ReapedIsQuiet
  BY ReapedQuiet, ListInvariant, PTL

(* Places counts the entries of a thread on lists without repetitions.     *)
LEMMA PlacesMembers ==
  ASSUME NEW L, NEW lists \in [L -> Seq(Thread)], NEW t, NEW x
  PROVE  x \in Places(lists, t) <=>
           \E l \in L : \E i \in 1 .. Len(lists[l]) : lists[l][i] = t /\ x = <<l, i>>
<1>1. DOMAIN lists = L /\ \A l \in L : DOMAIN lists[l] = 1 .. Len(lists[l])
  BY Elements
<1>2. QED
  BY <1>1 DEF Places

LEMMA NoPlace ==
  ASSUME NEW L, NEW lists \in [L -> Seq(Thread)], NEW t,
         \A l \in L : t \notin ToSet(lists[l])
  PROVE  Cardinality(Places(lists, t)) = 0
<1>1. \A l \in L : ~ \E i \in 1 .. Len(lists[l]) : lists[l][i] = t
  BY Elements
<1>2. Places(lists, t) = {}
  BY <1>1, PlacesMembers
<1>3. QED
  BY <1>2, FS_EmptySet

LEMMA OnePlace ==
  ASSUME NEW L, NEW lists \in [L -> Seq(Thread)], NEW t, NEW k \in L,
         IsInjective(lists[k]), t \in ToSet(lists[k]),
         \A l \in L \ {k} : t \notin ToSet(lists[l])
  PROVE  Cardinality(Places(lists, t)) = 1
<1>1. PICK i \in 1 .. Len(lists[k]) : lists[k][i] = t
  BY Elements
<1>2. \A j \in 1 .. Len(lists[k]) : lists[k][j] = t => j = i
  BY <1>1, Elements
<1>3. \A l \in L \ {k} : ~ \E j \in 1 .. Len(lists[l]) : lists[l][j] = t
  BY Elements
<1>4. \A x : x \in Places(lists, t) <=>
        \E l \in L : \E j \in 1 .. Len(lists[l]) : lists[l][j] = t /\ x = <<l, j>>
  BY PlacesMembers
<1>5. \A x : x \in Places(lists, t) <=> x = <<k, i>>
  BY <1>1, <1>2, <1>3, <1>4
<1>6. Places(lists, t) = {<<k, i>>}
  BY <1>5
<1>7. QED
  BY <1>6, FS_Singleton

LEMMA SleepersOnOneList ==
  ASSUME ListInv
  PROVE  SleepersWait
<1>0. TypeOK /\ WaitingLists
  BY ListFacts
<1>1. ASSUME NEW t \in Thread
      PROVE  Cardinality(Places(lockers, t)) + Cardinality(Places(waiters, t))
               = IF t \in sleep THEN 1 ELSE 0
  <2>1. lockers \in [Mutex -> Seq(Thread)] /\ \A l \in Mutex : IsInjective(lockers[l])
    BY <1>0 DEF TypeOK, WaitingLists
  <2>2. waiters \in [Cond -> Seq(Thread)] /\ \A l \in Cond : IsInjective(waiters[l])
    BY <1>0 DEF TypeOK, WaitingLists
  <2>3. CASE t \notin sleep
    <3>1. /\ \A m \in Mutex : t \notin ToSet(lockers[m])
          /\ \A c \in Cond : t \notin ToSet(waiters[c])
      BY <1>0, <2>3 DEF WaitingLists
    <3>2. Cardinality(Places(lockers, t)) = 0 /\ Cardinality(Places(waiters, t)) = 0
      BY <2>1, <2>2, <3>1, NoPlace
    <3>3. QED
      BY <2>3, <3>2
  <2>4. ASSUME t \in sleep, NEW k \in Mutex, t \in ToSet(lockers[k])
        PROVE  Cardinality(Places(lockers, t)) + Cardinality(Places(waiters, t)) = 1
    <3>1. \A m \in Mutex \ {k} : t \notin ToSet(lockers[m])
      BY <1>0, <2>4 DEF WaitingLists
    <3>2. \A c \in Cond : t \notin ToSet(waiters[c])
      BY <1>0, <2>4 DEF WaitingLists
    <3>3. Cardinality(Places(lockers, t)) = 1
      BY <2>1, <2>4, <3>1, OnePlace
    <3>4. Cardinality(Places(waiters, t)) = 0
      BY <2>2, <3>2, NoPlace
    <3>5. QED
      BY <3>3, <3>4
  <2>5. ASSUME t \in sleep, NEW k \in Cond, t \in ToSet(waiters[k])
        PROVE  Cardinality(Places(lockers, t)) + Cardinality(Places(waiters, t)) = 1
    <3>1. \A m \in Mutex : t \notin ToSet(lockers[m])
      BY <1>0, <2>5 DEF WaitingLists
    <3>2. \A c \in Cond \ {k} : t \notin ToSet(waiters[c])
      BY <1>0, <2>5 DEF WaitingLists
    <3>3. Cardinality(Places(lockers, t)) = 0
      BY <2>1, <3>1, NoPlace
    <3>4. Cardinality(Places(waiters, t)) = 1
      BY <2>2, <2>5, <3>2, OnePlace
    <3>5. QED
      BY <3>3, <3>4
  <2>6. CASE t \in sleep
    <3>1. \/ \E m \in Mutex : t \in ToSet(lockers[m])
          \/ \E c \in Cond : t \in ToSet(waiters[c])
      BY <1>0, <2>6 DEF WaitingLists
    <3>2. QED
      BY <2>4, <2>5, <2>6, <3>1
  <2>7. QED
    BY <2>3, <2>6
<1>2. \A m \in Mutex : \A t \in ToSet(lockers[m]) : t # Idle /\ pc[t] = "lock" /\ want[t] = m
  BY <1>0 DEF WaitingLists
<1>3. \A c \in Cond : \A t \in ToSet(waiters[c]) : t # Idle /\ pc[t] = "lock" /\ want[t] = MutexOf(c)
  BY <1>0 DEF WaitingLists
<1>4. QED
  BY <1>1, <1>2, <1>3 DEF SleepersWait

(* A thread sleeps exactly while it is on one waiting list, once: that of  *)
(* the mutex it locks, or of a condition with that mutex.                  *)
THEOREM SleepersWaitOnce == Spec => []SleepersWait
  BY SleepersOnOneList, ListInvariant, PTL
----------------------------------------------------------------------------
(* Threads implements Monitor: each step is a step of Monitor or invisible.*)

Waiting == [c \in Cond |-> ToSet(waiters[c])]

LEMMA MonitorInit == Init => M!Init
<1> SUFFICES ASSUME Init PROVE M!Init
  OBVIOUS
<1>1. \A c \in Cond : ToSet(waiters[c]) = {}
  BY EmptyList DEF Init
<1>2. QED
  BY <1>1 DEF Init, M!Init

LEMMA MonitorStutter ==
  ASSUME UNCHANGED <<held, waiters, is_over>>
  PROVE  UNCHANGED M!vars
  BY DEF M!vars

(* mutex_lock returns: nobody has the mutex, and who runs does not wait.   *)
LEMMA MonitorAcquire ==
  ASSUME ListInv, LockTake
  PROVE  M!Next
<1>0. /\ TypeOK /\ LockTypes /\ Core /\ WaitingLists /\ current \in Thread /\ current \notin sleep
  BY ListFacts
<1> DEFINE m == want[current]
<1>1. /\ m \in Mutex /\ ~occupied[m] /\ UNCHANGED <<waiters, is_over>>
      /\ held' = [held EXCEPT ![current] = @ \cup {m}]
  BY <1>0 DEF LockTake, LockTypes
<1> HIDE DEF m
<1>2. \A t \in Thread : m \notin held[t]
  BY <1>0, <1>1 DEF Core, MutualExclusion
<1>3. \A c \in Cond : current \notin ToSet(waiters[c])
  BY <1>0 DEF WaitingLists
<1>4. M!Acquire(current, m)
  BY <1>1, <1>2, <1>3 DEF M!Acquire, M!Free, M!Waits
<1>5. QED
  BY <1>0, <1>1, <1>4 DEF M!Next

(* mutex_unlock of a mutex that is not a thread's.                         *)
LEMMA MonitorRelease ==
  ASSUME LockTypes, NEW m \in Mutex, m \in held[current], m \notin Thread, Unlock(m),
         UNCHANGED <<waiters, is_over>>
  PROVE  M!Next
<1>1. M!Release(current, m)
  BY DEF M!Release, Unlock
<1>2. QED
  BY <1>1 DEF M!Next, LockTypes

LEMMA MonitorWait ==
  ASSUME TypeOK, NEW c \in Cond, NEW label, MutexOf(c) \in held[current],
         c \in Thread => ~is_over[c], Wait(c, label), UNCHANGED is_over
  PROVE  M!Next
<1> DEFINE m == MutexOf(c)
<1>1. /\ held' = [held EXCEPT ![current] = @ \ {m}]
      /\ waiters' = IF CanSleep THEN [waiters EXCEPT ![c] = <<current>> \o @] ELSE waiters
  BY DEF Wait, Unlock
<1>2. waiters \in [Cond -> Seq(Thread)] /\ current \in Thread
  BY DEF TypeOK
<1>3. ToSet(<<current>> \o waiters[c]) = {current} \cup ToSet(waiters[c])
  BY <1>2, ConsElements
<1>4. Waiting' = IF current = Idle THEN Waiting ELSE [Waiting EXCEPT ![c] = @ \cup {current}]
  <2>1. CASE current = Idle
    BY <1>1, <2>1 DEF Waiting, CanSleep
  <2>2. CASE current # Idle
    <3>1. waiters' = [waiters EXCEPT ![c] = <<current>> \o @]
      BY <1>1, <2>2 DEF CanSleep
    <3>2. ToSet(waiters'[c]) = ToSet(waiters[c]) \cup {current}
      BY <3>1, <1>2, <1>3
    <3>3. \A d \in Cond \ {c} : waiters'[d] = waiters[d]
      BY <3>1, <1>2
    <3>4. QED
      BY <2>2, <3>2, <3>3 DEF Waiting
  <2>3. QED
    BY <2>1, <2>2
<1>5. [d \in Cond |-> MutexOf(d)][c] = m
  OBVIOUS
<1>6. M!Wait(current, c)
  BY <1>1, <1>4, <1>5 DEF M!Wait, Waiting
<1>7. QED
  BY <1>2, <1>6 DEF M!Next

(* Notifying nobody is invisible.                                          *)
LEMMA MonitorNotify ==
  ASSUME ListInv, NEW c \in UserCond, CvNotify(c)
  PROVE  M!Next \/ UNCHANGED M!vars
<1>0. TypeOK /\ WaitingLists
  BY ListFacts
<1> DEFINE q == waiters[c]
<1>1. /\ waiters' = [waiters EXCEPT ![c] = Others(q)] /\ UNCHANGED <<held, is_over>>
      /\ c \in Cond
  BY MutexFacts DEF CvNotify, prog
<1>2. waiters \in [Cond -> Seq(Thread)] /\ q \in Seq(Thread) /\ IsInjective(q)
  BY <1>0, <1>1 DEF TypeOK, WaitingLists
<1>3. CASE q = <<>>
  <2>1. Others(q) = q
    BY <1>3 DEF Others
  <2>2. waiters' = waiters
    BY <1>1, <1>2, <2>1
  <2>3. QED
    BY <1>1, <2>2, MonitorStutter
<1>4. CASE q # <<>>
  <2>1. /\ ToSet(q) = {Head(q)} \cup ToSet(Tail(q)) /\ Head(q) \notin ToSet(Tail(q))
        /\ Others(q) = Tail(q)
    BY <1>2, <1>4, HeadTailElements DEF Others
  <2>2. waiters'[c] = Tail(q) /\ \A d \in Cond \ {c} : waiters'[d] = waiters[d]
    BY <1>1, <1>2, <2>1
  <2>3. Waiting' = [Waiting EXCEPT ![c] = @ \ {Head(q)}]
    BY <2>1, <2>2 DEF Waiting
  <2>4. Head(q) \in Waiting[c]
    BY <1>1, <2>1 DEF Waiting
  <2>5. M!Notify(c)
    BY <1>1, <2>3, <2>4 DEF M!Notify, Waiting
  <2>6. QED
    BY <1>1, <2>5 DEF M!Next
<1>5. QED
  BY <1>3, <1>4

LEMMA MonitorNotifyAll ==
  ASSUME TypeOK, NEW c \in UserCond, CvNotifyAll(c)
  PROVE  M!Next
<1>1. /\ waiters' = [waiters EXCEPT ![c] = <<>>] /\ UNCHANGED <<held, is_over>>
      /\ c \in Cond /\ waiters \in [Cond -> Seq(Thread)]
  BY MutexFacts DEF CvNotifyAll, prog, TypeOK
<1>2. Waiting' = [Waiting EXCEPT ![c] = {}]
  BY <1>1, EmptyList DEF Waiting
<1>3. M!NotifyAll(c)
  BY <1>1, <1>2 DEF M!NotifyAll, Waiting
<1>4. QED
  BY <1>1, <1>3 DEF M!Next

(* A thread exits with its own lock only, and wakes one joiner if any.     *)
LEMMA MonitorFinish ==
  ASSUME ListInv, ThreadExit
  PROVE  M!Next
<1>0. /\ TypeOK /\ LockTypes /\ Core /\ WaitingLists /\ current \in Thread
      /\ HeldPoints
  BY ListFacts DEF ListInv
<1> DEFINE u == current
           q == waiters[u]
<1>1. /\ pc[u] = "exit" /\ is_over' = [is_over EXCEPT ![u] = TRUE]
      /\ waiters' = [waiters EXCEPT ![u] = Others(q)]
      /\ held' = [held EXCEPT ![u] = @ \ {u}]
      /\ u \in Cond
  BY <1>0, MutexFacts DEF ThreadExit, At, Unlock
<1> HIDE DEF u
<1>2. waiters \in [Cond -> Seq(Thread)] /\ q \in Seq(Thread) /\ IsInjective(q) /\ u \in Thread
  BY <1>0, <1>1 DEF TypeOK, WaitingLists, u
<1>3. ~is_over[u]
  BY <1>0, <1>1, <1>2 DEF Core, Targets, Absent
<1>4. held[u] = {u}
  BY <1>0, <1>1, <1>2 DEF HeldPoints
<1>5. held' = [held EXCEPT ![u] = {}]
  BY <1>1, <1>4
<1>6. IF Waiting[u] = {} THEN Waiting' = Waiting
      ELSE \E t \in Waiting[u] : Waiting' = [Waiting EXCEPT ![u] = @ \ {t}]
  <2>1. Waiting[u] = ToSet(q)
    BY <1>1 DEF Waiting
  <2>2. CASE q = <<>>
    <3>1. Others(q) = q
      BY <2>2 DEF Others
    <3>2. waiters' = waiters
      BY <1>1, <1>2, <3>1
    <3>3. Waiting[u] = {}
      BY <2>1, <2>2, EmptyList
    <3>4. QED
      BY <3>2, <3>3 DEF Waiting
  <2>3. CASE q # <<>>
    <3>1. /\ ToSet(q) = {Head(q)} \cup ToSet(Tail(q)) /\ Head(q) \notin ToSet(Tail(q))
          /\ Others(q) = Tail(q)
      BY <1>2, <2>3, HeadTailElements DEF Others
    <3>2. waiters'[u] = Tail(q) /\ \A d \in Cond \ {u} : waiters'[d] = waiters[d]
      BY <1>1, <1>2, <3>1
    <3>3. Waiting' = [Waiting EXCEPT ![u] = @ \ {Head(q)}]
      BY <3>1, <3>2 DEF Waiting
    <3>4. QED
      BY <2>1, <3>1, <3>3
  <2>4. QED
    BY <2>2, <2>3
<1>7. M!Finish(u)
  BY <1>1, <1>3, <1>4, <1>5, <1>6 DEF M!Finish, Waiting
<1>8. QED
  BY <1>2, <1>7 DEF M!Next

(* A slot is initialised for a new thread while nobody uses its lock.      *)
LEMMA MonitorCreate ==
  ASSUME ListInv, ThreadPublished
  PROVE  M!Next
<1>0. /\ TypeOK /\ LockTypes /\ Core /\ WaitingLists /\ current \in Thread
      /\ HeldPoints /\ sleep \subseteq Thread \ {current}
  BY ListFacts DEF ListInv, TypeOK
<1> DEFINE u == target[current]
<1>1. /\ pc[current] = "create" /\ pc[u] = "embryo" /\ u \in Thread /\ u # current /\ u # Idle
      /\ is_over' = [is_over EXCEPT ![u] = FALSE]
      /\ waiters' = [waiters EXCEPT ![u] = <<>>]
      /\ held' = held
      /\ u \in Cond /\ MutexOf(u) = u
  BY <1>0, MutexFacts DEF ThreadPublished, At, LockTypes, Core, Targets, Absent
<1>2. \A t \in Thread \ {current} : target[t] # u
  BY <1>0, <1>1 DEF Core, Targets
<1> HIDE DEF u
<1>3. \A t \in Thread : u \notin held[t]
  BY <1>0, <1>1, <1>2 DEF Core, OwnLocks
<1>4. held[u] = {}
  BY <1>0, <1>1 DEF HeldPoints, Absent
<1>5. ToSet(waiters[u]) = {}
  <2>1. ASSUME NEW t \in sleep, pc[t] = "lock", want[t] = u PROVE FALSE
    <3>1. t \in Thread /\ t # current /\ t # u
      BY <2>1, <1>0, <1>1
    <3>2. u # BuddyLock /\ u # ThreadSlab /\ u \notin UserMutex
      BY <1>1, LockNames
    <3>3. QED
      BY <2>1, <3>1, <3>2, <1>0, <1>2 DEF Core, LockPoints
  <2>2. QED
    BY <2>1, <1>0, <1>1 DEF WaitingLists
<1>6. Waiting' = Waiting
  <2>1. waiters \in [Cond -> Seq(Thread)]
    BY <1>0 DEF TypeOK
  <2>2. ToSet(waiters'[u]) = ToSet(waiters[u])
    BY <2>1, <1>1, <1>5, EmptyList
  <2>3. \A d \in Cond \ {u} : waiters'[d] = waiters[d]
    BY <2>1, <1>1
  <2>4. QED
    BY <2>2, <2>3 DEF Waiting
<1>7. Waiting[u] = {}
  BY <1>1, <1>5 DEF Waiting
<1>8. M!Create(u)
  BY <1>1, <1>3, <1>4, <1>6, <1>7 DEF M!Create, M!Free, Waiting
<1>9. QED
  BY <1>1, <1>8 DEF M!Next

LEMMA MonitorJoin ==
  ASSUME LockTypes, Core, JoinDone
  PROVE  M!Next
<1> DEFINE u == target[current]
<1>1. /\ is_over[u] /\ u \in Thread /\ u \in held[current] /\ current \in Thread
      /\ held' = [held EXCEPT ![current] = @ \ {u}]
      /\ UNCHANGED <<waiters, is_over>>
  BY DEF JoinDone, Release, Unlock, At, Core, LockPoints, LockTypes
<1> HIDE DEF u
<1>2. M!Join(current, u)
  BY <1>1 DEF M!Join
<1>3. QED
  BY <1>1, <1>2 DEF M!Next

LEMMA MonitorClient ==
  ASSUME ListInv, ClientStep
  PROVE  M!Next \/ UNCHANGED M!vars
<1>0. TypeOK /\ LockTypes
  BY ListFacts
<1>1. ASSUME NEW m \in UserMutex, MutexUnlock(m) PROVE M!Next
  BY <1>0, <1>1, LockNames, MonitorRelease DEF MutexUnlock, Release, prog
<1>2. ASSUME NEW c \in UserCond, CvWait(c) PROVE M!Next
  <2>1. /\ c \in Cond /\ MutexOf(c) \in held[current] /\ c \notin Thread
        /\ Wait(c, "run") /\ UNCHANGED is_over
    BY <1>2, MutexFacts, CondAssumption DEF CvWait
  <2>2. QED
    BY <1>0, <2>1, MonitorWait
<1>3. ASSUME \/ \E m \in UserMutex : MutexLock(m)
             \/ Yield \/ ThreadCreate \/ ThreadReturn
             \/ \E u \in Thread : ThreadJoin(u)
      PROVE  UNCHANGED M!vars
  <2>1. UNCHANGED <<held, waiters, is_over>>
    BY <1>3 DEF MutexLock, Yield, ThreadCreate, ThreadReturn, ThreadJoin, sync, prog
  <2>2. QED
    BY <2>1, MonitorStutter
<1>4. QED
  BY <1>0, <1>1, <1>2, <1>3, MonitorNotify, MonitorNotifyAll DEF ClientStep

LEMMA MonitorKernel ==
  ASSUME ListInv, KernelStep
  PROVE  M!Next \/ UNCHANGED M!vars
<1>0. TypeOK /\ LockTypes /\ Core /\ current \in Thread
  BY ListFacts
<1>1. ASSUME StackAllocated \/ NoStack \/ StackFreed \/ JoinFreesStack
             \/ \E label \in {"create_fill", "create_fail"} : PageAllocated(label)
      PROVE  M!Next
  <2>1. Unlock(BuddyLock) /\ UNCHANGED <<waiters, is_over>>
    BY <1>1 DEF StackAllocated, NoStack, StackFreed, JoinFreesStack, PageAllocated, Release
  <2>2. pc[current] \in {"create_stack", "create_page", "create_undo", "free_stack"}
    BY <1>1 DEF StackAllocated, NoStack, StackFreed, JoinFreesStack, PageAllocated, At
  <2>3. BuddyLock \in held[current]
    BY <1>0, <2>2 DEF Core, LockPoints
  <2>4. QED
    BY <1>0, <2>1, <2>3, LockNames, MonitorRelease
<1>2. ASSUME NoThread \/ JoinFreesThread \/ \E u \in Thread : ThreadAllocated(u)
      PROVE  M!Next
  <2>1. Unlock(ThreadSlab) /\ UNCHANGED <<waiters, is_over>>
    BY <1>2 DEF NoThread, JoinFreesThread, ThreadAllocated, Release
  <2>2. pc[current] \in {"create_slab", "create_fill", "create_fail", "free_thread"}
    BY <1>2 DEF NoThread, JoinFreesThread, ThreadAllocated, At
  <2>3. ThreadSlab \in held[current]
    BY <1>0, <2>2 DEF Core, LockPoints
  <2>4. QED
    BY <1>0, <2>1, <2>3, LockNames, MonitorRelease
<1>3. ASSUME JoinWait PROVE M!Next
  <2> DEFINE c == target[current]
  <2>1. c \in Thread /\ c \in Cond /\ MutexOf(c) = c
    BY <1>0, MutexFacts DEF LockTypes
  <2>2. /\ Wait(c, "joining") /\ UNCHANGED is_over /\ ~is_over[c] /\ c \in held[current]
    BY <1>0, <1>3 DEF JoinWait, At, Core, LockPoints
  <2> HIDE DEF c
  <2>3. QED
    BY <1>0, <2>1, <2>2, MonitorWait
<1>4. ASSUME LockWait \/ SlabFull \/ ThreadStart \/ Reap PROVE UNCHANGED M!vars
  <2>1. UNCHANGED <<held, waiters, is_over>>
    BY <1>4 DEF LockWait, SlabFull, ThreadStart, Reap, sync, prog
  <2>2. QED
    BY <2>1, MonitorStutter
<1>5. QED
  BY <1>0, <1>1, <1>2, <1>3, <1>4, MonitorAcquire, MonitorFinish, MonitorCreate, MonitorJoin
  DEF KernelStep

(* threads.c implements monitors: under every preemption each of its steps *)
(* is one atomic monitor operation - a lock taken, given back, given back  *)
(* in waiting, a notification, a death, a join, a creation - or invisible. *)
THEOREM ThreadsImplementMonitor == Spec => MonitorSpec
<1>1. ListInv /\ [Next]_vars => [M!Next]_M!vars
  <2> SUFFICES ASSUME ListInv, [Next]_vars PROVE M!Next \/ UNCHANGED M!vars
    OBVIOUS
  <2>1. CASE PitHandler \/ UNCHANGED vars
    <3>1. UNCHANGED <<held, waiters, is_over>>
      BY <2>1 DEF PitHandler, vars, sync, prog
    <3>2. QED
      BY <3>1, MonitorStutter
  <2>2. QED
    BY <2>1, MonitorClient, MonitorKernel DEF Next
<1>2. QED
  BY <1>1, MonitorInit, ListInvariant, PTL DEF Spec, MonitorSpec, M!Spec
=============================================================================
