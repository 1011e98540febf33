---------------------------- MODULE ThreadsTest ----------------------------
(***************************************************************************)
(* test_threads of test.c on top of Threads: thread_test calls itself on   *)
(* the idle thread, and every call above the last level creates two        *)
(* threads that run it one level down, joins them one after the other and  *)
(* compares what they return with the numbers it gave them.  Memory does   *)
(* not run out (the test does not check what thread_create returns).       *)
(***************************************************************************)
EXTENDS Threads

CONSTANT MAX_LEVEL   \* 10 in the code
ASSUME LevelAssumption == MAX_LEVEL \in Nat

VARIABLES
  line,  \* line[t]: the next statement of thread t's function
  node,  \* node[t]: the struct thread_test_data given to t; level -1: another function
  kids,  \* kids[t]: left and right, the threads that t has created (Idle: not assigned)
  data,  \* data[t]: t->data, the function's result once is_over is set, 0 before
  got    \* got[t]: what thread_join has returned to t

threadsTest == <<node, kids, data, got>>

Other == [level |-> -1, id |-> 0]

ThreadsTestInit ==
  /\ Init
  /\ line = [t \in Thread |-> IF t # Idle THEN "none"
                              ELSE IF MAX_LEVEL > 0 THEN "create_left" ELSE "return"]
  /\ node = [t \in Thread |-> IF t = Idle THEN [level |-> 0, id |-> 1] ELSE Other]
  /\ kids = [t \in Thread |-> [left |-> Idle, right |-> Idle]]
  /\ data = [t \in Thread |-> 0]
  /\ got = [t \in Thread |-> 0]

(* The current thread executes its statement `from` and goes on at `to`.   *)
Statement(from, to) ==
  /\ At("run")
  /\ line[current] = from
  /\ line' = [line EXCEPT ![current] = to]

Create ==
  /\ Statement("create_left", "create_right") \/ Statement("create_right", "join_left")
  /\ ThreadCreate
  /\ UNCHANGED threadsTest

(* The end of thread_create, which returns to the next statement.          *)
NodePublished ==
  LET u == target[current]
      me == node[current]
      isLeft == line[current] = "create_right"
      id == IF isLeft THEN me.id * 2 ELSE me.id * 2 + 1
  IN /\ line[current] \in {"create_right", "join_left"}
     /\ ThreadPublished
     /\ node' = [node EXCEPT ![u] = [level |-> me.level + 1, id |-> id]]
     /\ kids' = [kids EXCEPT ![current] = IF isLeft THEN [@ EXCEPT !.left = u]
                                                    ELSE [@ EXCEPT !.right = u]]
     /\ data' = [data EXCEPT ![u] = 0]
     /\ line' = [line EXCEPT ![u] = IF me.level + 1 < MAX_LEVEL THEN "create_left"
                                                                ELSE "return"]
     /\ UNCHANGED got

JoinKid ==
  /\ \/ Statement("join_left", "check_left") /\ ThreadJoin(kids[current].left)
     \/ Statement("join_right", "check_right") /\ ThreadJoin(kids[current].right)
  /\ UNCHANGED threadsTest

(* thread_join takes the result before it frees the thread.                *)
TakeResult ==
  /\ JoinDone
  /\ got' = [got EXCEPT ![current] = data[target[current]]]
  /\ UNCHANGED <<line, node, kids, data>>

CheckKid ==
  LET id == node[current].id
      isLeft == line[current] = "check_left"
  IN /\ Statement("check_left", "join_right") \/ Statement("check_right", "return")
     /\ halted' = (got[current] # IF isLeft THEN id * 2 ELSE id * 2 + 1)
     /\ UNCHANGED <<current, alive, sleep, dead, sync, prog, ticks, threadsTest>>

NodeReturn ==
  /\ current # Idle
  /\ Statement("return", "none")
  /\ ThreadReturn
  /\ UNCHANGED threadsTest

(* thread_run keeps what the function has returned.                        *)
KeepResult ==
  /\ ThreadExit
  /\ data' = [data EXCEPT ![current] = node[current].id]
  /\ UNCHANGED <<line, node, kids, got>>

NodeStep == Create \/ NodePublished \/ JoinKid \/ CheckKid \/ NodeReturn
=============================================================================
