------------------------------- MODULE Buddy -------------------------------
(***************************************************************************)
(* buddy.c: the physical page allocator.  Nodes are numbers: the real node *)
(* of page p is p, the heads of the free lists are negative, NULL is       *)
(* -LEVELS.  Every operation holds buddy_allocator.lock, so that no other  *)
(* starts before it ends; the loops of __buddy_alloc and __buddy_free are  *)
(* one step per iteration, under pc.                                       *)
(***************************************************************************)
EXTENDS Integers, FiniteSets

CONSTANTS
  LEVELS,      \* BUDDY_LEVELS
  nodes_count, \* the number of pages, and of real nodes
  Free0,       \* the pages the memory map calls available: buddy_init frees them
  PastTheEnd   \* what is_free and level may read as in the memory after the last node

(* Operators named Fault... are not part of the specification: each is the *)
(* definition after it with a plausible bug, for the properties to see.    *)

NULL == -LEVELS
Real == 0 .. nodes_count - 1
Num  == NULL .. nodes_count - 1

(* Page 0 is in the BIOS area, which buddy_init leaves out.  The number of *)
(* pages is what the memory map says: when it is no multiple of the largest*)
(* block, __buddy_free looks for the buddy of the block that ends with the *)
(* last page, and reads the node numbered nodes_count.  What is there must *)
(* not look like a free node of that block's level.  The list of the last  *)
(* level has no head of its own, see Start: a block of that level would be *)
(* lost, and the first one is all free only when there are 2^LEVELS pages. *)
ASSUME BuddyAssumption ==
  /\ LEVELS \in Nat /\ LEVELS >= 2
  /\ nodes_count \in 1 .. 2^LEVELS - 1
  /\ Free0 \subseteq 1 .. nodes_count - 1
  /\ PastTheEnd # {}
  /\ \A p \in PastTheEnd :
       p.is_free => nodes_count % 2^p.level # 0 \/ nodes_count % 2^(p.level + 1) = 0

VARIABLES
  level,   \* level[n]: node n's level
  is_free, \* is_free[n]: node n's is_free
  link,    \* link.prev[n], link.next[n]: node n's links, NULL's included
  pc,      \* "idle", or the loop that runs: "split" or "merge"
  node,    \* the loop's node
  request, \* the level buddy_alloc was called with
  result,  \* what the last buddy_alloc returned
  owned    \* the blocks <<page, level>> that callers have

vars == <<level, is_free, link, pc, node, request, result, owned>>

(* The number of &node_list_starts[k].  It is 0 for the last list: the     *)
(* number of a real node.                                                  *)
Start(k) == k - LEVELS + 1

(* node_list_starts[k].next.  buddy_init does not reach the last head: it  *)
(* keeps the zero of .bss, and insertions go to real node 0 instead.       *)
FirstOf(k) == IF k = LEVELS - 1 THEN 0 ELSE link.next[Start(k)]

(* node ^ (1 << level)                                                     *)
BuddyOf(n, k) == IF (n \div 2^k) % 2 = 0 THEN n + 2^k ELSE n - 2^k

----------------------------------------------------------------------------
(* Doubly linked lists: l is a value of `link`.                            *)

Insert(l, n, before) ==
  LET after == l.next[before]
  IN [next |-> [l.next EXCEPT ![n] = after, ![before] = n],
      prev |-> IF after = NULL THEN [l.prev EXCEPT ![n] = before]
               ELSE [l.prev EXCEPT ![n] = before, ![after] = n]]

(* The successor of a deleted node keeps its link to it.                   *)
FaultDelete(l, n) ==
  LET p == l.prev[n]
      q == l.next[n]
  IN [next |-> IF p = 0 THEN [l.next EXCEPT ![n] = NULL]
                        ELSE [l.next EXCEPT ![p] = q, ![n] = NULL],
      prev |-> [l.prev EXCEPT ![n] = NULL]]

(* buddy_node_delete tests its neighbours against 0, not against NULL: for *)
(* the last node of a list it writes to the node numbered NULL.            *)
Delete(l, n) ==
  LET p == l.prev[n]
      q == l.next[n]
  IN [next |-> IF p = 0 THEN [l.next EXCEPT ![n] = NULL]
                        ELSE [l.next EXCEPT ![p] = q, ![n] = NULL],
      prev |-> IF q = 0 THEN [l.prev EXCEPT ![n] = NULL]
                        ELSE [l.prev EXCEPT ![q] = p, ![n] = NULL]]

----------------------------------------------------------------------------
(* buddy_init, after its cycle of buddy_node_init: every page is allocated *)
(* at level 0, and the boot code is about to free those of Free0.          *)
Init ==
  /\ level = [n \in Real |-> 0]
  /\ is_free = [n \in Real |-> FALSE]
  /\ link = [prev |-> [n \in Num |-> NULL], next |-> [n \in Num |-> NULL]]
  /\ pc = "idle"
  /\ node = 0
  /\ request = 0
  /\ result = 0
  /\ owned = {<<p, 0>> : p \in Free0}

----------------------------------------------------------------------------
(* The first list, from k on, that is not empty.                           *)
Source(k) ==
  CHOOSE j \in k .. LEVELS - 1 :
    /\ FirstOf(j) # NULL
    /\ \A i \in k .. j - 1 : FirstOf(i) = NULL

(* buddy_alloc(k): the first node of the first list that has one.          *)

(* The node taken keeps its mark.                                          *)
FaultAlloc(k) ==
  LET n == FirstOf(Source(k))
  IN /\ pc = "idle"
     /\ link' = Delete(link, n)
     /\ pc' = "split"
     /\ node' = n
     /\ request' = k
     /\ UNCHANGED <<level, is_free, result, owned>>

Alloc(k) ==
  LET n == FirstOf(Source(k))
  IN /\ pc = "idle"
     /\ is_free' = [is_free EXCEPT ![n] = FALSE]
     /\ link' = Delete(link, n)
     /\ pc' = "split"
     /\ node' = n
     /\ request' = k
     /\ UNCHANGED <<level, result, owned>>

(* The upper half goes to its list as it is: level and is_free are those   *)
(* it has had since the halves were merged.                                *)
Split ==
  LET k == level[node] - 1
  IN /\ pc = "split"
     /\ level[node] > request
     /\ level' = [level EXCEPT ![node] = k]
     /\ link' = Insert(link, BuddyOf(node, k), Start(k))
     /\ UNCHANGED <<is_free, pc, node, request, result, owned>>

(* Page 0 is NULL for the caller.                                          *)
AllocReturn ==
  /\ pc = "split"
  /\ level[node] <= request
  /\ pc' = "idle"
  /\ result' = node
  /\ owned' = IF node = 0 THEN owned ELSE owned \cup {<<node, request>>}
  /\ node' = 0
  /\ request' = 0
  /\ UNCHANGED <<level, is_free, link>>

----------------------------------------------------------------------------
(* buddy_free of a block the caller has.                                   *)

Free(b) ==
  LET n == b[1]
  IN /\ pc = "idle"
     /\ b \in owned
     /\ owned' = owned \ {b}
     /\ IF is_free[n]
        THEN UNCHANGED <<is_free, link, pc, node>>
        ELSE /\ is_free' = [is_free EXCEPT ![n] = TRUE]
             /\ link' = Insert(link, n, Start(level[n]))
             /\ pc' = "merge"
             /\ node' = n
     /\ UNCHANGED <<level, request, result>>

(* What __buddy_free may find at a node's buddy.                           *)
Found(buddy) ==
  IF buddy \in Real THEN {[is_free |-> is_free[buddy], level |-> level[buddy]]}
                    ELSE PastTheEnd

(* The last merge is left out.                                             *)
FaultCanMerge(n, found) == level[n] < LEVELS - 3 /\ found.is_free /\ found.level = level[n]

CanMerge(n, found) == level[n] # LEVELS - 1 /\ found.is_free /\ found.level = level[n]

(* The level of the freed half is raised, be it the lower or the upper one.*)
FaultMerge ==
  LET buddy == BuddyOf(node, level[node])
      lower == IF node < buddy THEN node ELSE buddy
  IN /\ pc = "merge"
     /\ \E found \in Found(buddy) : CanMerge(node, found)
     /\ link' = Insert(Delete(Delete(link, node), buddy), lower, Start(level[lower] + 1))
     /\ node' = lower
     /\ level' = [level EXCEPT ![node] = level[lower] + 1]
     /\ UNCHANGED <<is_free, pc, request, result, owned>>

Merge ==
  LET buddy == BuddyOf(node, level[node])
      lower == IF node < buddy THEN node ELSE buddy
  IN /\ pc = "merge"
     /\ \E found \in Found(buddy) : CanMerge(node, found)
     /\ level' = [level EXCEPT ![lower] = @ + 1]
     /\ link' = Insert(Delete(Delete(link, node), buddy), lower, Start(level[lower] + 1))
     /\ node' = lower
     /\ UNCHANGED <<is_free, pc, request, result, owned>>

FreeReturn ==
  /\ pc = "merge"
  /\ \E found \in Found(BuddyOf(node, level[node])) : ~CanMerge(node, found)
  /\ pc' = "idle"
  /\ node' = 0
  /\ UNCHANGED <<level, is_free, link, request, result, owned>>

----------------------------------------------------------------------------
Next ==
  \/ \E k \in 0 .. LEVELS - 1 : Alloc(k)
  \/ Split
  \/ AllocReturn
  \/ \E b \in owned : Free(b)
  \/ Merge
  \/ FreeReturn

Spec == Init /\ [][Next]_vars

----------------------------------------------------------------------------
(* Properties.                                                             *)

(* Types of the variables.                                                 *)
TypeOK ==
  /\ level \in [Real -> 0 .. LEVELS - 1]
  /\ is_free \in [Real -> BOOLEAN]
  /\ link \in [prev : [Num -> Num], next : [Num -> Num]]
  /\ pc \in {"idle", "split", "merge"}
  /\ node \in Real
  /\ request \in 0 .. LEVELS - 1
  /\ result \in Real
  /\ owned \subseteq Real \X (0 .. LEVELS - 1)

(* The nodes one meets on free list k, from its head.                      *)
OnList(k) ==
  LET walk[i \in 0 .. nodes_count] ==
        IF i = 0 THEN FirstOf(k)
        ELSE LET n == walk[i - 1] IN IF n = NULL THEN NULL ELSE link.next[n]
  IN {walk[i] : i \in 0 .. nodes_count} \ {NULL}

FreeBlocks == UNION {OnList(k) \X {k} : k \in 0 .. LEVELS - 2}
InHand == IF pc = "split" /\ node # 0 THEN {<<node, level[node]>>} ELSE {}
PagesOf(b) == b[1] .. b[1] + 2^b[2] - 1

(* buddy_alloc and buddy_free: the blocks on the free lists, those of the  *)
(* callers and the one being split are aligned, and each available page is *)
(* in exactly one of them: no page is given away twice, none is lost.      *)
BlocksPartitionMemory ==
  LET blocks == FreeBlocks \cup owned \cup InHand
  IN /\ \A b \in blocks : b[1] % 2^b[2] = 0
     /\ \A b, d \in blocks : b # d => PagesOf(b) \cap PagesOf(d) = {}
     /\ UNION {PagesOf(b) : b \in blocks} = Free0
     /\ FreeBlocks \cap (owned \cup InHand) = {}

(* __buddy_alloc splits a block without writing to its upper half: all the *)
(* nodes inside a free block still are what the merges have left, marked   *)
(* free with the level of the half that begins there.                      *)
HalvesReady ==
  \A b \in FreeBlocks \cup InHand :
    \A n \in PagesOf(b) \ {b[1]} :
      is_free[n] /\ n % 2^level[n] = 0 /\ n % 2^(level[n] + 1) # 0

(* A node on list k is marked free with level k, and its links agree with  *)
(* those of its neighbours, so that it can be deleted from the middle.     *)
ListsWellFormed ==
  /\ TypeOK
  /\ \A b \in FreeBlocks :
       LET n == b[1]
       IN /\ is_free[n] /\ level[n] = b[2]
          /\ link.next[link.prev[n]] = n
          /\ link.next[n] # NULL => link.prev[link.next[n]] = n

P == INSTANCE PageAllocator WITH
       Page <- Free0, Level <- 0 .. LEVELS - 1,
       request <- IF pc = "split" THEN request ELSE -1

(* The buddy system implements PageAllocator: in particular buddy_alloc    *)
(* returns NULL only when no aligned block of the size asked for is free,  *)
(* which takes that all blocks were merged as far as they can be.          *)
PageAllocatorSpec == P!Spec

(* buddy.h:12, "-BUDDY_LEVELS -- NULL": no node has that number, and the   *)
(* memory where it would be, which belongs to the lock, is not written to. *)
NullNodeUntouched ==
  link.prev[NULL] = NULL /\ link.next[NULL] = NULL
=============================================================================
