--------------------------- MODULE PageAllocator ---------------------------
(***************************************************************************)
(* What buddy_alloc and buddy_free promise: blocks of 2^k pages, aligned   *)
(* to their size, that do not overlap; NULL only when no such block is     *)
(* free.  Buddy implements this specification.                             *)
(***************************************************************************)
EXTENDS Integers

CONSTANTS
  Page,  \* the pages that were handed over to the allocator
  Level  \* the block sizes a caller may ask for

VARIABLES
  owned,   \* the blocks <<first page, level>> that callers have
  request, \* the level of the buddy_alloc that has been called, or None
  result   \* what the last buddy_alloc returned (0: NULL)

vars == <<owned, request, result>>

None == -1

PagesOf(n, k) == n .. n + 2^k - 1
OwnedPages == UNION {PagesOf(b[1], b[2]) : b \in owned}

(* The blocks of level k that can be given away.                           *)
Available(k) ==
  {n \in Page : n % 2^k = 0 /\ PagesOf(n, k) \subseteq Page \ OwnedPages}

(* At boot the kernel owns every page and frees them one by one.           *)
Init ==
  /\ owned = {<<p, 0>> : p \in Page}
  /\ request = None
  /\ result = 0

Alloc(k) ==
  /\ request = None
  /\ request' = k
  /\ UNCHANGED <<owned, result>>

AllocReturn ==
  /\ request # None
  /\ IF Available(request) = {}
     THEN result' = 0 /\ UNCHANGED owned
     ELSE /\ result' \in Available(request)
          /\ owned' = owned \cup {<<result', request>>}
  /\ request' = None

Free(b) ==
  /\ request = None
  /\ b \in owned
  /\ owned' = owned \ {b}
  /\ UNCHANGED <<request, result>>

Next ==
  \/ \E k \in Level : Alloc(k)
  \/ AllocReturn
  \/ \E b \in owned : Free(b)

Spec == Init /\ [][Next]_vars
=============================================================================
