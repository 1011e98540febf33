-------------------------------- MODULE Slab --------------------------------
(***************************************************************************)
(* slab-allocator.c: allocators of small objects (obj_size <= SLAB_SMALL,  *)
(* as all the kernel's are) on pages of the page allocator, used by several*)
(* threads.  A slab is named by its page and a pointer is an address.  A   *)
(* step is the code between two points where another thread may see it.    *)
(***************************************************************************)
EXTENDS Integers, Sequences, FiniteSets, SequencesExt, FiniteSetsExt

CONSTANTS
  Thread, Allocator, None,
  Page,          \* the pages of the page allocator
  PAGE_SIZE,
  NODE,          \* sizeof(struct slab_node)
  SLAB,          \* sizeof(struct slab)
  obj_size,      \* obj_size[a], obj_align[a]: what slab_init is called with
  obj_align

(* Operators named Fault... are not part of the specification: each is the *)
(* definition after it with a plausible bug, for the properties to see.    *)

(* A small object and its node fit into a page: SLAB_SMALL is PAGE_SIZE/8. *)
(* The node in front of an object keeps it aligned (_Alignof is at most 8).*)
ASSUME SlabAssumption ==
  /\ {PAGE_SIZE, NODE, SLAB} \subseteq Nat \ {0}
  /\ Page \subseteq Nat \ {0}
  /\ None \notin Thread \cup Allocator
  /\ \A a \in Allocator :
       /\ obj_size[a] \in 1 .. PAGE_SIZE \div 8
       /\ obj_align[a] \in Nat \ {0} /\ NODE % obj_align[a] = 0 /\ PAGE_SIZE % obj_align[a] = 0
       /\ SLAB + 2 * (NODE + obj_size[a] + obj_align[a]) <= PAGE_SIZE

VARIABLES
  memory,     \* the pages that the page allocator has
  elsewhere,  \* the pages that others than the slab allocators have
  slabs,      \* slabs[a]: the list slabs_head, as pages
  free,       \* free[p]: the list nodes_head of the slab on page p, as pointers
  page_descr, \* page_descr[p].slab_allocator
  lock,       \* lock[a]: the thread that has locked it
  pc,         \* where each thread is
  alloc,      \* the allocator its call is for
  ptr,        \* its `ptr` or `res`; NULL is 0
  page,       \* the page of the new slab, in slab_small_new
  objects     \* the pointers that callers have, with their allocators

vars == <<memory, elsewhere, slabs, free, page_descr, lock, pc, alloc, ptr, page, objects>>

Opened ==  \* between slab_init and slab_finit
  {a \in Allocator : slabs[a] # <<>> /\ \A t \in Thread : pc[t] = "finit" => alloc[t] # a}

----------------------------------------------------------------------------
(* slab_small_new: where the objects of allocator a are on page p.         *)

(* The objects are packed, without room for the nodes.                     *)
FaultObjects(a, p) ==
  LET shift == ((obj_size[a] + obj_align[a] - 1) \div obj_align[a]) * obj_align[a]
      last  == (PAGE_SIZE - SLAB) \div shift
  IN [k \in 1 .. last |-> p * PAGE_SIZE + (last - k) * shift + NODE]

(* Each goes to the head of the list: the last one is the first to be used.*)
Objects(a, p) ==
  LET shift == ((NODE + obj_size[a] + obj_align[a] - 1) \div obj_align[a]) * obj_align[a]
      last  == (PAGE_SIZE - SLAB) \div shift
  IN [k \in 1 .. last |-> p * PAGE_SIZE + (last - k) * shift + NODE]

PageOf(x) == x \div PAGE_SIZE

(* mutex_lock blocks, mutex_unlock does not.                               *)
Lock(t, a) == lock[a] = None /\ lock' = [lock EXCEPT ![a] = t]
Unlock(t) == lock' = [lock EXCEPT ![alloc[t]] = None]
GoTo(t, there) == pc' = [pc EXCEPT ![t] = there]

----------------------------------------------------------------------------
(* slab_alloc(a)                                                           *)

AllocLock(t, a) ==
  /\ pc[t] = "idle"
  /\ a \in Opened
  /\ Lock(t, a)
  /\ GoTo(t, "scan")
  /\ alloc' = [alloc EXCEPT ![t] = a]
  /\ UNCHANGED <<memory, elsewhere, slabs, free, page_descr, ptr, page, objects>>

(* The slabs with a free object.                                           *)
FaultUsable(a) ==  \* only the first slab is asked
  {k \in 1 .. 1 : free[slabs[a][k]] # <<>>}

Usable(a) ==
  {k \in DOMAIN slabs[a] : free[slabs[a][k]] # <<>>}

(* __slab_alloc's loop, and slab_small_alloc.                              *)
Scan(t) ==
  LET a == alloc[t]
      p == slabs[a][Min(Usable(a))]
  IN /\ pc[t] = "scan"
     /\ IF Usable(a) = {}
        THEN GoTo(t, "new") /\ UNCHANGED <<ptr, free>>
        ELSE /\ ptr' = [ptr EXCEPT ![t] = Head(free[p])]
             /\ free' = [free EXCEPT ![p] = Tail(@)]
             /\ GoTo(t, "unlock")
     /\ UNCHANGED <<memory, elsewhere, slabs, page_descr, lock, alloc, page, objects>>

(* slab_small_new: buddy_alloc(0), any page or none.                       *)
NewPage(t) ==
  /\ pc[t] = "new"
  /\ \E p \in memory :
       /\ memory' = memory \ {p}
       /\ page' = [page EXCEPT ![t] = p]
       /\ GoTo(t, "carve")
  /\ UNCHANGED <<elsewhere, slabs, free, page_descr, lock, alloc, ptr, objects>>

NoPage(t) ==
  /\ pc[t] = "new"
  /\ memory = {}
  /\ ptr' = [ptr EXCEPT ![t] = 0]
  /\ GoTo(t, "unlock")
  /\ UNCHANGED <<memory, elsewhere, slabs, free, page_descr, lock, alloc, page, objects>>

(* slab_small_new: the loop, and the page descriptor.                      *)

(* Only slab_init writes the descriptor, not the slabs added later.        *)
FaultCarve(t) ==
  LET p == page[t]
  IN /\ pc[t] = "carve"
     /\ free' = [free EXCEPT ![p] = Objects(alloc[t], p)]
     /\ GoTo(t, "add")
     /\ UNCHANGED <<memory, elsewhere, slabs, page_descr, lock, alloc, ptr, page, objects>>

Carve(t) ==
  LET p == page[t]
  IN /\ pc[t] = "carve"
     /\ free' = [free EXCEPT ![p] = Objects(alloc[t], p)]
     /\ page_descr' = [page_descr EXCEPT ![p] = alloc[t]]
     /\ GoTo(t, "add")
     /\ UNCHANGED <<memory, elsewhere, slabs, lock, alloc, ptr, page, objects>>

(* list_add and slab_small_alloc.                                          *)

(* The first object of a new slab stays on its list.                       *)
FaultAdd(t) ==
  LET p == page[t]
  IN /\ pc[t] = "add"
     /\ slabs' = [slabs EXCEPT ![alloc[t]] = <<p>> \o @]
     /\ ptr' = [ptr EXCEPT ![t] = Head(free[p])]
     /\ page' = [page EXCEPT ![t] = 0]
     /\ GoTo(t, "unlock")
     /\ UNCHANGED <<memory, elsewhere, free, page_descr, lock, alloc, objects>>

Add(t) ==
  LET p == page[t]
  IN /\ pc[t] = "add"
     /\ slabs' = [slabs EXCEPT ![alloc[t]] = <<p>> \o @]
     /\ ptr' = [ptr EXCEPT ![t] = Head(free[p])]
     /\ free' = [free EXCEPT ![p] = Tail(@)]
     /\ page' = [page EXCEPT ![t] = 0]
     /\ GoTo(t, "unlock")
     /\ UNCHANGED <<memory, elsewhere, page_descr, lock, alloc, objects>>

(* slab_alloc returns NULL or an object.                                   *)
AllocReturn(t) ==
  /\ pc[t] = "unlock"
  /\ Unlock(t)
  /\ objects' = IF ptr[t] = 0 THEN objects ELSE objects \cup {<<ptr[t], alloc[t]>>}
  /\ ptr' = [ptr EXCEPT ![t] = 0]
  /\ alloc' = [alloc EXCEPT ![t] = None]
  /\ GoTo(t, "idle")
  /\ UNCHANGED <<memory, elsewhere, slabs, free, page_descr, page>>

----------------------------------------------------------------------------
(* slab_free(x), of an object that some caller has: any thread may free it.*)

(* The page descriptor is read before the lock is taken.                   *)
FreeCall(t) ==
  /\ pc[t] = "idle"
  /\ \E o \in objects :
       /\ objects' = objects \ {o}
       /\ ptr' = [ptr EXCEPT ![t] = o[1]]
       /\ alloc' = [alloc EXCEPT ![t] = page_descr[PageOf(o[1])]]
  /\ GoTo(t, "free")
  /\ UNCHANGED <<memory, elsewhere, slabs, free, page_descr, lock, page>>

FreeLock(t) ==
  /\ pc[t] = "free"
  /\ Lock(t, alloc[t])
  /\ GoTo(t, "return")
  /\ UNCHANGED <<memory, elsewhere, slabs, free, page_descr, alloc, ptr, page, objects>>

(* Without a slab on the object's page nothing is done.                    *)
FreeReturn(t) ==
  LET p == PageOf(ptr[t])
  IN /\ pc[t] = "return"
     /\ IF p \in ToSet(slabs[alloc[t]])
        THEN free' = [free EXCEPT ![p] = <<ptr[t]>> \o @]
        ELSE UNCHANGED free
     /\ Unlock(t)
     /\ ptr' = [ptr EXCEPT ![t] = 0]
     /\ alloc' = [alloc EXCEPT ![t] = None]
     /\ GoTo(t, "idle")
     /\ UNCHANGED <<memory, elsewhere, slabs, page_descr, page, objects>>

----------------------------------------------------------------------------
(* slab_init(a) and slab_finit(a): calls of one thread, without the lock,  *)
(* while no other uses a.  slab_init is called when there is memory: it    *)
(* does not test the slab that slab_small_new returns.                     *)

Unused(a) ==
  /\ \A t \in Thread : alloc[t] # a
  /\ \A o \in objects : o[2] # a

SlabInit(t, a) ==
  /\ pc[t] = "idle"
  /\ slabs[a] = <<>>
  /\ Unused(a)
  /\ \E p \in memory :
       /\ memory' = memory \ {p}
       /\ free' = [free EXCEPT ![p] = Objects(a, p)]
       /\ page_descr' = [page_descr EXCEPT ![p] = a]
       /\ slabs' = [slabs EXCEPT ![a] = <<p>>]
  /\ UNCHANGED <<elsewhere, lock, pc, alloc, ptr, page, objects>>

SlabFinit(t, a) ==
  /\ pc[t] = "idle"
  /\ a \in Opened
  /\ Unused(a)
  /\ alloc' = [alloc EXCEPT ![t] = a]
  /\ GoTo(t, "finit")
  /\ UNCHANGED <<memory, elsewhere, slabs, free, page_descr, lock, ptr, page, objects>>

(* slab_small_delete of the next slab: the page is not the slab's any more *)
(* from here on, its lists are left behind on it.                          *)
Delete(t) ==
  LET a == alloc[t]
      p == Head(slabs[a])
  IN /\ pc[t] = "finit"
     /\ page_descr' = [page_descr EXCEPT ![p] = None]
     /\ memory' = memory \cup {p}
     /\ free' = [free EXCEPT ![p] = <<>>]
     /\ slabs' = [slabs EXCEPT ![a] = Tail(@)]
     /\ IF Len(slabs[a]) = 1
        THEN GoTo(t, "idle") /\ alloc' = [alloc EXCEPT ![t] = None]
        ELSE UNCHANGED <<pc, alloc>>
     /\ UNCHANGED <<elsewhere, lock, ptr, page, objects>>

----------------------------------------------------------------------------
(* The other users of the page allocator: stacks, page tables, file data.  *)

BuddyAlloc ==
  /\ \E p \in memory : memory' = memory \ {p} /\ elsewhere' = elsewhere \cup {p}
  /\ UNCHANGED <<slabs, free, page_descr, lock, pc, alloc, ptr, page, objects>>

BuddyFree ==
  /\ \E p \in elsewhere : memory' = memory \cup {p} /\ elsewhere' = elsewhere \ {p}
  /\ UNCHANGED <<slabs, free, page_descr, lock, pc, alloc, ptr, page, objects>>

----------------------------------------------------------------------------
Init ==
  /\ memory = Page
  /\ elsewhere = {}
  /\ slabs = [a \in Allocator |-> <<>>]
  /\ free = [p \in Page |-> <<>>]
  /\ page_descr = [p \in Page |-> None]
  /\ lock = [a \in Allocator |-> None]
  /\ pc = [t \in Thread |-> "idle"]
  /\ alloc = [t \in Thread |-> None]
  /\ ptr = [t \in Thread |-> 0]
  /\ page = [t \in Thread |-> 0]
  /\ objects = {}

Next ==
  \/ \E t \in Thread :
       \/ \E a \in Allocator : AllocLock(t, a) \/ SlabInit(t, a) \/ SlabFinit(t, a)
       \/ Scan(t) \/ NewPage(t) \/ NoPage(t) \/ Carve(t) \/ Add(t) \/ AllocReturn(t)
       \/ FreeCall(t) \/ FreeLock(t) \/ FreeReturn(t)
       \/ Delete(t)
  \/ BuddyAlloc
  \/ BuddyFree

Spec == Init /\ [][Next]_vars

----------------------------------------------------------------------------
(* Properties.                                                             *)

Pages(a) == ToSet(slabs[a])

(* The pages that hold a slab of a, those not on its list yet included.    *)
SlabPages(a) ==
  Pages(a) \cup {page[t] : t \in {u \in Thread : alloc[u] = a /\ pc[u] = "add"}}

(* The objects between a list and a caller, in either direction.           *)
Moving == {t \in Thread : ptr[t] # 0}

(* slab_alloc and slab_free, on the same allocator and on others at once:  *)
(* each object of a slab is once on the slab's free list or with one caller*)
(* or on its way, with the allocator it came from; none is lost, none given*)
(* out twice or returned to another allocator; no page has two owners.     *)
EachObjectOnce ==
  /\ \A a \in Allocator : \A p \in SlabPages(a) :
       LET out    == {o \in objects : PageOf(o[1]) = p}
           moving == {t \in Moving : PageOf(ptr[t]) = p}
       IN /\ IsInjective(free[p])
          /\ ToSet(free[p]) \cup {o[1] : o \in out} \cup {ptr[t] : t \in moving}
               = ToSet(Objects(a, p))
          /\ Len(free[p]) + Cardinality(out) + Cardinality(moving) = Len(Objects(a, p))
          /\ (\A o \in out : o[2] = a) /\ \A t \in moving : alloc[t] = a
  /\ \A a, b \in Allocator : a # b => SlabPages(a) \cap SlabPages(b) = {}
  /\ (memory \cup elsewhere) \cap UNION {SlabPages(a) : a \in Allocator} = {}

(* slab_free reads page_descr without a lock and finds the allocator of the*)
(* slab by it: it must name the owner of every page a pointer may be on,   *)
(* however often the page has changed hands, and stay so up to the lock.   *)
DescriptorNamesOwner ==
  /\ \A a \in Allocator : \A p \in Pages(a) : page_descr[p] = a
  /\ \A t \in Thread : pc[t] \in {"free", "return"} =>
       alloc[t] # None /\ PageOf(ptr[t]) \in Pages(alloc[t])

(* The bytes that slab_small_alloc and slab_small_free write for the object*)
(* at x: its node and the object.                                          *)
Bytes(a, x) == x - NODE .. x + obj_size[a] - 1

(* slab_small_new: the nodes and the objects of a slab, and the struct slab*)
(* at the end of the page, do not overlap, and each object is aligned.     *)
ObjectsDisjoint ==
  \A a \in Allocator : \A p \in SlabPages(a) :
    \A x \in ToSet(Objects(a, p)) :
      /\ x % obj_align[a] = 0
      /\ Bytes(a, x) \subseteq p * PAGE_SIZE .. (p + 1) * PAGE_SIZE - SLAB - 1
      /\ \A y \in ToSet(Objects(a, p)) \ {x} : Bytes(a, x) \cap Bytes(a, y) = {}

(* __slab_alloc: a page is taken from the page allocator, and NULL is      *)
(* returned, only while all the objects of the allocator are in use; those *)
(* that are being freed meanwhile wait for the lock.                       *)
GrowsOnlyWhenFull ==
  \A t \in Thread : pc[t] \in {"new", "carve", "add"} =>
    /\ lock[alloc[t]] = t
    /\ \A p \in Pages(alloc[t]) : free[p] = <<>>
=============================================================================
