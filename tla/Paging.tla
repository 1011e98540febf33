------------------------------- MODULE Paging -------------------------------
(***************************************************************************)
(* paging.c, between the two halves of the boot of Bootstrap: with pages   *)
(* from the low memory that buddy_init has freed, page tables are built    *)
(* that map all of physical memory from HIGH_BASE on and its beginning from*)
(* KERNEL_BASE on, in big pages; only then high memory is freed.  Virtual  *)
(* addresses are linear: without the bits the tables do not look at.       *)
(***************************************************************************)
EXTENDS Bootstrap, Integers

CONSTANTS
  PTE_COUNT,
  BIG_PAGE_SIZE,
  KERNEL_SIZE

HIGH_BASE   == (BIG_PAGE_SIZE * PTE_COUNT * PTE_COUNT * PTE_COUNT) \div 2
KERNEL_BASE == BIG_PAGE_SIZE * PTE_COUNT * PTE_COUNT * PTE_COUNT - KERNEL_SIZE

(* Physical memory fits between HIGH_BASE and KERNEL_BASE, the kernel into *)
(* what is mapped for it.                                                  *)
ASSUME PagingAssumption ==
  /\ BIG_PAGE_SIZE \in Nat \ {0} /\ BIG_PAGE_SIZE % PAGE_SIZE = 0
  /\ PTE_COUNT \in Nat \ {0} /\ PTE_COUNT % 2 = 0
  /\ KERNEL_SIZE \in Nat \ {0} /\ KERNEL_SIZE % BIG_PAGE_SIZE = 0
  /\ \A x \in Memory : x + HIGH_BASE <= KERNEL_BASE
  /\ Kernel.end <= KERNEL_SIZE

VARIABLES
  stage,   \* "boot": bootstrap.S's tables are in use; "build"; "on"; "broken"
  pml4,    \* the page of the top table
  tables,  \* tables[p]: the entries of the table on page p
  regions, \* the calls of paging_build_region left, the first one in progress
  mapped   \* the max_memory of paging_build      (history)

paging == <<stage, pml4, tables, regions, mapped>>

Absent == -1  \* an entry without PTE_PRESENT
Empty  == [i \in 0 .. PTE_COUNT - 1 |-> Absent]

pml4_i(v) == (v \div (BIG_PAGE_SIZE * PTE_COUNT * PTE_COUNT)) % PTE_COUNT
pml3_i(v) == (v \div (BIG_PAGE_SIZE * PTE_COUNT)) % PTE_COUNT
pml2_i(v) == (v \div BIG_PAGE_SIZE) % PTE_COUNT

----------------------------------------------------------------------------
(* paging_new_page: the pages the buddy allocator may give it.             *)

FaultNewPages(tbl) ==  \* a page may be given again
  {p \in Page : frees[p] > 0}

NewPages(tbl) ==
  {p \in Page : frees[p] > 0} \ DOMAIN tbl

WithTable(tbl, p) ==
  [q \in DOMAIN tbl \cup {p} |-> IF q = p THEN Empty ELSE tbl[q]]

(* Entry i of table t: the table it points to, which is made if there is   *)
(* none.  The results are pairs <<tables, the table>>, one for each page.  *)

NextTable(tbl, t, i) ==
  IF tbl[t][i] # Absent THEN {<<tbl, tbl[t][i]>>}
  ELSE {<<[WithTable(tbl, p) EXCEPT ![t][i] = p], p>> : p \in NewPages(tbl)}

----------------------------------------------------------------------------
(* paging_build, up to its first call of paging_build_region: the end of   *)
(* what the map lists, of any type.                                        *)

PagingStart ==
  LET max_memory == Max({0} \cup {map[k].base + map[k].length : k \in DOMAIN map})
  IN /\ pc = "high" /\ stage = "boot"
     /\ stage' = "build"
     /\ \E p \in NewPages(tables) : pml4' = p /\ tables' = WithTable(tables, p)
     /\ regions' = <<[virt |-> HIGH_BASE, length |-> max_memory, phys |-> 0],
                     [virt |-> KERNEL_BASE, length |-> KERNEL_SIZE, phys |-> 0]>>
     /\ mapped' = max_memory
     /\ UNCHANGED vars

(* The way down to the last table for the virtual address v.               *)

FaultLastTable(v) ==  \* the wrong index
  UNION {NextTable(up[1], up[2], pml4_i(v)) : up \in NextTable(tables, pml4, pml4_i(v))}

LastTable(v) ==
  UNION {NextTable(up[1], up[2], pml3_i(v)) : up \in NextTable(tables, pml4, pml4_i(v))}

(* An iteration of paging_build_region: one big page.                      *)
MapBigPage ==
  LET r == Head(regions)
      rest == [virt   |-> r.virt + BIG_PAGE_SIZE,
               length |-> r.length - BIG_PAGE_SIZE,
               phys   |-> r.phys + BIG_PAGE_SIZE]
  IN /\ stage = "build" /\ regions # <<>>
     /\ \E last \in LastTable(r.virt) :
          tables' = [last[1] EXCEPT ![last[2]][pml2_i(r.virt)] = r.phys]
     /\ regions' = IF r.length <= BIG_PAGE_SIZE THEN Tail(regions)
                   ELSE <<rest>> \o Tail(regions)
     /\ UNCHANGED <<vars, stage, pml4, mapped>>

(* paging_new_page does not test whether it got a page: without one the    *)
(* boot goes on with a table at address 0, which the model does not follow.*)
NoNewPage ==
  /\ \/ stage = "boot" /\ pc = "high" /\ NewPages(tables) = {}
     \/ stage = "build" /\ regions # <<>> /\ LastTable(Head(regions).virt) = {}
  /\ stage' = "broken"
  /\ UNCHANGED <<vars, pml4, tables, regions, mapped>>

(* store_pml4.                                                             *)
PagingOn ==
  /\ stage = "build" /\ regions = <<>>
  /\ stage' = "on"
  /\ UNCHANGED <<vars, pml4, tables, regions, mapped>>

----------------------------------------------------------------------------
(* init_memory: buddy_init, paging_build, buddy_init_high.                 *)

InitMemory ==
  /\ Init
  /\ stage = "boot" /\ pml4 = 0 /\ tables = <<>> /\ regions = <<>> /\ mapped = 0

BuddyInit     == (Purge \/ CountNodes \/ AllocNodes \/ InitLow) /\ UNCHANGED paging
BuddyInitHigh == stage = "on" /\ InitHigh /\ UNCHANGED paging

PagingNext == BuddyInit \/ PagingStart \/ MapBigPage \/ NoNewPage \/ PagingOn \/ BuddyInitHigh

PagingSpec == InitMemory /\ [][PagingNext]_<<vars, paging>>

----------------------------------------------------------------------------
(* Properties.                                                             *)

(* How the processor translates a virtual address.                         *)
Translate(v) ==
  LET up == tables[pml4][pml4_i(v)]
      down == IF up = Absent THEN Absent ELSE tables[up][pml3_i(v)]
      big == IF down = Absent THEN Absent ELSE tables[down][pml2_i(v)]
  IN IF big = Absent THEN Absent ELSE big + (v % BIG_PAGE_SIZE)

(* The map still lists something above the beginning of x's big page.      *)
Below(x) ==
  \E k \in DOMAIN map :
    (x \div BIG_PAGE_SIZE) * BIG_PAGE_SIZE < map[k].base + map[k].length

(* va(x) of memory.h reaches the byte x of every page that was or will be  *)
(* freed and of the nodes, and kernel_virt(x) every byte x of the kernel:  *)
(* buddy.c and paging.c find the end of memory in the same map, but look at*)
(* different entries of it, and a region ends with a whole big page.  What *)
(* bootstrap_init_mmap cut out is read later too: the modules and their    *)
(* array by initramfs_load (initramfs.c:69, 74, 79).  va(x) reaches it too,*)
(* with one exception: paging_build takes the end of what the map STILL    *)
(* lists, so that a module or array above all of that is mapped only where *)
(* it shares the last big page, and initramfs_load would fault on the rest.*)
UsedIsMapped ==
  stage = "on" =>
    /\ \A k \in DOMAIN map : \A x \in Bytes(map[k]) : Translate(HIGH_BASE + x) = x
    /\ nodes.start # 0 => \A x \in Inside(nodes) : Translate(HIGH_BASE + x) = x
    /\ \A x \in purged : Below(x) => Translate(HIGH_BASE + x) = x
    /\ \A x \in Inside(Kernel) : Translate(KERNEL_BASE + x) = x

(* paging_build_region, whose two regions share tables: each address is    *)
(* mapped to one place, the two windows do not run into each other, and    *)
(* nothing else is mapped, NULL in particular.                             *)
OnlyWindowsMapped ==
  stage = "on" =>
    \A v \in {k * BIG_PAGE_SIZE : k \in 0 .. PTE_COUNT * PTE_COUNT * PTE_COUNT - 1} :
      Translate(v) =
        IF v >= KERNEL_BASE THEN v - KERNEL_BASE
        ELSE IF v >= HIGH_BASE /\ (v - HIGH_BASE < mapped \/ v = HIGH_BASE)
        THEN v - HIGH_BASE ELSE Absent

(* Free memory, the nodes, the kernel, and of the modules what is not above*)
(* all that the map still lists, can be reached at the two windows'        *)
(* addresses, and nothing outside the windows can (paging_build).          *)
WindowsMapped == UsedIsMapped /\ OnlyWindowsMapped

(* Every table is on a page of its own, one that buddy_init has freed and  *)
(* that the boot tables map, and is pointed to by one entry.               *)
TablesApart ==
  LET above == {t \in DOMAIN tables :
                  t = pml4 \/ \E i \in DOMAIN Empty : tables[pml4][i] = t}
      pointers(q) == {e \in above \X DOMAIN Empty : tables[e[1]][e[2]] = q}
  IN /\ \A q \in DOMAIN tables : frees[q] = 1 /\ q * PAGE_SIZE < BOOTMEM_SIZE
     /\ \A q \in DOMAIN tables \ {pml4} : Cardinality(pointers(q)) = 1
     /\ tables # <<>> => pointers(pml4) = {}
=============================================================================
