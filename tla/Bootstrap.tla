----------------------------- MODULE Bootstrap -----------------------------
(***************************************************************************)
(* bootstrap-alloc.c and buddy_init: from the firmware's memory map the    *)
(* BIOS area, the kernel and the boot modules are cut out, the array of    *)
(* buddy nodes is allocated from what is left, and the whole pages of the  *)
(* rest are freed into the buddy allocator, those below BOOTMEM_SIZE first *)
(* and the others when paging is built.  One step per pass over the map.   *)
(***************************************************************************)
EXTENDS Naturals, Sequences, FiniteSets, SequencesExt, FiniteSetsExt

CONSTANTS
  Memory,       \* the addresses of the machine: 0 .. n
  PAGE_SIZE,
  BIOS_SIZE,    \* end of the BIOS area, which begins at 0
  BOOTMEM_SIZE, \* end of the memory that is mapped before paging_build
  NODE_SIZE,    \* sizeof(struct buddy_node)
  Kernel,       \* text_phys_begin and bss_phys_end, a record [start, end]
  ModsArray,    \* where info->mods_addr points to
  Modules,      \* the possible lists of modules, sequences of [start, end]
  FirmwareMaps  \* the possible maps, sequences of [base, length, type]

(* Operators named Fault... are not part of the specification: each is the *)
(* definition after it with a plausible bug, for the properties to see.    *)

Available == 1  \* MMAP_ENTRY_TYPE_AVAILABLE

Bytes(e) == e.base .. e.base + e.length - 1
Inside(region) == region.start .. region.end - 1

Entry  == [base : Nat, length : Nat, type : Nat]
Region == [start : Nat, end : Nat]

(* The firmware's entries lie in memory, are disjoint, and those that touch*)
(* are one.  The boot loader gives at least one module (initramfs_load     *)
(* halts without).                                                         *)
ASSUME BootAssumption ==
  /\ \E n \in Memory : n \in Nat /\ Memory = 0 .. n
  /\ PAGE_SIZE \in Nat \ {0} /\ BOOTMEM_SIZE \in Nat /\ BOOTMEM_SIZE % PAGE_SIZE = 0
  /\ BIOS_SIZE \in Nat /\ BIOS_SIZE >= PAGE_SIZE /\ NODE_SIZE \in Nat
  /\ \A map \in FirmwareMaps :
       /\ map \in Seq(Entry)
       /\ \A k \in DOMAIN map : map[k].base + map[k].length \in Memory
       /\ \A k, l \in DOMAIN map : k < l =>
            /\ Bytes(map[k]) \cap Bytes(map[l]) = {}
            /\ map[k].type = map[l].type => map[k].base + map[k].length < map[l].base
  /\ \A mods \in Modules : mods \in Seq(Region) /\ mods # <<>>
  /\ \A r \in {Kernel, ModsArray} \cup UNION {ToSet(mods) : mods \in Modules} :
       r \in Region /\ r.start < r.end

VARIABLES
  map,         \* bootstrap_mmap
  todo,        \* the regions that bootstrap_init_mmap has still to cut out
  pc,          \* "purge", "alloc", "low", "high" or "done"
  nodes_count, \* buddy_allocator.nodes_count
  nodes,       \* where buddy_allocator.nodes is, as [start, end]
  frees,       \* frees[p]: how often buddy_free was called with page p
  firmware,    \* the firmware's map        (history)
  purged       \* the addresses cut out     (history)

vars == <<map, todo, pc, nodes_count, nodes, frees, firmware, purged>>

Page == {p \in Memory : p * PAGE_SIZE \in Memory}

----------------------------------------------------------------------------
(* __bootstrap_copy: what is left of an entry.                             *)

(* Of an entry with a hole in it only the first piece is kept.             *)
FaultPieces(e, start, end) ==
  LET stop == e.base + e.length
      head == [e EXCEPT !.length = start - e.base]
      tail == [e EXCEPT !.base = end, !.length = stop - end]
  IN IF end <= e.base \/ stop <= start THEN <<e>>
     ELSE IF e.base < start THEN <<head>>
     ELSE IF end < stop THEN <<tail>> ELSE <<>>

Pieces(e, start, end) ==
  LET stop == e.base + e.length
      head == [e EXCEPT !.length = start - e.base]
      tail == [e EXCEPT !.base = end, !.length = stop - end]
  IN IF end <= e.base \/ stop <= start THEN <<e>>
     ELSE (IF e.base < start THEN <<head>> ELSE <<>>) \o
          (IF end < stop THEN <<tail>> ELSE <<>>)

(* bootstrap_init_mmap: bootstrap_del of one region after the other.       *)
Purge ==
  LET r == Head(todo)
  IN /\ pc = "purge"
     /\ todo # <<>>
     /\ map' = FlattenSeq([k \in DOMAIN map |-> Pieces(map[k], r.start, r.end)])
     /\ todo' = Tail(todo)
     /\ purged' = purged \cup Inside(r)
     /\ UNCHANGED <<pc, nodes_count, nodes, frees, firmware>>

(* __buddy_init_iterate in MODE_CALC.                                      *)
CountNodes ==
  LET ends == {map[k].base + map[k].length : k \in
                 {l \in DOMAIN map : map[l].type = Available /\ map[l].length # 0}}
  IN /\ pc = "purge"
     /\ todo = <<>>
     /\ nodes_count' = Max({0} \cup ends) \div PAGE_SIZE
     /\ pc' = "alloc"
     /\ UNCHANGED <<map, todo, nodes, frees, firmware, purged>>

Fits(size) ==
  {k \in DOMAIN map : map[k].type = Available /\ map[k].length >= size}

(* bootstrap_alloc takes the beginning of the first entry that is large    *)
(* enough.  Without one it returns 0, which buddy_init does not test.      *)
AllocNodes ==
  LET size == nodes_count * NODE_SIZE
      k == Min(Fits(size))
  IN /\ pc = "alloc"
     /\ IF Fits(size) = {}
        THEN /\ nodes' = [start |-> 0, end |-> size]
             /\ UNCHANGED map
        ELSE /\ nodes' = [start |-> map[k].base, end |-> map[k].base + size]
             /\ map' = [map EXCEPT ![k].base = @ + size, ![k].length = @ - size]
     /\ pc' = "low"
     /\ UNCHANGED <<todo, nodes_count, frees, firmware, purged>>

(* __buddy_init_iterate in MODE_INIT_LOW and MODE_INIT_HIGH: the pages that*)
(* lie inside entry e.                                                     *)

(* The pages that e touches.                                               *)
FaultPagesOf(e, low) ==
  {p \in Page :
     /\ e.type = Available /\ e.length # 0
     /\ e.base < (p + 1) * PAGE_SIZE
     /\ p * PAGE_SIZE < e.base + e.length
     /\ low <=> p * PAGE_SIZE < BOOTMEM_SIZE}

PagesOf(e, low) ==
  {p \in Page :
     /\ e.type = Available /\ e.length # 0
     /\ e.base <= p * PAGE_SIZE
     /\ (p + 1) * PAGE_SIZE <= e.base + e.length
     /\ low <=> p * PAGE_SIZE < BOOTMEM_SIZE}

FreePages(low) ==
  frees' = [p \in Page |->
              frees[p] + Cardinality({k \in DOMAIN map : p \in PagesOf(map[k], low)})]

(* The end of buddy_init, and buddy_init_high after paging_build.          *)
InitLow ==
  /\ pc = "low"
  /\ FreePages(TRUE)
  /\ pc' = "high"
  /\ UNCHANGED <<map, todo, nodes_count, nodes, firmware, purged>>

InitHigh ==
  /\ pc = "high"
  /\ FreePages(FALSE)
  /\ pc' = "done"
  /\ UNCHANGED <<map, todo, nodes_count, nodes, firmware, purged>>

----------------------------------------------------------------------------
Init ==
  /\ firmware \in FirmwareMaps
  /\ map = firmware
  /\ \E mods \in Modules :
       todo = <<[start |-> 0, end |-> BIOS_SIZE], Kernel, ModsArray>> \o mods
  /\ pc = "purge"
  /\ nodes_count = 0
  /\ nodes = [start |-> 0, end |-> 0]
  /\ frees = [p \in Page |-> 0]
  /\ purged = {}

Next == Purge \/ CountNodes \/ AllocNodes \/ InitLow \/ InitHigh

Spec == Init /\ [][Next]_vars

----------------------------------------------------------------------------
(* Properties.                                                             *)

OfType(m, available) ==
  UNION {Bytes(m[k]) : k \in {l \in DOMAIN m : (m[l].type = Available) = available}}

(* bootstrap_del, over any number of regions that overlap the entries and  *)
(* each other anyhow: the map is the firmware's without the regions cut    *)
(* out so far and the array of nodes, and its entries stay disjoint.       *)
MapIsWhatIsLeft ==
  LET out == purged \cup (IF nodes.start = 0 THEN {} ELSE Inside(nodes))
  IN /\ \A available \in BOOLEAN :
          OfType(map, available) = OfType(firmware, available) \ out
     /\ \A k, l \in DOMAIN map : k # l => Bytes(map[k]) \cap Bytes(map[l]) = {}

PageBytes(p) == p * PAGE_SIZE .. (p + 1) * PAGE_SIZE - 1

(* buddy_init and buddy_init_high free a page at most once, and only a page*)
(* of available memory that is neither BIOS, kernel, module nor nodes, that*)
(* has a node of its own, and that is mapped by then.                      *)
FreedPagesAreFree ==
  \A p \in Page : frees[p] > 0 =>
    /\ frees[p] = 1
    /\ PageBytes(p) \subseteq OfType(firmware, TRUE) \ purged
    /\ nodes.start # 0 => PageBytes(p) \cap Inside(nodes) = {}
    /\ p \in 1 .. nodes_count - 1
    /\ pc = "high" => p * PAGE_SIZE < BOOTMEM_SIZE

(* When both have run no page is forgotten: all that are available, were   *)
(* not cut out and do not hold nodes were freed.                           *)
NoPageForgotten ==
  pc = "done" =>
    \A p \in Page :
      PageBytes(p) \subseteq
        (OfType(firmware, TRUE) \ purged) \ (IF nodes.start = 0 THEN {} ELSE Inside(nodes))
      => frees[p] = 1

(* What the boot code gives to the page allocator is the free memory: all  *)
(* of it, once, and nothing else (buddy_init, buddy_init_high).            *)
FreeMemoryFreed == FreedPagesAreFree /\ NoPageForgotten
=============================================================================
