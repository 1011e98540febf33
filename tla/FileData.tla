------------------------------ MODULE FileData ------------------------------
(***************************************************************************)
(* fs.c: the data of a regular file, a block of the page allocator that is *)
(* exchanged for a larger or smaller one as the file grows or is truncated.*)
(* open (from its mutex_lock on), read and write work on the file inside   *)
(* its lock: each is one step.  Any allocation may fail.                   *)
(***************************************************************************)
EXTENDS Integers, Sequences, FiniteSetsExt

CONSTANTS
  MAX_LEVEL, \* BUDDY_LEVELS - 1
  PAGE_SIZE, \* bytes in a block of level 0
  Desc,      \* struct file_desc
  Byte,      \* the values of a byte
  Buffer,    \* what clients write
  Foreign    \* stands for a byte that is not in the file's block

ASSUME DataAssumption ==
  /\ MAX_LEVEL \in Nat
  /\ PAGE_SIZE \in Nat \ {0}
  /\ Buffer \subseteq Seq(Byte)
  /\ Foreign \notin Byte

VARIABLES
  size_level, \* file->size_level
  size,       \* file->size
  data,       \* file->data: the bytes of the block, from 0
  pos,        \* pos[d]: d->pos, or Closed
  got,        \* what the last read was asked for, and has put in its buffer
  stranded    \* write has moved the end past the block (history)

vars == <<size_level, size, data, pos, got, stranded>>

(* Operators named Fault... are not part of the specification: each is the *)
(* definition after it with a plausible bug, for the properties to see.    *)

Closed == -1  \* the position of a descriptor that is not open
buddy_size(level) == PAGE_SIZE * 2^level
Smaller(a, b) == IF a < b THEN a ELSE b
Larger(a, b)  == IF a > b THEN a ELSE b

(* The byte k of the file.  Past the block memory belongs to others, who   *)
(* may write to it at any time: no value of it lasts until the next step.  *)
ByteAt(k) == IF k < buddy_size(size_level) THEN data[k] ELSE Foreign

(* What n bytes from p on may read as now.                                 *)
Readable(p, n) ==
  {bytes \in [1 .. n -> Byte] :
     \A k \in 1 .. n : ByteAt(p + k - 1) \in {bytes[k], Foreign}}

----------------------------------------------------------------------------
(* file_resize copies what fits in the smaller of the two blocks; the rest *)
(* of the new one is what its last owner has left in it.                   *)

Contents(level) == [0 .. buddy_size(level) - 1 -> Byte]

FaultResized(bytes, old, new) ==  \* nothing is copied
  Contents(new)

Resized(bytes, old, new) ==
  {block \in Contents(new) :
     \A k \in 0 .. buddy_size(Smaller(old, new)) - 1 : block[k] = bytes[k]}

----------------------------------------------------------------------------
(* file_init.                                                              *)
Init ==
  /\ size_level = 0
  /\ size = 0
  /\ data \in Contents(0)
  /\ pos = [d \in Desc |-> Closed]
  /\ got = [asked |-> 0, bytes |-> <<>>]
  /\ stranded = FALSE

(* open forgets to set the size of a truncated file to 0.                  *)
FaultOpen(d, append, truncate) ==
  /\ pos[d] = Closed
  /\ \/ /\ truncate
        /\ size_level' = 0
        /\ data' \in Resized(data, size_level, 0)
     \/ UNCHANGED <<size_level, data>>
  /\ pos' = [pos EXCEPT ![d] = IF append THEN size ELSE 0]
  /\ UNCHANGED <<size, got, stranded>>

(* open; a truncation that finds no memory keeps the old block.            *)
Open(d, append, truncate) ==
  /\ pos[d] = Closed
  /\ \/ /\ truncate
        /\ size_level' = 0
        /\ data' \in Resized(data, size_level, 0)
     \/ UNCHANGED <<size_level, data>>
  /\ size' = IF truncate THEN 0 ELSE size
  /\ stranded' = (stranded /\ ~truncate)
  /\ pos' = [pos EXCEPT ![d] = IF append THEN size' ELSE 0]
  /\ UNCHANGED got

Read(d, amount) ==
  LET n == IF pos[d] < size THEN Smaller(amount, size - pos[d]) ELSE 0
  IN /\ pos[d] # Closed
     /\ \E bytes \in Readable(pos[d], n) : got' = [asked |-> amount, bytes |-> bytes]
     /\ pos' = [pos EXCEPT ![d] = @ + n]
     /\ UNCHANGED <<size_level, size, data, stranded>>

(* The level at which write's loop stops when no allocation fails.         *)
Needed(end) ==
  Min({MAX_LEVEL} \cup {l \in size_level .. MAX_LEVEL : end <= buddy_size(l)})

(* write: the block grows to `level`, which is the one needed unless memory*)
(* has run out, and takes as much of the buffer as fits.                   *)
Write(d, buffer) ==
  LET p == pos[d] IN
  /\ p # Closed
  /\ \E level \in size_level .. Needed(p + Len(buffer)) :
       LET room == buddy_size(level)
           n == IF p < room THEN Smaller(Len(buffer), room - p) ELSE 0
       IN /\ size_level' = level
          /\ \E block \in Resized(data, size_level, level) :
               data' = [k \in 0 .. room - 1 |->
                          IF p <= k /\ k < p + n THEN buffer[k - p + 1] ELSE block[k]]
          /\ pos' = [pos EXCEPT ![d] = p + n]
          /\ size' = Larger(size, p + n)
          /\ stranded' = (p > room \/ (stranded /\ size > room))
  /\ UNCHANGED got

Close(d) ==
  /\ pos[d] # Closed
  /\ pos' = [pos EXCEPT ![d] = Closed]
  /\ UNCHANGED <<size_level, size, data, got, stranded>>

Next ==
  \E d \in Desc :
    \/ \E append, truncate \in BOOLEAN : Open(d, append, truncate)
    \/ \E b \in Buffer : Read(d, Len(b)) \/ Write(d, b)
    \/ Close(d)

Spec == Init /\ [][Next]_vars

----------------------------------------------------------------------------
(* Properties.                                                             *)

(* The end of the file is inside its block, so that read copies nothing    *)
(* else, whatever was truncated, grown, or could not grow; except after a  *)
(* write without memory through a descriptor that another thread's         *)
(* truncation has left past the end of the block: fs.c:189 sets the size to*)
(* that position though nothing was written there.                         *)
SizeFits ==
  /\ DOMAIN data = 0 .. buddy_size(size_level) - 1
  /\ size > buddy_size(size_level) => stranded

F == INSTANCE RegularFile WITH
       Hole    <- Foreign,
       content <- [k \in 1 .. size |-> ByteAt(k - 1)]

(* The data of a file implements RegularFile: no byte that was written is  *)
(* lost, moved or mixed with another when the block is exchanged or a write*)
(* is cut short.  Where nobody has written, a read returns what memory     *)
(* holds: the same bytes each time inside the block, and anything behind it*)
(* in the case that SizeFits excepts.                                      *)
RegularFileSpec == F!Spec
=============================================================================
