---------------------------- MODULE RegularFile ----------------------------
(***************************************************************************)
(* What open, read and write of fs.h promise of a regular file: a sequence *)
(* of bytes and descriptors with positions.  FileData implements this      *)
(* specification.  A file has holes where a write has left its old end     *)
(* behind: there a read may return anything, until a write to the file     *)
(* gives such a byte a value.                                              *)
(***************************************************************************)
EXTENDS Integers, Sequences

CONSTANTS
  Byte,   \* the values of a byte
  Hole,   \* in the place of a byte that has none
  Desc,   \* file descriptors
  Buffer  \* the buffers callers write

VARIABLES
  content, \* the bytes of the file, and its holes
  pos,     \* pos[d]: where descriptor d is, or Closed
  got      \* what the last read was asked for, and has returned

vars == <<content, pos, got>>

Closed == -1  \* the position of a descriptor that is not open

Init ==
  /\ content = <<>>
  /\ pos = [d \in Desc |-> Closed]
  /\ got = [asked |-> 0, bytes |-> <<>>]

Open(d, append, truncate) ==
  /\ pos[d] = Closed
  /\ content' = IF truncate THEN <<>> ELSE content
  /\ pos' = [pos EXCEPT ![d] = IF append THEN Len(content') ELSE 0]
  /\ UNCHANGED got

(* A read returns what is in the file between the descriptor's position and*)
(* the end, up to the size asked for.                                      *)
Read(d, size) ==
  LET p == pos[d]
      n == IF p + size < Len(content) THEN size
           ELSE IF p < Len(content) THEN Len(content) - p ELSE 0
  IN /\ pos[d] # Closed
     /\ \E bytes \in [1 .. n -> Byte] :
          /\ \A k \in 1 .. n : content[p + k] \in {bytes[k], Hole}
          /\ got' = [asked |-> size, bytes |-> bytes]
     /\ pos' = [pos EXCEPT ![d] = p + n]
     /\ UNCHANGED content

(* A write puts the first `amount` bytes of the buffer at the position.  If*)
(* the file has to grow, all bytes it had are still there; between its old *)
(* end and the position there are bytes of any value or holes, also when   *)
(* nothing is written.                                                     *)
Write(d, buffer, amount) ==
  LET p == pos[d]
      end == p + amount
      old == Len(content)
  IN /\ pos[d] # Closed
     /\ amount <= Len(buffer)
     /\ Len(content') = IF end > old THEN end ELSE old
     /\ \A k \in DOMAIN content' :
          content'[k] \in IF p < k /\ k <= end THEN {buffer[k - p]}
                          ELSE IF k <= old /\ content[k] # Hole THEN {content[k]}
                          ELSE Byte \cup {Hole}
     /\ pos' = [pos EXCEPT ![d] = end]
     /\ UNCHANGED got

Close(d) ==
  /\ pos[d] # Closed
  /\ pos' = [pos EXCEPT ![d] = Closed]
  /\ UNCHANGED <<content, got>>

Next ==
  \E d \in Desc :
    \/ \E append, truncate \in BOOLEAN : Open(d, append, truncate)
    \/ \E size \in {Len(b) : b \in Buffer} : Read(d, size)
    \/ \E b \in Buffer : \E amount \in 0 .. Len(b) : Write(d, b, amount)
    \/ Close(d)

Spec == Init /\ [][Next]_vars
=============================================================================
