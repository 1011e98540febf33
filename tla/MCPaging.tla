------------------------------ MODULE MCPaging ------------------------------
(***************************************************************************)
(* Paging, and with it Bootstrap, on ten pages of eight bytes: maps of one  *)
(* or two entries that begin and end at, before and after the borders of   *)
(* pages and regions; modules that overlap them in every way.              *)
(***************************************************************************)
EXTENDS Paging

CONSTANT Border  \* where entries may begin and end

MCMemory == 0 .. Max(Border)

Entries == {[base |-> b, length |-> e - b, type |-> t] :
              b \in Border, e \in Border, t \in {0, Available}}
Nonempty == {e \in Entries : e.length > 0}
MCFirmwareMaps ==
  {<<e>> : e \in Nonempty} \cup
  {m \in Nonempty \X Nonempty :
     LET end == m[1].base + m[1].length
     IN end < m[2].base \/ (end = m[2].base /\ m[1].type # m[2].type)}

MCKernel    == [start |-> 8, end |-> 9]
MCModsArray == [start |-> 9, end |-> 10]
MCModules   == {<<[start |-> 10, end |-> 11], [start |-> 70, end |-> 71]>>,
                <<[start |-> 13, end |-> 14], [start |-> 36, end |-> 65]>>,
                <<[start |-> 64, end |-> 80]>>,  \* may be all of the last big page
                <<[start |-> 66, end |-> 80]>>}
=============================================================================
