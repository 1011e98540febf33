------------------------------- MODULE Lists -------------------------------
(***************************************************************************)
(* list.c: doubly linked rings of struct list_node, each with a head among *)
(* its nodes.  The other modules have sequences in their place; IsList     *)
(* says which sequence a ring with a head stands for.                      *)
(* l is the contents of all nodes: l.next[n] and l.prev[n].                *)
(***************************************************************************)
EXTENDS Integers, Sequences

CONSTANT Node   \* all struct list_node, the heads included

Links == [next : [Node -> Node], prev : [Node -> Node]]

SetNext(l, n, m) == [l EXCEPT !.next[n] = m]
SetPrev(l, n, m) == [l EXCEPT !.prev[n] = m]

list_empty(l, head) == l.next[head] = head
list_first(l, head) == l.next[head]
list_init(l, node)  == SetPrev(SetNext(l, node, node), node, node)

(* The writes in their order: prev and next may be the same node.          *)
list_insert(l, node, prev, next) ==
  SetNext(SetPrev(SetPrev(SetNext(l, node, next), node, prev), next, node), prev, node)

list_add(l, node, head)      == list_insert(l, node, head, l.next[head])
list_add_tail(l, node, head) == list_insert(l, node, l.prev[head], head)

list_remove(l, node, prev, next) ==
  list_init(SetPrev(SetNext(l, prev, next), next, prev), node)

list_delete(l, node) == list_remove(l, node, l.prev[node], l.next[node])

----------------------------------------------------------------------------
(* The nodes of the list with that head, in the order of their links.      *)

Ring(head, s) == <<head>> \o s
OnRing(n, head, s) == \E i \in DOMAIN Ring(head, s) : Ring(head, s)[i] = n

IsList(l, head, s) ==
  LET ring == Ring(head, s)
      after(i) == IF i = Len(ring) THEN 1 ELSE i + 1
  IN /\ \A i, j \in DOMAIN ring : ring[i] = ring[j] => i = j
     /\ \A i \in DOMAIN ring : /\ l.next[ring[i]] = ring[after(i)]
                               /\ l.prev[ring[after(i)]] = ring[i]

(* s without its element k.                                                *)
Without(s, k) == [i \in 1 .. Len(s) - 1 |-> IF i < k THEN s[i] ELSE s[i + 1]]
=============================================================================
