------------------------------- MODULE MCSlab -------------------------------
(***************************************************************************)
(* Slab on a few small pages, with two objects in each; the alignment makes*)
(* one allocator leave a gap between them.  The lists of objects and of    *)
(* slabs are sequences in Slab: ListsAreSequences looks at all contents of *)
(* three nodes to see that list.c makes them behave as such.               *)
(***************************************************************************)
EXTENDS Slab, TLC

CONSTANTS big, small

MCsize  == small :> 19 @@ big :> 20
MCalign == small :> 4 @@ big :> 8
Interchangeable == Permutations(Thread)

L == INSTANCE Lists WITH Node <- 1 .. 3

(* For every ring of at most three nodes, the functions of list.c find and *)
(* change the sequence that the ring stands for (list.c).                  *)
ASSUME ListsAreSequences ==
  \A l \in L!Links, h \in 1 .. 3, s \in SeqOf(1 .. 3, 2) : L!IsList(l, h, s) =>
    /\ L!list_empty(l, h) <=> s = <<>>
    /\ s # <<>> => L!list_first(l, h) = s[1]
    /\ \A n \in 1 .. 3 : ~L!OnRing(n, h, s) =>
         /\ L!IsList(L!list_add(l, n, h), h, <<n>> \o s)
         /\ L!IsList(L!list_add_tail(l, n, h), h, Append(s, n))
    /\ \A k \in DOMAIN s :
         /\ L!IsList(L!list_delete(l, s[k]), h, L!Without(s, k))
         /\ L!Without(s, k) = RemoveAt(s, k)
=============================================================================
