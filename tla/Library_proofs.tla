---------------------------- MODULE Library_proofs ---------------------------
(***************************************************************************)
(* Proofs about the helpers that every part of the kernel uses: the        *)
(* functions of list.c do to a ring what the other modules do to the       *)
(* sequence in its place, for rings of every length, and leave the others  *)
(* alone; the buffer printer of print.c stores what fits, for every set of *)
(* characters, every size of a buffer and every number of characters; and  *)
(* ovprintf prints what the pieces of a format mean, for every set of good *)
(* pieces and formats of every length.                                     *)
(***************************************************************************)
EXTENDS Lists, Ovprintf, TLAPS, SequenceTheorems, WellFoundedInduction

----------------------------------------------------------------------------
(* What the writes of list.c leave in the links.                           *)

LEMMA Inserted ==
  ASSUME NEW l \in Links, NEW n \in Node, NEW p \in Node, NEW q \in Node,
         n # p, n # q
  PROVE  LET new == list_insert(l, n, p, q)
         IN /\ new \in Links
            /\ \A m \in Node :
                 /\ new.next[m] = IF m = p THEN n ELSE IF m = n THEN q ELSE l.next[m]
                 /\ new.prev[m] = IF m = q THEN n ELSE IF m = n THEN p ELSE l.prev[m]
  BY DEF list_insert, SetNext, SetPrev, Links

LEMMA Removed ==
  ASSUME NEW l \in Links, NEW n \in Node, NEW p \in Node, NEW q \in Node
  PROVE  LET new == list_remove(l, n, p, q)
         IN /\ new \in Links
            /\ \A m \in Node :
                 /\ new.next[m] = IF m = n THEN n ELSE IF m = p THEN q ELSE l.next[m]
                 /\ new.prev[m] = IF m = n THEN n ELSE IF m = q THEN p ELSE l.prev[m]
  BY DEF list_remove, list_init, SetNext, SetPrev, Links

(* The nodes of a ring.                                                    *)
LEMMA RingNodes ==
  ASSUME NEW h \in Node, NEW s \in Seq(Node)
  PROVE  /\ Ring(h, s) \in Seq(Node)
         /\ Len(Ring(h, s)) = Len(s) + 1
         /\ Ring(h, s)[1] = h
         /\ \A i \in 1 .. Len(s) : Ring(h, s)[i + 1] = s[i]
         /\ \A i \in 2 .. Len(s) + 1 : Ring(h, s)[i] = s[i - 1]
         /\ DOMAIN Ring(h, s) = 1 .. Len(s) + 1
         /\ Len(s) \in Nat
         /\ \A i \in 1 .. Len(s) + 1 : Ring(h, s)[i] \in Node
  <1>1. Ring(h, s) \in Seq(Node) /\ Len(Ring(h, s)) = Len(s) + 1 /\ Len(s) \in Nat
    BY DEF Ring
  <1>2. \A i \in 1 .. Len(s) + 1 : Ring(h, s)[i] \in Node
    BY <1>1, ElementOfSeq
  <1> QED
    BY <1>1, <1>2 DEF Ring

LEMMA ListLinks ==
  ASSUME NEW l \in Links, NEW h \in Node, NEW s \in Seq(Node), IsList(l, h, s)
  PROVE  LET ring == Ring(h, s)
             last == Len(s) + 1
         IN /\ \A i, j \in 1 .. last : ring[i] = ring[j] => i = j
            /\ \A i \in 1 .. last - 1 : l.next[ring[i]] = ring[i + 1]
            /\ \A i \in 2 .. last : l.prev[ring[i]] = ring[i - 1]
            /\ l.next[ring[last]] = h /\ l.prev[h] = ring[last]
  <1> DEFINE ring == Ring(h, s)
             last == Len(s) + 1
  <1>1. /\ Len(ring) = last /\ DOMAIN ring = 1 .. last /\ last \in Nat \ {0} /\ ring[1] = h
    BY RingNodes
  <1>2. \A i \in 1 .. last :
          /\ l.next[ring[i]] = ring[IF i = last THEN 1 ELSE i + 1]
          /\ l.prev[ring[IF i = last THEN 1 ELSE i + 1]] = ring[i]
    BY <1>1 DEF IsList
  <1>3. \A i, j \in 1 .. last : ring[i] = ring[j] => i = j
    BY <1>1 DEF IsList
  <1> HIDE DEF ring, last
  <1>4. \A i \in 1 .. last - 1 : l.next[ring[i]] = ring[i + 1]
    BY <1>1, <1>2
  <1>5. \A i \in 2 .. last : l.prev[ring[i]] = ring[i - 1]
    <2> TAKE i \in 2 .. last
    <2>1. i - 1 \in 1 .. last /\ i - 1 # last /\ (i - 1) + 1 = i
      BY <1>1
    <2> QED
      BY <2>1, <1>2
  <1>6. l.next[ring[last]] = h /\ l.prev[h] = ring[last]
    BY <1>1, <1>2
  <1> QED
    BY <1>3, <1>4, <1>5, <1>6 DEF ring, last

(* The converse: what makes a list.                                        *)
LEMMA MakesList ==
  ASSUME NEW l \in Links, NEW h \in Node, NEW s \in Seq(Node),
         LET ring == Ring(h, s)
             last == Len(s) + 1
         IN /\ \A i, j \in 1 .. last : ring[i] = ring[j] => i = j
            /\ \A i \in 1 .. last - 1 : l.next[ring[i]] = ring[i + 1] /\ l.prev[ring[i + 1]] = ring[i]
            /\ l.next[ring[last]] = h /\ l.prev[h] = ring[last]
  PROVE  IsList(l, h, s)
  <1> DEFINE ring == Ring(h, s)
             last == Len(s) + 1
  <1>1. /\ Len(ring) = last /\ DOMAIN ring = 1 .. last /\ last \in Nat \ {0} /\ ring[1] = h
    BY RingNodes
  <1>2. \A i \in 1 .. last :
          /\ l.next[ring[i]] = ring[IF i = last THEN 1 ELSE i + 1]
          /\ l.prev[ring[IF i = last THEN 1 ELSE i + 1]] = ring[i]
    BY <1>1
  <1> QED
    BY <1>1, <1>2 DEF IsList

----------------------------------------------------------------------------
(* list_empty and list_first see the sequence's beginning.                 *)
THEOREM FirstIsFirst ==
  ASSUME NEW l \in Links, NEW h \in Node, NEW s \in Seq(Node), IsList(l, h, s)
  PROVE  /\ list_empty(l, h) <=> s = <<>>
         /\ s # <<>> => list_first(l, h) = s[1]
  <1>1. CASE s = <<>>
    <2>1. Len(s) = 0
      BY <1>1
    <2>2. Ring(h, s)[1] = h
      BY RingNodes
    <2>3. l.next[Ring(h, s)[Len(s) + 1]] = h
      BY ListLinks
    <2> QED
      BY <1>1, <2>1, <2>2, <2>3 DEF list_empty
  <1>2. CASE s # <<>>
    <2>1. Len(s) \in Nat /\ Len(s) >= 1
      BY <1>2
    <2>2. l.next[Ring(h, s)[1]] = Ring(h, s)[1 + 1] /\ Ring(h, s)[1] # Ring(h, s)[1 + 1]
      BY <2>1, ListLinks
    <2>3. Ring(h, s)[1] = h /\ Ring(h, s)[1 + 1] = s[1]
      BY <2>1, RingNodes
    <2> QED
      BY <1>2, <2>2, <2>3 DEF list_empty, list_first
  <1> QED
    BY <1>1, <1>2

(* list_add puts a node that is on no list in front of all others.         *)
THEOREM AddIsFirst ==
  ASSUME NEW l \in Links, NEW h \in Node, NEW s \in Seq(Node), IsList(l, h, s),
         NEW n \in Node, ~OnRing(n, h, s)
  PROVE  /\ list_add(l, n, h) \in Links
         /\ IsList(list_add(l, n, h), h, <<n>> \o s)
  <1> DEFINE ring == Ring(h, s)
             last == Len(s) + 1
             t == <<n>> \o s
             more == Ring(h, t)
             q == l.next[h]
             new == list_add(l, n, h)
  <1>1. /\ last \in Nat \ {0} /\ ring[1] = h
        /\ \A i \in 1 .. last : ring[i] \in Node
    <2>1. Len(s) \in Nat
      BY RingNodes
    <2>2. Ring(h, s)[1] = h
      BY RingNodes
    <2>3. \A i \in 1 .. Len(s) + 1 : Ring(h, s)[i] \in Node
      BY RingNodes
    <2> QED
      BY <2>1, <2>2, <2>3
  <1>2. /\ \A i, j \in 1 .. last : ring[i] = ring[j] => i = j
        /\ \A i \in 1 .. last - 1 : l.next[ring[i]] = ring[i + 1]
        /\ \A i \in 2 .. last : l.prev[ring[i]] = ring[i - 1]
        /\ l.next[ring[last]] = h /\ l.prev[h] = ring[last]
    BY ListLinks
  <1>3. \A i \in 1 .. last : ring[i] # n
    BY RingNodes DEF OnRing
  <1>4. t \in Seq(Node) /\ Len(t) = last
    OBVIOUS
  <1>5. /\ more[1] = h /\ more[2] = n
        /\ \A i \in 3 .. last + 1 : more[i] = ring[i - 1]
    BY DEF Ring
  <1>6. q = IF last = 1 THEN h ELSE ring[2]
    BY <1>1, <1>2
  <1>7. q \in Node /\ q # n /\ h # n
    BY <1>1, <1>3, <1>6
  <1>8. /\ new \in Links
        /\ \A m \in Node :
             /\ new.next[m] = IF m = h THEN n ELSE IF m = n THEN q ELSE l.next[m]
             /\ new.prev[m] = IF m = q THEN n ELSE IF m = n THEN h ELSE l.prev[m]
    <2>1. q \in Node /\ n # h /\ n # q
      BY <1>7
    <2>2. new = list_insert(l, n, h, q)
      BY DEF list_add
    <2> HIDE DEF q, new
    <2>3. /\ list_insert(l, n, h, q) \in Links
          /\ \A m \in Node :
               /\ list_insert(l, n, h, q).next[m] = IF m = h THEN n ELSE IF m = n THEN q ELSE l.next[m]
               /\ list_insert(l, n, h, q).prev[m] = IF m = q THEN n ELSE IF m = n THEN h ELSE l.prev[m]
      BY <2>1, Inserted
    <2> QED
      BY <2>2, <2>3
  <1> HIDE DEF ring, last, t, more, q, new
  <1>9. \A i, j \in 1 .. last + 1 : more[i] = more[j] => i = j
    <2>1. \A i \in 3 .. last + 1 : i - 1 \in 2 .. last
      BY <1>1
    <2>2. \A i \in 3 .. last + 1 : more[i] # h /\ more[i] # n
      <3> TAKE i \in 3 .. last + 1
      <3>1. i - 1 \in 1 .. last /\ i - 1 # 1 /\ 1 \in 1 .. last
        BY <1>1
      <3>2. ring[i - 1] # ring[1] /\ ring[i - 1] # n
        BY <3>1, <1>2, <1>3
      <3> QED
        BY <3>2, <1>1, <1>5
    <2>3. \A i, j \in 3 .. last + 1 : more[i] = more[j] => i = j
      <3> SUFFICES ASSUME NEW i \in 3 .. last + 1, NEW j \in 3 .. last + 1, more[i] = more[j]
                   PROVE  i = j
        OBVIOUS
      <3>1. ring[i - 1] = ring[j - 1] /\ i - 1 \in 1 .. last /\ j - 1 \in 1 .. last
        BY <1>1, <1>5, <2>1
      <3> QED
        BY <3>1, <1>1, <1>2
    <2>4. \A i \in 1 .. last + 1 : i = 1 \/ i = 2 \/ i \in 3 .. last + 1
      BY <1>1
    <2> QED
      BY <1>5, <1>7, <2>2, <2>3, <2>4
  <1>10. \A i \in 1 .. last : new.next[more[i]] = more[i + 1] /\ new.prev[more[i + 1]] = more[i]
    <2> TAKE i \in 1 .. last
    <2>1. CASE i = 1
      BY <2>1, <1>1, <1>5, <1>6, <1>7, <1>8
    <2>2. CASE i = 2
      <3>1. last # 1 /\ more[2] = n /\ more[3] = ring[2] /\ q = ring[2]
        BY <2>2, <1>1, <1>5, <1>6
      <3> QED
        BY <2>2, <3>1, <1>7, <1>8
    <2>3. CASE i > 2
      <3>1. i - 1 \in 2 .. last - 1 /\ i \in 3 .. last /\ more[i] = ring[i - 1] /\ more[i + 1] = ring[i]
        BY <2>3, <1>1, <1>5
      <3>2. ring[i - 1] # h /\ ring[i - 1] # n /\ ring[i] # n /\ ring[i] # q
        BY <3>1, <1>1, <1>2, <1>3, <1>6
      <3>3. l.next[ring[i - 1]] = ring[i] /\ l.prev[ring[i]] = ring[i - 1]
        BY <3>1, <1>1, <1>2
      <3>4. ring[i - 1] \in Node /\ ring[i] \in Node
        BY <3>1, <1>1
      <3> QED
        BY <3>1, <3>2, <3>3, <3>4, <1>8
    <2> QED
      BY <2>1, <2>2, <2>3, <1>1
  <1>11. new.next[more[last + 1]] = h /\ new.prev[h] = more[last + 1]
    <2>1. CASE last = 1
      BY <2>1, <1>5, <1>6, <1>7, <1>8
    <2>2. CASE last # 1
      <3>1. more[last + 1] = ring[last] /\ ring[last] # h /\ ring[last] # n /\ h # q /\ ring[last] \in Node
        BY <2>2, <1>1, <1>2, <1>3, <1>5, <1>6
      <3> QED
        BY <3>1, <1>2, <1>7, <1>8
    <2> QED
      BY <2>1, <2>2
  <1> QED
    <2>1. Len(t) + 1 = last + 1 /\ (last + 1) - 1 = last
      BY <1>1, <1>4
    <2>2. IsList(new, h, t)
      BY <2>1, <1>4, <1>8, <1>9, <1>10, <1>11, MakesList DEF more
    <2> QED
      BY <1>8, <2>2 DEF new, t

(* list_add_tail puts it behind all others.                                *)
THEOREM AddTailIsLast ==
  ASSUME NEW l \in Links, NEW h \in Node, NEW s \in Seq(Node), IsList(l, h, s),
         NEW n \in Node, ~OnRing(n, h, s)
  PROVE  /\ list_add_tail(l, n, h) \in Links
         /\ IsList(list_add_tail(l, n, h), h, Append(s, n))
  <1> DEFINE ring == Ring(h, s)
             last == Len(s) + 1
             t == Append(s, n)
             more == Ring(h, t)
             p == l.prev[h]
             new == list_add_tail(l, n, h)
  <1>1. /\ last \in Nat \ {0} /\ ring[1] = h
        /\ \A i \in 1 .. last : ring[i] \in Node
    <2>1. Len(s) \in Nat
      BY RingNodes
    <2>2. Ring(h, s)[1] = h
      BY RingNodes
    <2>3. \A i \in 1 .. Len(s) + 1 : Ring(h, s)[i] \in Node
      BY RingNodes
    <2> QED
      BY <2>1, <2>2, <2>3
  <1>2. /\ \A i, j \in 1 .. last : ring[i] = ring[j] => i = j
        /\ \A i \in 1 .. last - 1 : l.next[ring[i]] = ring[i + 1]
        /\ \A i \in 2 .. last : l.prev[ring[i]] = ring[i - 1]
        /\ l.next[ring[last]] = h /\ l.prev[h] = ring[last]
    BY ListLinks
  <1>3. \A i \in 1 .. last : ring[i] # n
    BY RingNodes DEF OnRing
  <1>4. t \in Seq(Node) /\ Len(t) = last
    OBVIOUS
  <1>5. /\ more[last + 1] = n
        /\ \A i \in 1 .. last : more[i] = ring[i]
    BY DEF Ring
  <1>6. p = ring[last] /\ p \in Node /\ p # n /\ h # n
    BY <1>1, <1>2, <1>3
  <1>7. /\ new \in Links
        /\ \A m \in Node :
             /\ new.next[m] = IF m = p THEN n ELSE IF m = n THEN h ELSE l.next[m]
             /\ new.prev[m] = IF m = h THEN n ELSE IF m = n THEN p ELSE l.prev[m]
    <2>1. p \in Node /\ n # p /\ n # h
      BY <1>6
    <2>2. new = list_insert(l, n, p, h)
      BY DEF list_add_tail
    <2> HIDE DEF p, new
    <2>3. /\ list_insert(l, n, p, h) \in Links
          /\ \A m \in Node :
               /\ list_insert(l, n, p, h).next[m] = IF m = p THEN n ELSE IF m = n THEN h ELSE l.next[m]
               /\ list_insert(l, n, p, h).prev[m] = IF m = h THEN n ELSE IF m = n THEN p ELSE l.prev[m]
      BY <2>1, Inserted
    <2> QED
      BY <2>2, <2>3
  <1> HIDE DEF ring, last, t, more, p, new
  <1>8. \A i, j \in 1 .. last + 1 : more[i] = more[j] => i = j
    <2>1. \A i \in 1 .. last + 1 : i = last + 1 \/ i \in 1 .. last
      BY <1>1
    <2> QED
      BY <2>1, <1>2, <1>3, <1>5
  <1>9. \A i \in 1 .. last : new.next[more[i]] = more[i + 1] /\ new.prev[more[i + 1]] = more[i]
    <2> TAKE i \in 1 .. last
    <2>1. CASE i = last
      BY <2>1, <1>1, <1>5, <1>6, <1>7
    <2>2. CASE i # last
      <3>1. /\ i \in 1 .. last - 1 /\ i + 1 \in 2 .. last /\ i + 1 \in 1 .. last /\ (i + 1) - 1 = i
            /\ 1 \in 1 .. last /\ last \in 1 .. last
        BY <2>2, <1>1
      <3>2. ring[i] # p /\ ring[i] # n /\ ring[i + 1] # n /\ ring[i + 1] # h
        <4>1. i # last /\ i + 1 # 1
          BY <3>1
        <4> QED
          BY <4>1, <3>1, <1>1, <1>2, <1>3, <1>6
      <3>3. l.next[ring[i]] = ring[i + 1] /\ l.prev[ring[i + 1]] = ring[i]
        BY <3>1, <1>2
      <3>4. ring[i] \in Node /\ ring[i + 1] \in Node /\ more[i] = ring[i] /\ more[i + 1] = ring[i + 1]
        BY <3>1, <1>1, <1>5
      <3> QED
        BY <3>2, <3>3, <3>4, <1>7
    <2> QED
      BY <2>1, <2>2
  <1>10. new.next[more[last + 1]] = h /\ new.prev[h] = more[last + 1]
    BY <1>5, <1>6, <1>7
  <1> QED
    <2>1. Len(t) + 1 = last + 1 /\ (last + 1) - 1 = last
      BY <1>1, <1>4
    <2>2. more[1] = h
      BY <1>1, <1>5
    <2>3. IsList(new, h, t)
      BY <2>1, <2>2, <1>4, <1>7, <1>8, <1>9, <1>10, MakesList DEF more
    <2> QED
      BY <1>7, <2>3 DEF new, t

(* list_delete takes out the one node it is given and leaves it linked to  *)
(* itself, so that deleting it again does no harm.                         *)
THEOREM DeleteIsWithout ==
  ASSUME NEW l \in Links, NEW h \in Node, NEW s \in Seq(Node), IsList(l, h, s),
         NEW k \in 1 .. Len(s)
  PROVE  /\ list_delete(l, s[k]) \in Links
         /\ IsList(list_delete(l, s[k]), h, Without(s, k))
         /\ list_delete(list_delete(l, s[k]), s[k]) = list_delete(l, s[k])
  <1> DEFINE ring == Ring(h, s)
             last == Len(s) + 1
             n == s[k]
             t == Without(s, k)
             less == Ring(h, t)
             p == l.prev[n]
             q == l.next[n]
             new == list_delete(l, n)
  <1>1. /\ last \in Nat \ {0} /\ ring[1] = h /\ ring[k + 1] = n /\ k \in 1 .. last - 1
        /\ \A i \in 1 .. last : ring[i] \in Node
    <2>1. Len(s) \in Nat
      BY RingNodes
    <2>2. Ring(h, s)[1] = h
      BY RingNodes
    <2>3. \A i \in 1 .. Len(s) + 1 : Ring(h, s)[i] \in Node
      BY RingNodes
    <2>4. \A i \in 1 .. Len(s) : Ring(h, s)[i + 1] = s[i]
      BY RingNodes
    <2> QED
      BY <2>1, <2>2, <2>3, <2>4
  <1>2. /\ \A i, j \in 1 .. last : ring[i] = ring[j] => i = j
        /\ \A i \in 1 .. last - 1 : l.next[ring[i]] = ring[i + 1]
        /\ \A i \in 2 .. last : l.prev[ring[i]] = ring[i - 1]
        /\ l.next[ring[last]] = h /\ l.prev[h] = ring[last]
    BY ListLinks
  <1>3. t \in Seq(Node) /\ Len(t) = last - 2
    <2>1. last - 2 \in Nat /\ \A i \in 1 .. last - 2 : s[i] \in Node /\ s[i + 1] \in Node
      BY <1>1
    <2>2. t = [i \in 1 .. last - 2 |-> IF i < k THEN s[i] ELSE s[i + 1]]
      BY <1>1 DEF Without
    <2> QED
      BY <2>1, <2>2
  <1>4. \A i \in 1 .. last - 1 : less[i] = IF i <= k THEN ring[i] ELSE ring[i + 1]
    <2> TAKE i \in 1 .. last - 1
    <2>1. less[1] = h /\ \A j \in 2 .. Len(t) + 1 : less[j] = t[j - 1]
      BY <1>3, RingNodes
    <2>2. \A j \in 2 .. last : ring[j] = s[j - 1]
      BY RingNodes
    <2>3. CASE i = 1
      BY <2>3, <2>1, <1>1
    <2>4. CASE i # 1
      <3>1. i \in 2 .. Len(t) + 1 /\ i - 1 \in 1 .. Len(s) - 1 /\ i \in 2 .. last /\ i + 1 \in 2 .. last
        BY <2>4, <1>1, <1>3
      <3>2. t[i - 1] = IF i - 1 < k THEN s[i - 1] ELSE s[(i - 1) + 1]
        BY <3>1 DEF Without
      <3>3. less[i] = t[i - 1] /\ ring[i] = s[i - 1] /\ ring[i + 1] = s[(i + 1) - 1]
        BY <3>1, <2>1, <2>2
      <3>4. (i - 1) + 1 = i /\ (i + 1) - 1 = i /\ (i - 1 < k <=> i <= k)
        BY <3>1, <1>1
      <3> HIDE DEF t, less, ring
      <3> QED
        BY <3>2, <3>3, <3>4
    <2> QED
      BY <2>3, <2>4
  <1>5. n \in Node /\ p = ring[k] /\ q = IF k + 1 = last THEN h ELSE ring[k + 2]
    <2>1. /\ k + 1 \in 2 .. last /\ k + 1 \in 1 .. last /\ (k + 1) - 1 = k /\ (k + 1) + 1 = k + 2
          /\ (k + 1 # last => k + 1 \in 1 .. last - 1)
      BY <1>1
    <2> HIDE DEF ring, n
    <2> QED
      BY <2>1, <1>1, <1>2
  <1>6. p \in Node /\ q \in Node /\ p # n /\ q # n /\ h # n
    <2>1. k \in 1 .. last /\ k + 1 \in 1 .. last /\ 1 \in 1 .. last /\ (k + 1 # last => k + 2 \in 1 .. last)
      BY <1>1
    <2>2. k # k + 1 /\ k + 2 # k + 1 /\ 1 # k + 1
      BY <1>1
    <2> HIDE DEF ring, n, p, q
    <2> QED
      BY <2>1, <2>2, <1>1, <1>2, <1>5
  <1>7. /\ new \in Links
        /\ \A m \in Node :
             /\ new.next[m] = IF m = n THEN n ELSE IF m = p THEN q ELSE l.next[m]
             /\ new.prev[m] = IF m = n THEN n ELSE IF m = q THEN p ELSE l.prev[m]
    <2>1. p \in Node /\ q \in Node /\ n \in Node
      BY <1>5, <1>6
    <2>2. new = list_remove(l, n, p, q)
      BY DEF list_delete
    <2> HIDE DEF n, p, q, new
    <2>3. /\ list_remove(l, n, p, q) \in Links
          /\ \A m \in Node :
               /\ list_remove(l, n, p, q).next[m] = IF m = n THEN n ELSE IF m = p THEN q ELSE l.next[m]
               /\ list_remove(l, n, p, q).prev[m] = IF m = n THEN n ELSE IF m = q THEN p ELSE l.prev[m]
      BY <2>1, Removed
    <2> QED
      BY <2>2, <2>3
  <1>8. list_delete(new, n) = new
    <2> HIDE DEF n, p, q, new
    <2>1. new.next[n] = n /\ new.prev[n] = n /\ n \in Node
      BY <1>5, <1>7
    <2>2. new \in [next : [Node -> Node], prev : [Node -> Node]]
      BY <1>7 DEF Links
    <2>3. [new.next EXCEPT ![n] = n] = new.next /\ [new.prev EXCEPT ![n] = n] = new.prev
      BY <2>1, <2>2
    <2>4. SetNext(new, n, n) = new
      BY <2>2, <2>3 DEF SetNext
    <2>5. SetPrev(new, n, n) = new
      BY <2>2, <2>3 DEF SetPrev
    <2>6. list_delete(new, n) = SetPrev(SetNext(SetPrev(SetNext(new, n, n), n, n), n, n), n, n)
      BY <2>1 DEF list_delete, list_remove, list_init
    <2> QED
      BY <2>4, <2>5, <2>6
  <1> HIDE DEF ring, last, t, less, n, p, q, new
  <1>9. \A i \in 1 .. last - 1 :
          LET at == IF i <= k THEN i ELSE i + 1
          IN less[i] = ring[at] /\ at \in 1 .. last /\ at # k + 1
    BY <1>1, <1>4
  <1>10. \A i, j \in 1 .. last - 1 : less[i] = less[j] => i = j
    <2> SUFFICES ASSUME NEW i \in 1 .. last - 1, NEW j \in 1 .. last - 1, less[i] = less[j]
                 PROVE  i = j
      OBVIOUS
    <2> DEFINE at(x) == IF x <= k THEN x ELSE x + 1
    <2>1. at(i) = at(j)
      BY <1>2, <1>9
    <2> QED
      BY <2>1, <1>1
  <1>11. \A i \in 1 .. last - 2 : new.next[less[i]] = less[i + 1] /\ new.prev[less[i + 1]] = less[i]
    <2> TAKE i \in 1 .. last - 2
    <2>1. CASE i = k
      <3>1. less[i] = p /\ less[i + 1] = q
        <4>1. i \in 1 .. last - 1 /\ i + 1 \in 1 .. last - 1 /\ k + 1 # last /\ (i + 1) + 1 = k + 2
              /\ i <= k /\ ~(i + 1 <= k)
          BY <2>1, <1>1
        <4> QED
          BY <4>1, <2>1, <1>4, <1>5
      <3> QED
        BY <3>1, <1>6, <1>7
    <2>2. CASE i # k
      <3> DEFINE at == IF i <= k THEN i ELSE i + 1
      <3>1. /\ i \in 1 .. last - 1 /\ i + 1 \in 1 .. last - 1
            /\ at \in 1 .. last - 1 /\ at \in 1 .. last /\ at + 1 \in 2 .. last /\ at + 1 \in 1 .. last
            /\ (at + 1) - 1 = at /\ at # k + 1 /\ at # k /\ at + 1 # k + 1 /\ at + 1 # k + 2 /\ at + 1 # 1
            /\ at + 1 = IF i + 1 <= k THEN i + 1 ELSE (i + 1) + 1
            /\ k \in 1 .. last /\ k + 1 \in 1 .. last /\ 1 \in 1 .. last
            /\ (k + 1 # last => k + 2 \in 1 .. last)
        BY <2>2, <1>1
      <3>2. less[i] = ring[at] /\ less[i + 1] = ring[at + 1]
        BY <3>1, <1>4
      <3> HIDE DEF at
      <3>3. l.next[ring[at]] = ring[at + 1] /\ l.prev[ring[at + 1]] = ring[at]
        BY <3>1, <1>2
      <3>4. ring[at] # n /\ ring[at] # p /\ ring[at + 1] # n /\ ring[at + 1] # q
        BY <3>1, <1>1, <1>2, <1>5
      <3> QED
        BY <3>1, <3>2, <3>3, <3>4, <1>1, <1>7
    <2> QED
      BY <2>1, <2>2
  <1>12. new.next[less[last - 1]] = h /\ new.prev[h] = less[last - 1] /\ less[1] = h
    <2>1. last - 1 \in 1 .. last - 1 /\ 1 \in 1 .. last - 1 /\ 1 <= k /\ (last - 1) + 1 = last
          /\ 1 \in 1 .. last /\ last \in 1 .. last
      BY <1>1
    <2>2. less[1] = h
      BY <2>1, <1>1, <1>4
    <2>3. CASE k = last - 1
      <3>1. less[last - 1] = p /\ q = h
        BY <2>1, <2>3, <1>1, <1>4, <1>5
      <3> QED
        BY <3>1, <2>2, <1>6, <1>7
    <2>4. CASE k # last - 1
      <3>1. less[last - 1] = ring[last] /\ last # k + 1 /\ last # k /\ k + 2 # 1
            /\ k \in 1 .. last /\ k + 1 \in 1 .. last /\ k + 2 \in 1 .. last
        BY <2>1, <2>4, <1>1, <1>4
      <3>2. ring[last] # n /\ ring[last] # p /\ h # q /\ ring[last] \in Node
        BY <3>1, <2>1, <1>1, <1>2, <1>5
      <3> QED
        BY <3>1, <3>2, <2>2, <1>2, <1>6, <1>7
    <2> QED
      BY <2>2, <2>3, <2>4
  <1> QED
    <2>1. Len(t) + 1 = last - 1 /\ (last - 1) - 1 = last - 2
      BY <1>1, <1>3
    <2>2. \A i, j \in 1 .. Len(t) + 1 : less[i] = less[j] => i = j
      BY <2>1, <1>10
    <2>3. \A i \in 1 .. (Len(t) + 1) - 1 : new.next[less[i]] = less[i + 1] /\ new.prev[less[i + 1]] = less[i]
      BY <2>1, <1>11
    <2>4. new.next[less[Len(t) + 1]] = h /\ new.prev[h] = less[Len(t) + 1]
      BY <2>1, <1>12
    <2>5. IsList(new, h, t)
      BY <2>2, <2>3, <2>4, <1>3, <1>7, MakesList DEF less
    <2> QED
      BY <1>7, <1>8, <2>5 DEF new, t, n

----------------------------------------------------------------------------
(* What a list needs of the links is what its own nodes hold.              *)
LEMMA OwnLinks ==
  ASSUME NEW l \in Links, NEW new \in Links, NEW g \in Node, NEW u \in Seq(Node), IsList(l, g, u),
         \A m \in Node : OnRing(m, g, u) => new.next[m] = l.next[m] /\ new.prev[m] = l.prev[m]
  PROVE  IsList(new, g, u)
  <1> DEFINE ring == Ring(g, u)
             last == Len(u) + 1
  <1>1. DOMAIN ring = 1 .. last /\ Len(ring) = last /\ last \in Nat \ {0}
    BY RingNodes
  <1>2. \A i \in 1 .. last : ring[i] \in Node
    BY RingNodes
  <1>3. \A i \in 1 .. last : new.next[ring[i]] = l.next[ring[i]] /\ new.prev[ring[i]] = l.prev[ring[i]]
    BY <1>1, <1>2 DEF OnRing
  <1> HIDE DEF ring, last
  <1> QED
    BY <1>1, <1>3 DEF IsList, ring

(* The head and its neighbours are nodes of its ring.                      *)
LEMMA NeighboursOnRing ==
  ASSUME NEW l \in Links, NEW h \in Node, NEW s \in Seq(Node), IsList(l, h, s)
  PROVE  \A m \in Node : OnRing(m, h, s) =>
           /\ l.next[m] \in Node /\ OnRing(l.next[m], h, s)
           /\ l.prev[m] \in Node /\ OnRing(l.prev[m], h, s)
  <1> DEFINE ring == Ring(h, s)
             last == Len(s) + 1
  <1>1. DOMAIN ring = 1 .. last /\ last \in Nat \ {0} /\ ring[1] = h
    BY RingNodes
  <1>2. /\ \A i \in 1 .. last - 1 : l.next[ring[i]] = ring[i + 1]
        /\ \A i \in 2 .. last : l.prev[ring[i]] = ring[i - 1]
        /\ l.next[ring[last]] = h /\ l.prev[h] = ring[last]
    BY ListLinks
  <1>3. \A i \in 1 .. last : OnRing(ring[i], h, s)
    BY <1>1 DEF OnRing
  <1> SUFFICES ASSUME NEW m \in Node, OnRing(m, h, s)
               PROVE  OnRing(l.next[m], h, s) /\ OnRing(l.prev[m], h, s)
    BY DEF Links
  <1>4. PICK i \in 1 .. last : ring[i] = m
    BY <1>1 DEF OnRing
  <1> HIDE DEF ring, last
  <1>5. /\ (i # last => i \in 1 .. last - 1 /\ i + 1 \in 1 .. last)
        /\ (i # 1 => i \in 2 .. last /\ i - 1 \in 1 .. last)
        /\ 1 \in 1 .. last /\ last \in 1 .. last
    BY <1>1
  <1> QED
    BY <1>1, <1>2, <1>3, <1>4, <1>5

(* An operation on one list leaves every list alone that shares no node    *)
(* with it: the scheduler's lists, waiting lists and slabs do not disturb  *)
(* one another.                                                            *)
THEOREM OtherListsKept ==
  ASSUME NEW l \in Links, NEW h \in Node, NEW s \in Seq(Node), IsList(l, h, s),
         NEW g \in Node, NEW u \in Seq(Node), IsList(l, g, u),
         \A m \in Node : ~(OnRing(m, h, s) /\ OnRing(m, g, u)),
         NEW n \in Node, ~OnRing(n, g, u)
  PROVE  /\ ~OnRing(n, h, s) => /\ IsList(list_add(l, n, h), g, u)
                                /\ IsList(list_add_tail(l, n, h), g, u)
         /\ OnRing(n, h, s) => IsList(list_delete(l, n), g, u)
  <1>1. OnRing(h, h, s)
    <2>1. DOMAIN Ring(h, s) = 1 .. Len(s) + 1 /\ Len(s) \in Nat /\ Ring(h, s)[1] = h
      BY RingNodes
    <2>2. 1 \in DOMAIN Ring(h, s)
      BY <2>1
    <2> QED
      BY <2>1, <2>2 DEF OnRing
  <1>2. ASSUME ~OnRing(n, h, s),
               NEW p \in Node, NEW q \in Node, OnRing(p, h, s), OnRing(q, h, s)
        PROVE  IsList(list_insert(l, n, p, q), g, u)
    <2> DEFINE new == list_insert(l, n, p, q)
    <2>1. n # p /\ n # q
      BY <1>2
    <2>2. /\ new \in Links
          /\ \A m \in Node :
               /\ new.next[m] = IF m = p THEN n ELSE IF m = n THEN q ELSE l.next[m]
               /\ new.prev[m] = IF m = q THEN n ELSE IF m = n THEN p ELSE l.prev[m]
      BY <2>1, Inserted
    <2>3. \A m \in Node : OnRing(m, g, u) => m # n /\ m # p /\ m # q
      BY <1>2
    <2> HIDE DEF new
    <2>4. \A m \in Node : OnRing(m, g, u) => new.next[m] = l.next[m] /\ new.prev[m] = l.prev[m]
      BY <2>2, <2>3
    <2>5. IsList(new, g, u)
      BY <2>2, <2>4, OwnLinks
    <2> QED
      BY <2>5 DEF new
  <1>3. ASSUME OnRing(n, h, s)
        PROVE  IsList(list_delete(l, n), g, u)
    <2> DEFINE p == l.prev[n]
               q == l.next[n]
               new == list_remove(l, n, p, q)
    <2>1. p \in Node /\ q \in Node /\ OnRing(p, h, s) /\ OnRing(q, h, s)
      BY <1>3, NeighboursOnRing
    <2> HIDE DEF p, q
    <2>2. /\ new \in Links
          /\ \A m \in Node :
               /\ new.next[m] = IF m = n THEN n ELSE IF m = p THEN q ELSE l.next[m]
               /\ new.prev[m] = IF m = n THEN n ELSE IF m = q THEN p ELSE l.prev[m]
      BY <2>1, Removed
    <2>3. \A m \in Node : OnRing(m, g, u) => m # n /\ m # p /\ m # q
      BY <2>1
    <2> HIDE DEF new
    <2>4. \A m \in Node : OnRing(m, g, u) => new.next[m] = l.next[m] /\ new.prev[m] = l.prev[m]
      BY <2>2, <2>3
    <2>5. IsList(new, g, u)
      BY <2>2, <2>4, OwnLinks
    <2> QED
      BY <2>5 DEF new, list_delete, p, q
  <1>4. ASSUME ~OnRing(n, h, s)
        PROVE  IsList(list_add(l, n, h), g, u) /\ IsList(list_add_tail(l, n, h), g, u)
    <2>1. /\ l.next[h] \in Node /\ OnRing(l.next[h], h, s)
          /\ l.prev[h] \in Node /\ OnRing(l.prev[h], h, s)
      BY <1>1, NeighboursOnRing
    <2>2. IsList(list_insert(l, n, h, l.next[h]), g, u)
      BY <1>1, <1>2, <1>4, <2>1
    <2>3. IsList(list_insert(l, n, l.prev[h], h), g, u)
      BY <1>1, <1>2, <1>4, <2>1
    <2> QED
      BY <2>2, <2>3 DEF list_add, list_add_tail
  <1> QED
    BY <1>3, <1>4

----------------------------------------------------------------------------
(* The buffer printer.                                                     *)

(* What the buffer's size says of the room that is left.                   *)
PrinterInv ==
  /\ size \in 0 .. SIZE_T - 1
  /\ left \in Nat
  /\ out \in Seq(Char)
  /\ buffer \in Seq(Char \cup {Zero})
  /\ ~Ended => left = Limit - Len(buffer)
  /\ StoresWhatFits

(* Size 0 wraps around.                                                    *)
LEMMA Wraps ==
  ASSUME NEW n \in 0 .. SIZE_T - 1
  PROVE  (n - 1) % SIZE_T = IF n = 0 THEN SIZE_T - 1 ELSE n - 1
  BY PrinterAssumption, SMT

(* As long as the zero is missing, all that is stored are characters.      *)
LEMMA NotEnded ==
  ASSUME buffer \in Seq(Char \cup {Zero}), ~Ended
  PROVE  \A i \in 1 .. Len(buffer) : buffer[i] \in Char
  BY DEF Ended

LEMMA StartHolds == PrinterStart => PrinterInv
  <1> SUFFICES ASSUME NEW n \in 0 .. SIZE_T - 1, PrinterInit(n)
               PROVE  PrinterInv
    BY DEF PrinterStart
  <1>1. left = Limit
    BY Wraps DEF PrinterInit, Limit
  <1>2. Limit \in Nat
    BY PrinterAssumption DEF Limit, PrinterInit
  <1>3. out = <<>> /\ buffer = <<>> /\ size = n /\ Len(out) = 0 /\ Len(buffer) = 0
    BY DEF PrinterInit
  <1>4. ~Ended
    BY <1>3 DEF Ended
  <1>5. StoresWhatFits
    BY <1>2, <1>3, <1>4 DEF StoresWhatFits
  <1> QED
    BY <1>1, <1>2, <1>3, <1>4, <1>5 DEF PrinterInv

(* A character is stored while there is room for it and the zero, and      *)
(* dropped when there is none.                                             *)
LEMMA PrintKeeps ==
  ASSUME PrinterInv, ~Ended, NEW c \in Char, printer_print(c)
  PROVE  PrinterInv'
  <1> USE PrinterAssumption
  <1>1. Limit \in Nat /\ Limit' = Limit /\ size' \in 0 .. SIZE_T - 1
    BY DEF PrinterInv, Limit, printer_print
  <1>2. out' \in Seq(Char) /\ Len(out') = Len(out) + 1
        /\ (\A i \in 1 .. Len(out) : out'[i] = out[i]) /\ out'[Len(out) + 1] = c
    BY DEF PrinterInv, printer_print
  <1>3. /\ Len(buffer) = IF Len(out) < Limit THEN Len(out) ELSE Limit
        /\ \A i \in 1 .. Len(buffer) : buffer[i] = out[i]
        /\ left = Limit - Len(buffer)
    BY <1>1 DEF PrinterInv, StoresWhatFits
  <1>4. CASE left # 0
    <2>1. buffer' = Append(buffer, c) /\ left' = left - 1
      BY <1>4 DEF printer_print
    <2>2. Len(buffer) = Len(out) /\ Len(out) < Limit
      BY <1>1, <1>3, <1>4 DEF PrinterInv
    <2>3. buffer' \in Seq(Char \cup {Zero}) /\ Len(buffer') = Len(buffer) + 1
          /\ (\A i \in 1 .. Len(buffer) : buffer'[i] = buffer[i])
          /\ buffer'[Len(buffer) + 1] = c
      BY <2>1 DEF PrinterInv
    <2>4. ~Ended'
      BY <2>3, NotEnded DEF PrinterInv, Ended
    <2>5. left' \in Nat /\ left' = Limit' - Len(buffer')
      BY <1>1, <1>3, <1>4, <2>1, <2>3 DEF PrinterInv
    <2>6. StoresWhatFits'
      BY <1>1, <1>2, <1>3, <2>2, <2>3, <2>4 DEF StoresWhatFits, PrinterInv
    <2> QED
      BY <1>1, <1>2, <2>3, <2>5, <2>6 DEF PrinterInv
  <1>5. CASE left = 0
    <2>1. buffer' = buffer /\ left' = left
      BY <1>5 DEF printer_print
    <2>2. Len(buffer) = Limit /\ Limit <= Len(out)
      BY <1>1, <1>3, <1>5 DEF PrinterInv
    <2>3. ~Ended'
      BY <2>1 DEF Ended
    <2>4. StoresWhatFits'
      BY <1>1, <1>2, <1>3, <2>1, <2>2, <2>3 DEF StoresWhatFits, PrinterInv
    <2> QED
      BY <1>1, <1>2, <1>3, <2>1, <2>3, <2>4 DEF PrinterInv
  <1> QED
    BY <1>4, <1>5

(* The zero goes behind the last character stored.                         *)
LEMMA EndKeeps ==
  ASSUME PrinterInv, ~Ended, printer_end
  PROVE  PrinterInv'
  <1> USE PrinterAssumption
  <1>1. Limit \in Nat /\ Limit' = Limit
    BY DEF PrinterInv, Limit, printer_end
  <1>2. /\ Len(buffer) = IF Len(out) < Limit THEN Len(out) ELSE Limit
        /\ \A i \in 1 .. Len(buffer) : buffer[i] = out[i]
    BY <1>1 DEF PrinterInv, StoresWhatFits
  <1>3. buffer' \in Seq(Char \cup {Zero}) /\ Len(buffer') = Len(buffer) + 1
        /\ (\A i \in 1 .. Len(buffer) : buffer'[i] = buffer[i])
        /\ buffer'[Len(buffer) + 1] = Zero
    BY DEF PrinterInv, printer_end
  <1>4. Ended'
    BY <1>3 DEF Ended, PrinterInv
  <1>5. StoresWhatFits'
    BY <1>1, <1>2, <1>3, <1>4 DEF StoresWhatFits, PrinterInv, printer_end
  <1> QED
    BY <1>3, <1>4, <1>5 DEF PrinterInv, printer_end

LEMMA StepKeeps == PrinterInv /\ [PrinterNext]_printer => PrinterInv'
  <1> SUFFICES ASSUME PrinterInv, [PrinterNext]_printer
               PROVE  PrinterInv'
    OBVIOUS
  <1>1. CASE PrinterNext
    BY <1>1, PrintKeeps, EndKeeps DEF PrinterNext
  <1>2. CASE UNCHANGED printer
    BY <1>2 DEF printer, PrinterInv, StoresWhatFits, Ended, Limit
  <1> QED
    BY <1>1, <1>2

(* Whatever is printed into a buffer of whatever size, the printer of      *)
(* vsnprintf stores the first characters of it, as many as fit, and ends   *)
(* them with the zero inside the buffer (buffer_printer_init,              *)
(* __buffer_print, __buffer_end).                                          *)
THEOREM BufferHoldsWhatFits == PrinterSpec => []StoresWhatFits
  <1>1. PrinterInv => StoresWhatFits
    BY DEF PrinterInv
  <1> QED
    BY StartHolds, StepKeeps, <1>1, PTL DEF PrinterSpec

-----------------------------------------------------------------------------
(* Sequences put together, number by number.                               *)

\* Every set of numbers has a least one: what all inductions below are made of.
LEMMA LeastNumber ==
  ASSUME NEW T, T \subseteq Nat, T # {}
  PROVE  \E m \in T : \A k \in T : m <= k
<1> DEFINE R == OpToRel(<, Nat)
<1>1. IsWellFoundedOn(R, Nat)
  BY NatLessThanWellFounded
<1>2. \A x, y \in Nat : <<y, x>> \in R <=> y < x
  BY DEF OpToRel
<1> HIDE DEF R
<1>3. PICK x \in T : \A y \in T : ~ (<<y, x>> \in R)
  BY <1>1, WFMin
<1>4. ASSUME NEW k \in T PROVE x <= k
  <2>1. x \in Nat /\ k \in Nat /\ ~ (k < x)
    BY <1>2, <1>3
  <2> QED BY <2>1
<1> QED BY <1>4

(* FlattenSeq's function.                                                  *)
IsFlat(g, ss, n) == g = [i \in 1 .. n |-> IF i = 1 THEN ss[i] ELSE g[i - 1] \o ss[i]]

\* There is such a function, so that CHOOSE finds one.
LEMMA FlatExists ==
  ASSUME NEW ss, NEW n \in Nat
  PROVE  \E g : IsFlat(g, ss, n)
<1> DEFINE T == {j \in Nat : ~ \E g : IsFlat(g, ss, j)}
<1> SUFFICES ASSUME T # {} PROVE FALSE
  OBVIOUS
<1>1. PICK j \in T : \A i \in T : j <= i
  BY LeastNumber
<1>2. j \in Nat /\ ~ \E g : IsFlat(g, ss, j)
  OBVIOUS
<1>3. CASE j = 0
  <2> DEFINE g == [i \in 1 .. 0 |-> <<>>]
  <2>1. IsFlat(g, ss, 0)
    BY DEF IsFlat
  <2> QED BY <1>2, <1>3, <2>1
<1>4. CASE j # 0
  <2>1. j - 1 \in Nat /\ ~ (j <= j - 1)
    BY <1>2, <1>4
  <2>2. \E g : IsFlat(g, ss, j - 1)
    BY <1>1, <2>1
  <2>3. PICK g : IsFlat(g, ss, j - 1)
    BY <2>2
  <2> DEFINE v(i) == g[i - 1] \o ss[i]
             h == [i \in 1 .. j |-> IF i = j THEN (IF j = 1 THEN ss[j] ELSE v(j)) ELSE g[i]]
  <2>4. \A i \in 1 .. j - 1 : g[i] = IF i = 1 THEN ss[i] ELSE v(i)
    BY <2>3 DEF IsFlat
  <2> HIDE DEF v
  <2>5. \A i \in 1 .. j - 1 : h[i] = g[i] /\ i \in 1 .. j
    BY <1>2
  <2>6. \A i \in 1 .. j : i # 1 => i - 1 \in 1 .. j - 1
    BY <1>2
  <2>7. \A i \in 1 .. j : h[i] = IF i = 1 THEN ss[i] ELSE v(i)
    BY <1>2, <1>4, <2>4
  <2>8. \A i \in 1 .. j : i # 1 => v(i) = h[i - 1] \o ss[i]
    BY <2>5, <2>6 DEF v
  <2>9. h = [i \in 1 .. j |-> h[i]]
    OBVIOUS
  <2> HIDE DEF h
  <2>10. IsFlat(h, ss, j)
    BY <2>7, <2>8, <2>9 DEF IsFlat
  <2> QED BY <1>2, <2>10
<1> QED BY <1>3, <1>4

(* The sequences of ss one after the other: g[i] are the first i of them.  *)
Concatenates(g, ss, n) ==
  /\ g[0] = <<>>
  /\ \A i \in 1 .. n : g[i] = g[i - 1] \o ss[i]
  /\ FlattenSeq(ss) = g[n]

\* What FlattenSeq returns is the last of them.
LEMMA FlattenIs ==
  ASSUME NEW S, NEW n \in Nat, NEW ss \in [1 .. n -> Seq(S)]
  PROVE  \E g : Concatenates(g, ss, n)
<1> DEFINE flat == CHOOSE h : IsFlat(h, ss, n)
           g == [i \in 0 .. n |-> IF i = 0 THEN <<>> ELSE flat[i]]
<1>1. Len(ss) = n
  <2>1. ss = [i \in 1 .. n |-> ss[i]]
    OBVIOUS
  <2>2. DOMAIN ss = 1 .. n /\ ss \in Seq(Seq(S))
    OBVIOUS
  <2> QED BY <2>2
<1>2. FlattenSeq(ss) = IF n = 0 THEN ss ELSE flat[n]
  BY <1>1 DEF FlattenSeq, IsFlat
<1>3. IsFlat(flat, ss, n)
  <2>1. \E h : IsFlat(h, ss, n)
    BY FlatExists
  <2> QED BY <2>1
<1> HIDE DEF flat
<1>4. \A i \in 1 .. n : flat[i] = IF i = 1 THEN ss[i] ELSE flat[i - 1] \o ss[i]
  BY <1>3 DEF IsFlat
<1>5. g[0] = <<>> /\ \A i \in 1 .. n : g[i] = flat[i]
  OBVIOUS
<1> HIDE DEF g
<1>6. ASSUME NEW i \in 1 .. n PROVE g[i] = g[i - 1] \o ss[i]
  <2>1. CASE i = 1
    <3>1. g[1] = ss[1] /\ ss[1] \in Seq(S)
      BY <1>4, <1>5, <2>1
    <3>2. <<>> \o ss[1] = ss[1]
      BY <3>1, ConcatEmptySeq
    <3> QED BY <1>5, <2>1, <3>1, <3>2
  <2>2. CASE i # 1
    <3>1. i - 1 \in 1 .. n
      BY <2>2
    <3> QED BY <1>4, <1>5, <2>2, <3>1
  <2> QED BY <2>1, <2>2
<1>7. FlattenSeq(ss) = g[n]
  <2>1. CASE n = 0
    <3>1. ss = <<>>
      BY <1>1, <2>1
    <3> QED BY <1>2, <1>5, <2>1, <3>1
  <2>2. CASE n # 0
    <3>1. n \in 1 .. n
      BY <2>2
    <3> QED BY <1>2, <1>5, <2>2, <3>1
  <2> QED BY <2>1, <2>2
<1>8. Concatenates(g, ss, n)
  BY <1>5, <1>6, <1>7 DEF Concatenates
<1> QED BY <1>8


-----------------------------------------------------------------------------
(* Division by a base, which the digits of a number come from.             *)

\* What \div and % are.
LEMMA DivMod ==
  ASSUME NEW m \in Nat \ {0}, NEW x \in Nat
  PROVE  x \div m \in Nat /\ x % m \in 0 .. m - 1 /\ x = m * (x \div m) + (x % m)
OBVIOUS

\* The products that the prover is not to multiply out.
LEMMA Products ==
  ASSUME NEW a \in Nat, NEW b \in Nat
  PROVE  /\ a * b \in Nat /\ a * b = b * a
         /\ \A c \in Nat : (a + c) * b = a * b + c * b
         /\ \A c \in Nat : (a * b) * c = a * (b * c)
         /\ \A c \in Nat : a <= c => a * b <= c * b
         /\ \A c \in Nat : a < c /\ b > 0 => a * b + b <= c * b
OBVIOUS

\* A quotient and a remainder are the only ones.
LEMMA DivUnique ==
  ASSUME NEW m \in Nat \ {0}, NEW x \in Nat, NEW s \in Nat, NEW r \in Nat, r < m, x = s * m + r
  PROVE  x \div m = s /\ x % m = r
<1> DEFINE q == x \div m
           t == x % m
<1>1. q \in Nat /\ t \in Nat /\ t < m /\ x = m * q + t
  <2>1. x \div m \in Nat /\ x % m \in 0 .. m - 1 /\ x = m * (x \div m) + (x % m)
    BY DivMod, Zenon
  <2>2. \A y \in 0 .. m - 1 : y \in Nat /\ y < m
    OBVIOUS
  <2> QED BY <2>1, <2>2, Zenon
<1> HIDE DEF q, t
<1>2. q * m \in Nat /\ s * m \in Nat /\ x = q * m + t
  BY <1>1, Products
<1>3. ~ (q < s)
  <2> SUFFICES ASSUME q < s PROVE FALSE
    OBVIOUS
  <2>1. q * m + m <= s * m
    BY <1>1, Products
  <2> DEFINE y == q * m
             z == s * m
  <2>2. y \in Nat /\ z \in Nat /\ y + m <= z /\ x = y + t /\ x = z + r
    BY <1>2, <2>1
  <2> HIDE DEF y, z
  <2> QED BY <1>1, <2>2
<1>4. ~ (s < q)
  <2> SUFFICES ASSUME s < q PROVE FALSE
    OBVIOUS
  <2>1. s * m + m <= q * m
    BY <1>1, Products
  <2> DEFINE y == q * m
             z == s * m
  <2>2. y \in Nat /\ z \in Nat /\ z + m <= y /\ x = y + t /\ x = z + r
    BY <1>2, <2>1
  <2> HIDE DEF y, z
  <2> QED BY <1>1, <2>2
<1>5. q = s
  BY <1>1, <1>3, <1>4
<1>6. t = r
  <2> DEFINE y == s * m
  <2>1. y \in Nat /\ x = y + t /\ x = y + r
    BY <1>2, <1>5
  <2> HIDE DEF y
  <2> QED BY <1>1, <2>1
<1> QED BY <1>5, <1>6 DEF q, t

\* Dividing twice is dividing by the product.
LEMMA DivDiv ==
  ASSUME NEW a \in Nat \ {0}, NEW b \in Nat \ {0}, NEW x \in Nat
  PROVE  a * b \in Nat \ {0} /\ (x \div a) \div b = x \div (a * b)
<1> DEFINE q == x \div a
           r == x % a
           s == q \div b
           u == q % b
           m == a * b
<1>1. q \in Nat /\ r \in Nat /\ r < a /\ x = a * q + r
  BY DivMod
<1>2. s \in Nat /\ u \in Nat /\ u < b /\ q = b * s + u
  <2> HIDE DEF q
  <2>1. q \div b \in Nat /\ q % b \in 0 .. b - 1 /\ q = b * (q \div b) + (q % b)
    BY <1>1, DivMod, Zenon
  <2>2. \A y \in 0 .. b - 1 : y \in Nat /\ y < b
    OBVIOUS
  <2> QED BY <2>1, <2>2, Zenon
<1> HIDE DEF q, r, s, u
<1>3. m \in Nat /\ m # 0 /\ b * s \in Nat /\ a * u \in Nat /\ u * a \in Nat /\ a * u = u * a
  BY <1>2, Products
<1>4. a * q = a * (b * s) + a * u
  <2>1. (b * s + u) * a = (b * s) * a + u * a
    BY <1>2, <1>3, Products
  <2>2. (b * s + u) * a = a * q /\ (b * s) * a = a * (b * s)
    BY <1>1, <1>2, <1>3, Products
  <2> QED BY <1>3, <2>1, <2>2
<1>5. a * (b * s) = s * m /\ s * m \in Nat
  <2>1. (a * b) * s = a * (b * s)
    BY <1>2, Products
  <2>2. m * s = s * m /\ s * m \in Nat
    <3> HIDE DEF m
    <3> QED BY <1>2, <1>3, Products
  <2> QED BY <2>1, <2>2
<1>6. u * a + a <= b * a /\ b * a = m
  BY <1>2, Products
<1> HIDE DEF m
<1>7. x = s * m + (a * u + r) /\ a * u + r \in Nat /\ a * u + r < m
  <2> DEFINE y == s * m
             z == a * u
  <2>1. y \in Nat /\ z \in Nat /\ a * q = y + z
    BY <1>3, <1>4, <1>5
  <2>2. x = y + z + r
    BY <1>1, <2>1
  <2>3. z + a <= m
    BY <1>3, <1>6
  <2> HIDE DEF y, z
  <2>4. x = y + (z + r) /\ z + r \in Nat /\ z + r < m
    BY <1>1, <1>3, <2>1, <2>2, <2>3
  <2> QED BY <2>4 DEF y, z
<1>8. x \div m = s
  BY <1>2, <1>3, <1>7, DivUnique
<1> QED BY <1>3, <1>8 DEF q, s, m

\* A number below a multiple has a quotient below the factor.
LEMMA DivBound ==
  ASSUME NEW m \in Nat \ {0}, NEW n \in Nat, NEW x \in Nat
  PROVE  x < n * m <=> x \div m < n
<1> DEFINE q == x \div m
<1>1. q \in Nat /\ x % m \in Nat /\ x % m < m /\ x = m * q + (x % m)
  BY DivMod
<1> HIDE DEF q
<1>2. q * m \in Nat /\ n * m \in Nat /\ q * m = m * q
  BY <1>1, Products
<1>3. n <= q => n * m <= q * m
  BY <1>1, Products
<1>4. q < n => q * m + m <= n * m
  BY <1>1, Products
<1> DEFINE y == q * m
           z == n * m
<1>5. y \in Nat /\ z \in Nat /\ x = y + (x % m) /\ (n <= q => z <= y) /\ (q < n => y + m <= z)
  BY <1>1, <1>2, <1>3, <1>4
<1> HIDE DEF y, z
<1>6. x < z <=> q < n
  BY <1>1, <1>5
<1> QED BY <1>6 DEF q, z

-----------------------------------------------------------------------------
(* Functions defined by recursion: Power and SizeAt.                       *)

\* A function that is defined from its value one before exists.
LEMMA Recursion ==
  ASSUME NEW a \in Int, NEW n \in Nat, NEW step \in [1 .. n -> [Int -> Int]]
  PROVE  \E g \in [0 .. n -> Int] : g[0] = a /\ \A k \in 1 .. n : g[k] = step[k][g[k - 1]]
<1> DEFINE Good(j) == \E g \in [0 .. j -> Int] :
                        g[0] = a /\ \A k \in 1 .. j : g[k] = step[k][g[k - 1]]
           T == {j \in 0 .. n : ~Good(j)}
<1> SUFFICES ASSUME T # {} PROVE FALSE
  <2> HIDE DEF Good
  <2>1. n \in 0 .. n
    OBVIOUS
  <2>2. T = {}
    OBVIOUS
  <2>3. Good(n)
    BY <2>1, <2>2
  <2> QED BY <2>3 DEF Good
<1> HIDE DEF Good
<1>1. T \subseteq Nat
  OBVIOUS
<1>2. PICK j \in T : \A i \in T : j <= i
  <2> HIDE DEF T
  <2> QED BY <1>1, LeastNumber
<1>3. j \in 0 .. n /\ ~Good(j)
  OBVIOUS
<1>4. CASE j = 0
  <2> DEFINE g == [k \in 0 .. 0 |-> a]
  <2>1. g \in [0 .. 0 -> Int] /\ g[0] = a /\ \A k \in 1 .. 0 : g[k] = step[k][g[k - 1]]
    OBVIOUS
  <2> HIDE DEF g
  <2>2. Good(0)
    BY <2>1 DEF Good
  <2> QED BY <1>3, <1>4, <2>2
<1>5. CASE j # 0
  <2>1. j - 1 \in 0 .. n /\ j \in 1 .. n /\ ~(j <= j - 1)
    BY <1>3, <1>5
  <2>2. Good(j - 1)
    BY <1>2, <2>1
  <2>3. PICK g \in [0 .. j - 1 -> Int] :
              g[0] = a /\ \A k \in 1 .. j - 1 : g[k] = step[k][g[k - 1]]
    BY <2>2 DEF Good
  <2> DEFINE x == step[j][g[j - 1]]
             h == [k \in 0 .. j |-> IF k = j THEN x ELSE g[k]]
  <2>4. x \in Int
    <3>1. step[j] \in [Int -> Int] /\ g[j - 1] \in Int
      BY <2>1
    <3> QED BY <3>1
  <2>5. \A k \in 0 .. j - 1 : h[k] = g[k]
    BY <2>1
  <2>6. h[j] = x /\ h \in [0 .. j -> Int]
    <3> HIDE DEF x
    <3>1. \A k \in 0 .. j : k = j \/ k \in 0 .. j - 1
      OBVIOUS
    <3> QED BY <2>1, <2>4, <3>1
  <2> HIDE DEF h
  <2>7. ASSUME NEW k \in 1 .. j PROVE h[k] = step[k][h[k - 1]]
    <3>1. CASE k = j
      <4>1. j - 1 \in 0 .. j - 1
        BY <2>1
      <4> QED BY <2>5, <2>6, <3>1, <4>1
    <3>2. CASE k # j
      <4>1. k \in 1 .. j - 1 /\ k - 1 \in 0 .. j - 1 /\ k \in 0 .. j - 1
        BY <3>2
      <4> QED BY <2>3, <2>5, <4>1
    <3> QED BY <3>1, <3>2
  <2>8. 0 \in 0 .. j - 1
    BY <2>1
  <2> QED BY <1>3, <2>3, <2>5, <2>6, <2>7, <2>8 DEF Good
<1> QED BY <1>4, <1>5

\* Power's function, and the one CHOOSE finds.
IsPower(p, base, n) == p = [k \in 0 .. n |-> IF k = 0 THEN 1 ELSE base * p[k - 1]]
PowerFunction(base, n) == CHOOSE p : IsPower(p, base, n)

\* Power's function exists.
LEMMA PowerExists ==
  ASSUME NEW base \in Nat, NEW n \in Nat
  PROVE  IsPower(PowerFunction(base, n), base, n)
<1> DEFINE step == [k \in 1 .. n |-> [x \in Int |-> base * x]]
<1>1. step \in [1 .. n -> [Int -> Int]]
  <2>1. \A x \in Int : base * x \in Int
    OBVIOUS
  <2> QED BY <2>1
<1>2. PICK g \in [0 .. n -> Int] : g[0] = 1 /\ \A k \in 1 .. n : g[k] = step[k][g[k - 1]]
  <2> HIDE DEF step
  <2>1. \A f \in [1 .. n -> [Int -> Int]] : 
           \E g \in [0 .. n -> Int] : g[0] = 1 /\ \A k \in 1 .. n : g[k] = f[k][g[k - 1]]
    <3> SUFFICES ASSUME NEW f \in [1 .. n -> [Int -> Int]]
        PROVE \E g \in [0 .. n -> Int] : g[0] = 1 /\ \A k \in 1 .. n : g[k] = f[k][g[k - 1]]
      OBVIOUS
    <3>1. 1 \in Int
      OBVIOUS
    <3> QED BY <3>1, Recursion, Zenon
  <2> QED BY <1>1, <2>1
<1>3. ASSUME NEW k \in 0 .. n PROVE g[k] = IF k = 0 THEN 1 ELSE base * g[k - 1]
  <2>1. CASE k # 0
    <3>1. k \in 1 .. n /\ k - 1 \in 0 .. n
      BY <2>1
    <3>2. g[k - 1] \in Int
      BY <3>1
    <3> QED BY <1>2, <2>1, <3>1, <3>2
  <2> QED BY <1>2, <2>1
<1>4. IsPower(g, base, n)
  <2>1. g = [k \in 0 .. n |-> g[k]]
    OBVIOUS
  <2> QED BY <1>3, <2>1 DEF IsPower
<1> QED BY <1>4 DEF PowerFunction

\* Power is its value.
LEMMA PowerIs ==
  ASSUME NEW base \in Nat, NEW n \in Nat, NEW p, IsPower(p, base, n), NEW j \in 0 .. n
  PROVE  p[j] = Power(base, j)
<1> DEFINE F(m) == PowerFunction(base, m)
           Bad(i) == \E m \in Nat : \E q : i \in 0 .. m /\ IsPower(q, base, m) /\ q[i] # F(i)[i]
           T == {i \in Nat : Bad(i)}
<1>1. \A m \in Nat : Power(base, m) = F(m)[m] /\ IsPower(F(m), base, m)
  BY PowerExists DEF Power, PowerFunction, IsPower
<1> HIDE DEF F
<1> SUFFICES ASSUME T # {} PROVE FALSE
  <2>1. ~Bad(j)
    OBVIOUS
  <2> QED BY <1>1, <2>1
<1> HIDE DEF Bad
<1>2. PICK i \in T : \A k \in T : i <= k
  BY LeastNumber
<1>3. i \in Nat /\ Bad(i)
  OBVIOUS
<1>4. PICK m \in Nat : \E q : i \in 0 .. m /\ IsPower(q, base, m) /\ q[i] # F(i)[i]
  BY <1>3 DEF Bad
<1>5. PICK q : i \in 0 .. m /\ IsPower(q, base, m) /\ q[i] # F(i)[i]
  BY <1>4
<1>6. IsPower(F(i), base, i) /\ i \in 0 .. i
  BY <1>1, <1>3
<1>7. CASE i = 0
  BY <1>5, <1>6, <1>7 DEF IsPower
<1>8. CASE i # 0
  <2> DEFINE k == i - 1
  <2>1. k \in Nat /\ k \in 0 .. m /\ k \in 0 .. i /\ ~(i <= k)
    BY <1>3, <1>5, <1>8
  <2>2. q[i] = base * q[k] /\ F(i)[i] = base * F(i)[k]
    BY <1>5, <1>6, <1>8 DEF IsPower
  <2>3. ~Bad(k)
    BY <1>2, <2>1
  <2> HIDE DEF k
  <2>4. q[k] = F(k)[k] /\ F(i)[k] = F(k)[k]
    BY <1>3, <1>5, <1>6, <2>1, <2>3 DEF Bad
  <2> QED BY <1>5, <2>2, <2>4
<1> QED BY <1>7, <1>8

\* The powers of a base, one after the other.
LEMMA PowerNext ==
  ASSUME NEW base \in Nat
  PROVE  /\ Power(base, 0) = 1
         /\ \A n \in Nat : Power(base, n + 1) = base * Power(base, n)
<1> DEFINE F(m) == PowerFunction(base, m)
<1>1. \A m \in Nat : IsPower(F(m), base, m)
  BY PowerExists
<1>2. \A m \in Nat : \A j \in 0 .. m : F(m)[j] = Power(base, j)
  BY <1>1, PowerIs
<1> HIDE DEF F
<1>3. Power(base, 0) = 1
  <2>1. 0 \in Nat /\ 0 \in 0 .. 0
    OBVIOUS
  <2>2. F(0)[0] = 1
    BY <1>1, <2>1 DEF IsPower
  <2> QED BY <1>2, <2>1, <2>2
<1>4. ASSUME NEW n \in Nat PROVE Power(base, n + 1) = base * Power(base, n)
  <2> DEFINE m == n + 1
  <2>1. m \in Nat /\ m \in 0 .. m /\ n \in 0 .. m /\ m # 0 /\ m - 1 = n
    OBVIOUS
  <2> HIDE DEF m
  <2>2. F(m)[m] = base * F(m)[n]
    BY <1>1, <2>1 DEF IsPower
  <2>3. F(m)[m] = Power(base, m) /\ F(m)[n] = Power(base, n)
    BY <1>2, <2>1
  <2> QED BY <2>2, <2>3 DEF m
<1> QED BY <1>3, <1>4

\* A power is greater than its exponent, so that every number has digits enough.
LEMMA PowerGrows ==
  ASSUME NEW base \in {8, 10, 16}, NEW n \in Nat
  PROVE  Power(base, n) \in Nat /\ Power(base, n) > n
<1> DEFINE P(k) == Power(base, k)
           T == {k \in Nat : ~(P(k) \in Nat /\ P(k) > k)}
<1>1. P(0) = 1 /\ \A k \in Nat : P(k + 1) = base * P(k)
  BY PowerNext
<1> HIDE DEF P
<1> SUFFICES ASSUME T # {} PROVE FALSE
  BY DEF P
<1>2. PICK k \in T : \A i \in T : k <= i
  BY LeastNumber
<1>3. k \in Nat /\ ~(P(k) \in Nat /\ P(k) > k) /\ k # 0
  BY <1>1
<1>4. PICK i \in Nat : k = i + 1
  <2>1. k - 1 \in Nat /\ k = (k - 1) + 1
    BY <1>3
  <2> QED BY <2>1
<1>5. P(i) \in Nat /\ P(i) > i
  BY <1>2, <1>4
<1>6. P(k) = base * P(i)
  BY <1>1, <1>4
<1>7. base * P(i) \in Nat /\ base * P(i) >= 2 * P(i)
  <2>1. CASE base = 8
    BY <1>5, <2>1
  <2>2. CASE base = 10
    BY <1>5, <2>2
  <2>3. CASE base = 16
    BY <1>5, <2>3
  <2> QED BY <2>1, <2>2, <2>3
<1> DEFINE y == base * P(i)
<1>8. y \in Nat /\ y >= 2 * P(i) /\ P(k) = y
  BY <1>6, <1>7
<1> HIDE DEF y
<1> QED BY <1>3, <1>4, <1>5, <1>8

\* The greater the exponent, the greater the power.
LEMMA PowerMonotone ==
  ASSUME NEW base \in {8, 10, 16}, NEW m \in Nat, NEW n \in Nat, m <= n
  PROVE  Power(base, m) <= Power(base, n)
<1> DEFINE P(k) == Power(base, k)
           T == {k \in Nat : m <= k /\ ~(P(m) <= P(k))}
<1>1. /\ \A k \in Nat : P(k + 1) = base * P(k)
      /\ \A k \in Nat : P(k) \in Nat
  <2>1. base \in Nat
    OBVIOUS
  <2>2. \A k \in Nat : P(k + 1) = base * P(k)
    BY <2>1, PowerNext
  <2>3. \A k \in Nat : P(k) \in Nat
    BY PowerGrows
  <2> QED BY <2>2, <2>3
<1> HIDE DEF P
<1> SUFFICES ASSUME T # {} PROVE FALSE
  BY DEF P
<1>2. PICK k \in T : \A i \in T : k <= i
  BY LeastNumber
<1>3. k \in Nat /\ m <= k /\ ~(P(m) <= P(k)) /\ k # m
  BY <1>1
<1>4. PICK i \in Nat : k = i + 1 /\ m <= i
  <2>1. k - 1 \in Nat /\ k = (k - 1) + 1 /\ m <= k - 1
    BY <1>3
  <2> QED BY <2>1
<1>5. P(m) <= P(i)
  BY <1>2, <1>4
<1>6. P(k) = base * P(i) /\ P(i) \in Nat /\ P(m) \in Nat
  BY <1>1, <1>4
<1>7. base * P(i) \in Nat /\ base * P(i) >= P(i)
  <2>1. CASE base = 8
    BY <1>6, <2>1
  <2>2. CASE base = 10
    BY <1>6, <2>2
  <2>3. CASE base = 16
    BY <1>6, <2>3
  <2> QED BY <2>1, <2>2, <2>3
<1> DEFINE y == base * P(i)
<1>8. y \in Nat /\ y >= P(i) /\ P(k) = y
  BY <1>6, <1>7
<1> HIDE DEF y
<1> QED BY <1>3, <1>5, <1>6, <1>8


-----------------------------------------------------------------------------
(* The digits of a number.                                                 *)

Bases == {8, 10, 16}

\* How many digits v has: none for 0.
DigitsOf(v, base) ==
  CHOOSE k \in Nat : v < Power(base, k) /\ \A i \in Nat : v < Power(base, i) => k <= i

\* A number fits in as many digits as it has or more, and in no fewer.
LEMMA DigitsCount ==
  ASSUME NEW base \in Bases, NEW v \in Nat
  PROVE  /\ DigitsOf(v, base) \in Nat
         /\ \A i \in Nat : v < Power(base, i) <=> DigitsOf(v, base) <= i
<1> DEFINE P(i) == Power(base, i)
           T == {i \in Nat : v < P(i)}
<1>1. /\ \A i \in Nat : P(i) \in Nat /\ P(i) > i
      /\ \A i, j \in Nat : i <= j => P(i) <= P(j)
  BY PowerGrows, PowerMonotone DEF Bases
<1> HIDE DEF P
<1>2. T # {} /\ T \subseteq Nat
  BY <1>1
<1>3. \E k \in T : \A i \in T : k <= i
  <2> HIDE DEF T
  <2> QED BY <1>2, LeastNumber
<1>4. \E k \in Nat : v < P(k) /\ \A i \in Nat : v < P(i) => k <= i
  BY <1>3
<1> DEFINE n == CHOOSE k \in Nat : v < P(k) /\ \A i \in Nat : v < P(i) => k <= i
<1>5. n \in Nat /\ v < P(n) /\ \A i \in Nat : v < P(i) => n <= i
  BY <1>4
<1>6. n = DigitsOf(v, base)
  BY DEF DigitsOf, P
<1> HIDE DEF n
<1>7. \A i \in Nat : n <= i => v < P(i)
  BY <1>1, <1>5
<1> QED BY <1>5, <1>6, <1>7 DEF P

\* Dividing by the base takes one digit away.
LEMMA DigitsFewer ==
  ASSUME NEW base \in Bases, NEW v \in Nat
  PROVE  /\ v \div base \in Nat
         /\ v = 0 => v \div base = 0 /\ DigitsOf(v, base) = 0
         /\ v # 0 => /\ DigitsOf(v, base) \in Nat \ {0}
                     /\ DigitsOf(v \div base, base) = DigitsOf(v, base) - 1
<1> DEFINE D(x) == DigitsOf(x, base)
           P(i) == Power(base, i)
           w == v \div base
<1>1. base \in Nat \ {0}
  BY DEF Bases
<1>2. w \in Nat /\ (v = 0 => w = 0)
  BY <1>1, DivMod DEF Bases
<1>3. \A x \in Nat : D(x) \in Nat /\ \A i \in Nat : x < P(i) <=> D(x) <= i
  BY DigitsCount
<1>4. P(0) = 1 /\ \A i \in Nat : P(i) \in Nat /\ P(i + 1) = base * P(i)
  BY <1>1, PowerNext, PowerGrows DEF Bases
<1> HIDE DEF D, P
<1>5. v = 0 <=> D(v) <= 0
  <2>1. 0 \in Nat /\ (v < P(0) <=> D(v) <= 0)
    BY <1>3
  <2>2. v < 1 <=> v = 0
    OBVIOUS
  <2> QED BY <1>4, <2>1, <2>2
<1>6. ASSUME NEW i \in Nat PROVE v < P(i + 1) <=> w < P(i)
  <2>1. v < P(i) * base <=> v \div base < P(i)
    BY <1>1, <1>4, DivBound
  <2>2. P(i) * base = base * P(i)
    BY <1>1, <1>4, Products
  <2> QED BY <1>4, <2>1, <2>2
<1> HIDE DEF w
<1>7. ASSUME NEW i \in Nat PROVE D(v) <= i + 1 <=> D(w) <= i
  <2>1. i + 1 \in Nat
    OBVIOUS
  <2>2. v < P(i + 1) <=> D(v) <= i + 1
    BY <1>3, <2>1
  <2>3. w < P(i) <=> D(w) <= i
    BY <1>2, <1>3
  <2> QED BY <1>6, <2>2, <2>3
<1>8. v # 0 => D(w) = D(v) - 1
  <2> SUFFICES ASSUME v # 0 PROVE D(w) = D(v) - 1
    OBVIOUS
  <2>1. D(v) \in Nat \ {0} /\ D(w) \in Nat
    BY <1>2, <1>3, <1>5
  <2>2. D(w) <= D(v) - 1
    <3>1. PICK k \in Nat : D(v) = k + 1
      <4>1. D(v) - 1 \in Nat /\ D(v) = (D(v) - 1) + 1
        BY <2>1
      <4> QED BY <4>1
    <3> QED BY <1>7, <2>1, <3>1
  <2>3. D(v) <= D(w) + 1
    BY <1>7, <2>1
  <2> QED BY <2>1, <2>2, <2>3
<1>9. v = 0 => D(v) = 0
  BY <1>3, <1>5
<1>10. v # 0 => D(v) \in Nat \ {0}
  BY <1>3, <1>5
<1> QED BY <1>2, <1>8, <1>9, <1>10 DEF D, w

\* The number that Numeral chooses.
LEMMA ChosenDigits ==
  ASSUME NEW base \in Bases, NEW v \in Nat, \E k \in 1 .. 32 : v < Power(base, k)
  PROVE  (CHOOSE k \in 1 .. 32 : v < Power(base, k) /\ (k = 1 \/ v >= Power(base, k - 1)))
         = IF v = 0 THEN 1 ELSE DigitsOf(v, base)
<1> DEFINE D == DigitsOf(v, base)
           P(i) == Power(base, i)
           n == IF v = 0 THEN 1 ELSE D
           Fit(k) == v < P(k) /\ (k = 1 \/ v >= P(k - 1))
<1>1. D \in Nat /\ \A i \in Nat : v < P(i) <=> D <= i
  BY DigitsCount
<1>2. (v = 0 => D = 0) /\ (v # 0 => D # 0)
  BY DigitsFewer
<1>3. \A i \in Nat : P(i) \in Nat
  BY PowerGrows DEF Bases
<1> HIDE DEF P, D
<1>4. PICK m \in 1 .. 32 : v < P(m)
  BY DEF P
<1>5. D <= m
  BY <1>1, <1>4
<1>6. n \in 1 .. 32
  BY <1>1, <1>2, <1>5
<1>7. Fit(n)
  <2>1. CASE v = 0
    BY <1>1, <1>2, <2>1
  <2>2. CASE v # 0
    <3>1. n = D /\ D \in Nat \ {0} /\ D - 1 \in Nat
      BY <1>1, <1>2, <2>2
    <3>2. v < P(D)
      BY <1>1
    <3>3. ~(v < P(D - 1))
      BY <1>1, <3>1
    <3> QED BY <1>3, <3>1, <3>2, <3>3
  <2> QED BY <2>1, <2>2
<1>8. \A k \in 1 .. 32 : Fit(k) => k = n
  <2> SUFFICES ASSUME NEW k \in 1 .. 32, Fit(k) PROVE k = n
    OBVIOUS
  <2>1. D <= k
    BY <1>1
  <2>2. k # 1 => D > k - 1
    <3> SUFFICES ASSUME k # 1 PROVE D > k - 1
      OBVIOUS
    <3>1. k - 1 \in Nat /\ P(k - 1) \in Nat /\ v >= P(k - 1)
      BY <1>3
    <3> QED BY <1>1, <3>1
  <2>3. k # 1 => D = k /\ v # 0
    BY <1>1, <1>2, <2>1, <2>2
  <2>4. k = 1 => D <= 1
    BY <2>1
  <2> QED BY <1>1, <1>2, <2>3, <2>4
<1> HIDE DEF n, Fit
<1>9. (CHOOSE k \in 1 .. 32 : Fit(k)) = n
  BY <1>6, <1>7, <1>8
<1> QED BY <1>9 DEF n, Fit, P, D

-----------------------------------------------------------------------------
(* What the loop that fills buffer[] leaves there.                         *)

\* The length of the buffer, what is in it from its start on, and the equation of the loop.
Longer(m, n) == IF n > m THEN n ELSE m

Filled(v, w, isUpper, base, pad) ==
  [j \in 1 .. Longer(DigitsOf(v, base), w) |->
     IF j <= DigitsOf(v, base) THEN Digit((v \div Power(base, j - 1)) % base, isUpper) ELSE pad]

Symbol(v, isUpper, base, pad) == IF v # 0 THEN Digit(v % base, isUpper) ELSE pad

IsFill(f, isUpper, base, pad) ==
  f = [v \in Nat |-> [w \in Int |->
         IF v = 0 /\ w <= 0 THEN <<>>
         ELSE <<Symbol(v, isUpper, base, pad)>> \o f[v \div base][w - 1]]]

\* A digit is a character.
LEMMA DigitIsChar ==
  ASSUME NEW base \in Bases, NEW v \in Nat, NEW isUpper \in BOOLEAN
  PROVE  Digit(v % base, isUpper) \in Char
<1>1. v % base \in 0 .. 15
  <2>1. base \in Nat \ {0} /\ base <= 16
    BY DEF Bases
  <2>2. v % base \in 0 .. base - 1
    BY <2>1, DivMod
  <2> QED BY <2>1, <2>2
<1> QED BY <1>1, OvprintfAssumption

\* How long the buffer gets.
LEMMA FilledIs ==
  ASSUME NEW base \in Bases, NEW isUpper \in BOOLEAN, NEW pad \in Char,
         NEW v \in Nat, NEW w \in Int
  PROVE  /\ Longer(DigitsOf(v, base), w) \in Nat
         /\ Filled(v, w, isUpper, base, pad) \in Seq(Char)
         /\ Len(Filled(v, w, isUpper, base, pad)) = Longer(DigitsOf(v, base), w)
         /\ \A j \in 1 .. Longer(DigitsOf(v, base), w) :
              Filled(v, w, isUpper, base, pad)[j]
              = IF j <= DigitsOf(v, base) THEN Digit((v \div Power(base, j - 1)) % base, isUpper)
                ELSE pad
<1> DEFINE l == Longer(DigitsOf(v, base), w)
           e(j) == IF j <= DigitsOf(v, base) THEN Digit((v \div Power(base, j - 1)) % base, isUpper)
                   ELSE pad
<1>1. DigitsOf(v, base) \in Nat
  BY DigitsCount
<1>2. l \in Nat
  BY <1>1 DEF Longer
<1>3. ASSUME NEW j \in 1 .. l PROVE e(j) \in Char
  <2>1. CASE j <= DigitsOf(v, base)
    <3>1. j - 1 \in Nat
      OBVIOUS
    <3>2. Power(base, j - 1) \in Nat \ {0}
      BY <3>1, PowerGrows DEF Bases
    <3>3. v \div Power(base, j - 1) \in Nat
      BY <3>2, DivMod
    <3> QED BY <2>1, <3>3, DigitIsChar
  <2> QED BY <2>1
<1>4. Filled(v, w, isUpper, base, pad) = [j \in 1 .. l |-> e(j)]
  BY DEF Filled
<1> HIDE DEF l, e
<1>5. /\ Filled(v, w, isUpper, base, pad) \in Seq(Char)
      /\ Len(Filled(v, w, isUpper, base, pad)) = l
      /\ \A j \in 1 .. l : Filled(v, w, isUpper, base, pad)[j] = e(j)
  BY <1>2, <1>3, <1>4
<1> QED BY <1>2, <1>5 DEF l, e

\* It satisfies the equation of the loop: one character, and the buffer of the rest.
LEMMA FilledNext ==
  ASSUME NEW base \in Bases, NEW isUpper \in BOOLEAN, NEW pad \in Char,
         NEW v \in Nat, NEW w \in Int
  PROVE  Filled(v, w, isUpper, base, pad)
         = IF v = 0 /\ w <= 0 THEN <<>>
           ELSE <<Symbol(v, isUpper, base, pad)>> \o Filled(v \div base, w - 1, isUpper, base, pad)
<1> DEFINE n == DigitsOf(v, base)
           x == v \div base
           m == DigitsOf(x, base)
           l == Longer(n, w)
           k == Longer(m, w - 1)
           f == Filled(v, w, isUpper, base, pad)
           g == Filled(x, w - 1, isUpper, base, pad)
           s == Symbol(v, isUpper, base, pad)
           P(i) == Power(base, i)
           d(i, y) == Digit((y \div P(i)) % base, isUpper)
<1>1. /\ x \in Nat /\ n \in Nat /\ m \in Nat
      /\ v = 0 => x = 0 /\ n = 0 /\ m = 0
      /\ v # 0 => n # 0 /\ m = n - 1
  BY DigitsFewer, DigitsCount
<1>2. /\ l \in Nat /\ f \in Seq(Char) /\ Len(f) = l
      /\ \A j \in 1 .. l : f[j] = IF j <= n THEN d(j - 1, v) ELSE pad
  BY FilledIs
<1>3. /\ k \in Nat /\ g \in Seq(Char) /\ Len(g) = k
      /\ \A j \in 1 .. k : g[j] = IF j <= m THEN d(j - 1, x) ELSE pad
  <2> DEFINE F(y, z) == Filled(y, z, isUpper, base, pad)
             L(y, z) == Longer(DigitsOf(y, base), z)
  <2>1. ASSUME NEW y \in Nat, NEW z \in Int
        PROVE  /\ L(y, z) \in Nat /\ F(y, z) \in Seq(Char) /\ Len(F(y, z)) = L(y, z)
               /\ \A j \in 1 .. L(y, z) :
                    F(y, z)[j] = IF j <= DigitsOf(y, base) THEN d(j - 1, y) ELSE pad
    BY FilledIs
  <2>2. w - 1 \in Int
    OBVIOUS
  <2> HIDE DEF F, L, d, x
  <2>3. /\ L(x, w - 1) \in Nat /\ F(x, w - 1) \in Seq(Char) /\ Len(F(x, w - 1)) = L(x, w - 1)
        /\ \A j \in 1 .. L(x, w - 1) :
              F(x, w - 1)[j] = IF j <= DigitsOf(x, base) THEN d(j - 1, x) ELSE pad
    BY <1>1, <2>1, <2>2
  <2> QED BY <2>3 DEF F, L
<1>4. s \in Char
  BY DigitIsChar DEF Symbol
<1>5. s = IF v # 0 THEN d(0, v) ELSE pad
  <2>1. base \in Nat
    BY DEF Bases
  <2>2. P(0) = 1
    BY <2>1, PowerNext
  <2>3. v \div 1 = v
    OBVIOUS
  <2> QED BY <2>2, <2>3 DEF Symbol
<1>6. \A i \in Nat : d(i, x) = d(i + 1, v)
  <2> SUFFICES ASSUME NEW i \in Nat PROVE d(i, x) = d(i + 1, v)
    OBVIOUS
  <2>1. base \in Nat \ {0} /\ P(i) \in Nat \ {0}
    BY PowerGrows DEF Bases
  <2>2. (v \div base) \div P(i) = v \div (base * P(i))
    BY <2>1, DivDiv
  <2>3. P(i + 1) = base * P(i)
    BY <2>1, PowerNext
  <2> QED BY <2>2, <2>3
<1>7. CASE v = 0 /\ w <= 0
  <2>1. l = 0
    BY <1>1, <1>7 DEF Longer
  <2> QED BY <1>2, <1>7, <2>1
<1>8. CASE ~(v = 0 /\ w <= 0)
  <2>1. l = k + 1
    BY <1>1, <1>8 DEF Longer
  <2> HIDE DEF f, g, s, d, x, n, m, l, k
  <2>2. /\ <<s>> \o g \in Seq(Char) /\ Len(<<s>> \o g) = l
        /\ (<<s>> \o g)[1] = s
        /\ \A j \in 1 .. k : (<<s>> \o g)[j + 1] = g[j]
    BY <1>3, <1>4, <2>1
  <2>3. l # 0 /\ f[1] = s
    <3>1. 1 \in 1 .. l /\ f[1] = IF 1 <= n THEN d(1 - 1, v) ELSE pad
      BY <1>2, <1>3, <2>1
    <3> QED BY <1>1, <1>5, <3>1
  <2>4. ASSUME NEW j \in 1 .. k PROVE f[j + 1] = g[j]
    <3>1. PICK i \in Nat : j = i + 1
      <4>1. j - 1 \in Nat /\ j = (j - 1) + 1
        OBVIOUS
      <4> QED BY <4>1
    <3>2. g[j] = IF j <= m THEN d(i, x) ELSE pad
      BY <1>3, <3>1
    <3>3. j + 1 \in 1 .. l /\ (j + 1) - 1 = i + 1
      BY <1>3, <2>1, <3>1
    <3>4. f[j + 1] = IF j + 1 <= n THEN d(i + 1, v) ELSE pad
      BY <1>2, <3>3
    <3>5. j <= m <=> j + 1 <= n
      BY <1>1
    <3>6. d(i, x) = d(i + 1, v)
      BY <1>6
    <3> QED BY <3>2, <3>4, <3>5, <3>6
  <2>5. ASSUME NEW j \in 1 .. l PROVE f[j] = (<<s>> \o g)[j]
    <3>1. CASE j = 1
      BY <2>2, <2>3, <3>1
    <3>2. CASE j # 1
      <4>1. PICK i \in 1 .. k : j = i + 1
        <5>1. j - 1 \in 1 .. k /\ j = (j - 1) + 1
          BY <1>3, <2>1, <3>2
        <5> QED BY <5>1
      <4> QED BY <2>2, <2>4, <4>1
    <3> QED BY <3>1, <3>2
  <2>6. f = <<s>> \o g
    BY <1>2, <2>2, <2>5, SeqEqual
  <2> QED BY <1>8, <2>6 DEF f, g, s, x
<1> QED BY <1>7, <1>8

\* So whatever satisfies that equation is it: the loop ends, with that buffer.
LEMMA FillIsFilled ==
  ASSUME NEW base \in Bases, NEW isUpper \in BOOLEAN, NEW pad \in Char,
         NEW f, IsFill(f, isUpper, base, pad), NEW v \in Nat, NEW w \in Int
  PROVE  f[v][w] = Filled(v, w, isUpper, base, pad)
<1> DEFINE F(y, z) == Filled(y, z, isUpper, base, pad)
           L(y, z) == Longer(DigitsOf(y, base), z)
           s(y) == Symbol(y, isUpper, base, pad)
           T == {k \in Nat : \E y \in Nat, z \in Int : L(y, z) = k /\ f[y][z] # F(y, z)}
<1>1. ASSUME NEW y \in Nat, NEW z \in Int
      PROVE  f[y][z] = IF y = 0 /\ z <= 0 THEN <<>> ELSE <<s(y)>> \o f[y \div base][z - 1]
  <2> DEFINE G(a, b) == IF a = 0 /\ b <= 0 THEN <<>> ELSE <<s(a)>> \o f[a \div base][b - 1]
  <2>1. f = [a \in Nat |-> [b \in Int |-> G(a, b)]]
    BY DEF IsFill
  <2> HIDE DEF G
  <2>2. f[y][z] = G(y, z)
    BY <2>1
  <2> QED BY <2>2 DEF G
<1>2. ASSUME NEW y \in Nat, NEW z \in Int
      PROVE  F(y, z) = IF y = 0 /\ z <= 0 THEN <<>> ELSE <<s(y)>> \o F(y \div base, z - 1)
  BY FilledNext
<1>3. ASSUME NEW y \in Nat, NEW z \in Int, ~(y = 0 /\ z <= 0)
      PROVE  /\ y \div base \in Nat /\ z - 1 \in Int
             /\ L(y, z) \in Nat /\ L(y \div base, z - 1) = L(y, z) - 1
  <2>1. /\ y \div base \in Nat /\ DigitsOf(y, base) \in Nat
        /\ y = 0 => y \div base = 0 /\ DigitsOf(y, base) = 0
        /\ y # 0 => DigitsOf(y, base) # 0 /\ DigitsOf(y \div base, base) = DigitsOf(y, base) - 1
    BY DigitsFewer, DigitsCount
  <2> QED BY <1>3, <2>1 DEF Longer
<1>4. ASSUME NEW y \in Nat, NEW z \in Int PROVE L(y, z) \in Nat
  BY FilledIs
<1> HIDE DEF F, L, s
<1> SUFFICES ASSUME T # {} PROVE FALSE
  <2>1. L(v, w) \in Nat
    BY <1>4
  <2> QED BY <2>1 DEF F
<1>5. PICK k \in T : \A i \in T : k <= i
  <2> HIDE DEF T
  <2>1. T \subseteq Nat
    BY DEF T
  <2> QED BY <2>1, LeastNumber
<1>6. PICK y \in Nat, z \in Int : L(y, z) = k /\ f[y][z] # F(y, z)
  BY <1>5
<1>7. CASE y = 0 /\ z <= 0
  BY <1>1, <1>2, <1>6, <1>7
<1>8. CASE ~(y = 0 /\ z <= 0)
  <2> DEFINE q == y \div base
             t == z - 1
  <2>1. q \in Nat /\ t \in Int /\ L(q, t) = k - 1 /\ k \in Nat
    BY <1>3, <1>6, <1>8
  <2>2. f[y][z] = <<s(y)>> \o f[q][t] /\ F(y, z) = <<s(y)>> \o F(q, t)
    BY <1>1, <1>2, <1>8
  <2> HIDE DEF q, t
  <2>3. L(q, t) \in Nat /\ ~(k <= L(q, t))
    BY <1>4, <2>1
  <2>4. f[q][t] = F(q, t)
    BY <1>5, <2>1, <2>3
  <2> QED BY <1>6, <2>2, <2>4
<1> QED BY <1>7, <1>8

\* Something satisfies the equation.
LEMMA FillExists ==
  ASSUME NEW base \in Bases, NEW isUpper \in BOOLEAN, NEW pad \in Char
  PROVE  \E f : IsFill(f, isUpper, base, pad)
<1> DEFINE F(y, z) == Filled(y, z, isUpper, base, pad)
           s(y) == Symbol(y, isUpper, base, pad)
           f == [y \in Nat |-> [z \in Int |-> F(y, z)]]
<1>1. ASSUME NEW y \in Nat, NEW z \in Int
      PROVE  F(y, z) = IF y = 0 /\ z <= 0 THEN <<>> ELSE <<s(y)>> \o F(y \div base, z - 1)
  BY FilledNext
<1>2. ASSUME NEW y \in Nat PROVE y \div base \in Nat
  BY DigitsFewer
<1> HIDE DEF F, s
<1>3. ASSUME NEW y \in Nat, NEW z \in Int
      PROVE  F(y, z) = IF y = 0 /\ z <= 0 THEN <<>> ELSE <<s(y)>> \o f[y \div base][z - 1]
  <2> DEFINE q == y \div base
             t == z - 1
  <2>1. q \in Nat /\ t \in Int
    BY <1>2
  <2>2. F(y, z) = IF y = 0 /\ z <= 0 THEN <<>> ELSE <<s(y)>> \o F(q, t)
    BY <1>1
  <2> HIDE DEF q, t
  <2>3. f[q][t] = F(q, t)
    BY <2>1
  <2> HIDE DEF f
  <2>4. F(y, z) = IF y = 0 /\ z <= 0 THEN <<>> ELSE <<s(y)>> \o f[q][t]
    BY <2>2, <2>3
  <2> QED BY <2>4 DEF q, t
<1> DEFINE G(y, z) == IF y = 0 /\ z <= 0 THEN <<>> ELSE <<s(y)>> \o f[y \div base][z - 1]
<1>4. \A y \in Nat, z \in Int : F(y, z) = G(y, z)
  BY <1>3
<1>5. f = [y \in Nat |-> [z \in Int |-> G(y, z)]]
  <2> HIDE DEF G
  <2> QED BY <1>4
<1> HIDE DEF f
<1>6. IsFill(f, isUpper, base, pad)
  BY <1>5 DEF IsFill, G, s
<1> QED BY <1>6

\* What DigitBuffer is, with n digits.
BufferOf(value, n, width, isUpper, base, pad) ==
  [j \in 1 .. Longer(n, width) |->
     IF j <= n THEN Digit((value \div Power(base, j - 1)) % base, isUpper) ELSE pad]

\* buffer[] of ovprintf_print_number_: the digits from the last to the first, then the padding.
LEMMA BufferHolds ==
  ASSUME NEW base \in Bases, NEW isUpper \in BOOLEAN, NEW zeroFill \in BOOLEAN,
         NEW value \in Nat, NEW width \in Int
  PROVE  LET n == IF value = 0 THEN 1 ELSE DigitsOf(value, base)
             pad == IF zeroFill THEN "0" ELSE Space
         IN  /\ n \in Nat \ {0} /\ Longer(n, width) \in Nat \ {0}
             /\ pad \in Char
             /\ DigitBuffer(value, isUpper, base, width, zeroFill)
                = BufferOf(value, n, width, isUpper, base, pad)
             /\ BufferOf(value, n, width, isUpper, base, pad) \in Seq(Char)
<1> DEFINE n == IF value = 0 THEN 1 ELSE DigitsOf(value, base)
           pad == IF zeroFill THEN "0" ELSE Space
           f == CHOOSE g : IsFill(g, isUpper, base, pad)
           x == value \div base
           b == BufferOf(value, n, width, isUpper, base, pad)
           d == Digit(value % base, isUpper)
           g == Filled(x, width - 1, isUpper, base, pad)
<1>1. pad \in Char
  <2>1. Digit(0, FALSE) \in Char
    <3>1. 0 \in 0 .. 15 /\ FALSE \in BOOLEAN
      OBVIOUS
    <3> QED BY <3>1, OvprintfAssumption, Zenon
  <2>2. Digit(0, FALSE) = "0"
    BY DEF Digit, Digits
  <2> QED BY <2>1, <2>2, OvprintfAssumption
<1>2. DigitBuffer(value, isUpper, base, width, zeroFill) = <<d>> \o f[x][width - 1]
  BY DEF DigitBuffer, IsFill, Symbol
<1>3. IsFill(f, isUpper, base, pad)
  <2> HIDE DEF pad
  <2> QED BY <1>1, FillExists
<1> HIDE DEF f
<1>4. /\ DigitsOf(value, base) \in Nat /\ x \in Nat
      /\ value = 0 => x = 0 /\ DigitsOf(value, base) = 0 /\ DigitsOf(x, base) = 0
      /\ value # 0 => DigitsOf(value, base) # 0 /\ DigitsOf(x, base) = DigitsOf(value, base) - 1
  BY DigitsFewer, DigitsCount
<1>5. f[x][width - 1] = g
  <2> HIDE DEF pad, x
  <2>1. width - 1 \in Int
    OBVIOUS
  <2> QED BY <1>1, <1>3, <1>4, <2>1, FillIsFilled
<1>6. CASE value # 0
  <2>1. Filled(value, width, isUpper, base, pad) = <<d>> \o g
    <3> HIDE DEF pad
    <3>1. Filled(value, width, isUpper, base, pad)
          = <<Symbol(value, isUpper, base, pad)>> \o g
      BY <1>1, <1>6, FilledNext
    <3> QED BY <1>6, <3>1 DEF Symbol
  <2>2. Filled(value, width, isUpper, base, pad) = b
    BY <1>6 DEF Filled, BufferOf
  <2>3. Filled(value, width, isUpper, base, pad) \in Seq(Char)
    BY <1>1, FilledIs
  <2>4. Longer(n, width) \in Nat \ {0}
    BY <1>4, <1>6 DEF Longer
  <2> QED BY <1>1, <1>2, <1>4, <1>5, <1>6, <2>1, <2>2, <2>3, <2>4
<1>7. CASE value = 0
  <2> DEFINE l == Longer(1, width)
             k == Longer(0, width - 1)
  <2>1. l = k + 1 /\ k \in Nat
    BY DEF Longer
  <2>2. /\ g \in Seq(Char) /\ Len(g) = k
        /\ \A j \in 1 .. k : g[j] = pad
    <3> DEFINE z == width - 1
    <3>1. z \in Int /\ x = 0 /\ DigitsOf(x, base) = 0
      BY <1>4, <1>7
    <3> DEFINE h == Filled(x, z, isUpper, base, pad)
    <3>2. /\ h \in Seq(Char) /\ Len(h) = Longer(DigitsOf(x, base), z)
          /\ \A j \in 1 .. Longer(DigitsOf(x, base), z) :
                h[j] = IF j <= DigitsOf(x, base)
                         THEN Digit((x \div Power(base, j - 1)) % base, isUpper) ELSE pad
      <4>1. ASSUME NEW q \in Nat, NEW t \in Int
            PROVE  LET p == Filled(q, t, isUpper, base, pad)
                   IN  /\ p \in Seq(Char) /\ Len(p) = Longer(DigitsOf(q, base), t)
                       /\ \A j \in 1 .. Longer(DigitsOf(q, base), t) :
                            p[j] = IF j <= DigitsOf(q, base)
                                     THEN Digit((q \div Power(base, j - 1)) % base, isUpper)
                                     ELSE pad
        <5> HIDE DEF pad
        <5> QED BY <1>1, FilledIs
      <4> HIDE DEF pad, x, z
      <4> QED BY <1>4, <3>1, <4>1
    <3>3. Longer(DigitsOf(x, base), z) = k
      <4> HIDE DEF x
      <4> QED BY <3>1
    <3>5. h = g
      OBVIOUS
    <3>4. \A j \in 1 .. k : ~(j <= DigitsOf(x, base))
      BY <2>1, <3>1
    <3> HIDE DEF g, h, k, x
    <3> QED BY <3>2, <3>3, <3>4, <3>5
  <2>3. d \in Char
    BY DigitIsChar
  <2>4. b = [j \in 1 .. l |-> IF j = 1 THEN d ELSE pad]
    <3>1. n = 1
      BY <1>7
    <3>2. Power(base, 0) = 1
      BY PowerNext DEF Bases
    <3>3. ASSUME NEW j \in 1 .. l
          PROVE  (IF j <= 1 THEN Digit((value \div Power(base, j - 1)) % base, isUpper) ELSE pad)
                 = IF j = 1 THEN d ELSE pad
      <4>1. CASE j = 1
        <5>1. j - 1 = 0 /\ value \div 1 = value
          BY <1>7, <4>1
        <5> QED BY <3>2, <4>1, <5>1
      <4>2. CASE j # 1
        BY <2>1, <4>2
      <4> QED BY <4>1, <4>2
    <3> QED BY <3>1, <3>3 DEF BufferOf
  <2> HIDE DEF g, d, pad, l, k, b
  <2>5. b \in Seq(Char) /\ Len(b) = l /\ \A j \in 1 .. l : b[j] = IF j = 1 THEN d ELSE pad
    BY <1>1, <2>1, <2>3, <2>4
  <2>6. /\ <<d>> \o g \in Seq(Char) /\ Len(<<d>> \o g) = l
        /\ \A j \in 1 .. l : (<<d>> \o g)[j] = IF j = 1 THEN d ELSE pad
    <3>1. <<d>> \o g \in Seq(Char) /\ Len(<<d>> \o g) = l
      BY <2>1, <2>2, <2>3
    <3>2. \A j \in 1 .. l : (<<d>> \o g)[j] = IF j = 1 THEN d ELSE g[j - 1]
      BY <2>1, <2>2, <2>3
    <3>3. \A j \in 1 .. l : j # 1 => j - 1 \in 1 .. k
      BY <2>1
    <3> QED BY <2>2, <3>1, <3>2, <3>3
  <2>7. <<d>> \o g = b
    BY <2>1, <2>5, <2>6, SeqEqual
  <2>8. n = 1 /\ l \in Nat \ {0}
    BY <1>7, <2>1
  <2> QED BY <1>1, <1>2, <1>5, <2>5, <2>7, <2>8 DEF l, b, pad
<1> QED BY <1>6, <1>7

-----------------------------------------------------------------------------
(* FlattenSeq, sequence by sequence.                                       *)

\* Induction over the numbers up to n.
LEMMA NumbersFrom ==
  ASSUME NEW n \in Nat, NEW T, 0 \in T, \A k \in 0 .. n - 1 : k \in T => k + 1 \in T
  PROVE  \A k \in 0 .. n : k \in T
<1> DEFINE U == {k \in 0 .. n : k \notin T}
<1> SUFFICES ASSUME U # {} PROVE FALSE
  OBVIOUS
<1>1. U \subseteq Nat
  OBVIOUS
<1>2. PICK k \in U : \A i \in U : k <= i
  <2> HIDE DEF U
  <2> QED BY <1>1, LeastNumber
<1>3. k \in 0 .. n /\ k \notin T /\ k # 0
  OBVIOUS
<1>4. PICK i \in 0 .. n - 1 : k = i + 1
  <2>1. k - 1 \in 0 .. n - 1 /\ k = (k - 1) + 1
    BY <1>3
  <2> QED BY <2>1
<1>5. i \notin U
  BY <1>2, <1>4
<1> QED BY <1>3, <1>4, <1>5

\* The first k of the sequences of e, one after the other.
Firsts(e, k) == FlattenSeq([i \in 1 .. k |-> e[i]])

\* The first k of them grow by one sequence at a time.
LEMMA FrontNext ==
  ASSUME NEW S, NEW n \in Nat, NEW e \in [1 .. n -> Seq(S)]
  PROVE  /\ Firsts(e, 0) = <<>>
         /\ \A k \in 0 .. n : Firsts(e, k) \in Seq(S)
         /\ \A k \in 0 .. n - 1 : Firsts(e, k + 1) = Firsts(e, k) \o e[k + 1]
<1>1. PICK g : Concatenates(g, e, n)
  BY FlattenIs
<1>2. ASSUME NEW k \in 0 .. n PROVE Firsts(e, k) = g[k]
  <2> DEFINE f == [i \in 1 .. k |-> e[i]]
  <2>1. f \in [1 .. k -> Seq(S)] /\ k \in Nat /\ \A i \in 1 .. k : f[i] = e[i] /\ i \in 1 .. n
    OBVIOUS
  <2>2. Firsts(e, k) = FlattenSeq(f)
    BY DEF Firsts
  <2> HIDE DEF f
  <2>3. PICK h : Concatenates(h, f, k)
    BY <2>1, FlattenIs
  <2> DEFINE T == {i \in 0 .. k : h[i] = g[i]}
  <2>4. 0 \in T
    BY <1>1, <2>3 DEF Concatenates
  <2>5. ASSUME NEW i \in 0 .. k - 1, i \in T PROVE i + 1 \in T
    <3>1. PICK j \in 1 .. k : j = i + 1 /\ j - 1 = i
      <4>1. i + 1 \in 1 .. k /\ (i + 1) - 1 = i
        OBVIOUS
      <4> QED BY <4>1
    <3>2. h[j] = h[i] \o f[j] /\ g[j] = g[i] \o e[j]
      BY <1>1, <2>1, <2>3, <3>1 DEF Concatenates
    <3>3. h[j] = g[j] /\ j \in 0 .. k
      <4>1. h[i] = g[i] /\ f[j] = e[j]
        BY <2>1, <2>5
      <4>2. j \in 0 .. k
        OBVIOUS
      <4> QED BY <3>2, <4>1, <4>2
    <3> QED BY <3>1, <3>3
  <2> HIDE DEF T
  <2>6. \A i \in 0 .. k : i \in T
    BY <2>1, <2>4, <2>5, NumbersFrom
  <2>7. k \in T
    BY <2>1, <2>6
  <2> QED BY <2>2, <2>3, <2>7 DEF T, Concatenates
<1>3. g[0] = <<>> /\ \A i \in 1 .. n : g[i] = g[i - 1] \o e[i]
  BY <1>1 DEF Concatenates
<1>4. Firsts(e, 0) = <<>>
  BY <1>2, <1>3
<1>5. ASSUME NEW k \in 0 .. n - 1 PROVE g[k + 1] = g[k] \o e[k + 1]
  <2>1. PICK j \in 1 .. n : j = k + 1 /\ j - 1 = k
    <3>1. k + 1 \in 1 .. n /\ (k + 1) - 1 = k
      OBVIOUS
    <3> QED BY <3>1
  <2>2. g[j] = g[k] \o e[j]
    BY <1>3, <2>1
  <2> QED BY <2>1, <2>2
<1>6. ASSUME NEW k \in 0 .. n - 1 PROVE Firsts(e, k + 1) = Firsts(e, k) \o e[k + 1]
  <2>1. k \in 0 .. n /\ k + 1 \in 0 .. n
    OBVIOUS
  <2>2. Firsts(e, k) = g[k] /\ Firsts(e, k + 1) = g[k + 1]
    BY <1>2, <2>1
  <2> QED BY <1>5, <2>2
<1> DEFINE T == {k \in 0 .. n : g[k] \in Seq(S)}
<1>7. 0 \in T
  <2>1. 0 \in 0 .. n /\ g[0] = <<>>
    BY <1>3
  <2>2. <<>> \in Seq(S)
    OBVIOUS
  <2> QED BY <2>1, <2>2
<1>8. ASSUME NEW k \in 0 .. n - 1, k \in T PROVE k + 1 \in T
  <2>1. g[k] \in Seq(S) /\ e[k + 1] \in Seq(S) /\ k + 1 \in 0 .. n
    BY <1>8
  <2>2. g[k + 1] \in Seq(S)
    BY <1>5, <2>1, ConcatProperties
  <2> QED BY <2>1, <2>2
<1> HIDE DEF T
<1>9. \A k \in 0 .. n : k \in T
  BY <1>7, <1>8, NumbersFrom
<1>10. \A k \in 0 .. n : Firsts(e, k) \in Seq(S)
  BY <1>2, <1>9 DEF T
<1> QED BY <1>4, <1>6, <1>10

\* All of them are what FlattenSeq returns.
LEMMA FrontWhole ==
  ASSUME NEW n \in Nat, NEW S, NEW e \in [1 .. n -> S]
  PROVE  FlattenSeq(e) = Firsts(e, n)
<1>1. e = [i \in 1 .. n |-> e[i]]
  OBVIOUS
<1> QED BY <1>1 DEF Firsts

\* Sequences of one character each make up the sequence of those characters.
LEMMA Singles ==
  ASSUME NEW S, NEW n \in Nat, NEW s \in Seq(S), Len(s) = n,
         NEW e, e = [i \in 1 .. n |-> <<s[i]>>]
  PROVE  FlattenSeq(e) = s
<1>1. \A i \in 1 .. n : s[i] \in S
  OBVIOUS
<1>2. e \in [1 .. n -> Seq(S)] /\ \A i \in 1 .. n : e[i] = <<s[i]>>
  BY <1>1
<1>3. /\ Firsts(e, 0) = <<>>
      /\ \A k \in 0 .. n : Firsts(e, k) \in Seq(S)
      /\ \A k \in 0 .. n - 1 : Firsts(e, k + 1) = Firsts(e, k) \o e[k + 1]
  BY <1>2, FrontNext
<1> DEFINE T == {k \in 0 .. n : Len(Firsts(e, k)) = k /\ \A j \in 1 .. k : Firsts(e, k)[j] = s[j]}
<1>4. 0 \in T
  BY <1>3
<1>5. ASSUME NEW k \in 0 .. n - 1, k \in T PROVE k + 1 \in T
  <2> DEFINE f == Firsts(e, k)
             h == Firsts(e, k + 1)
  <2>1. /\ f \in Seq(S) /\ Len(f) = k /\ \A j \in 1 .. k : f[j] = s[j]
        /\ h = f \o <<s[k + 1]>> /\ s[k + 1] \in S
    <3>1. k \in 0 .. n /\ k + 1 \in 1 .. n
      OBVIOUS
    <3>2. e[k + 1] = <<s[k + 1]>> /\ s[k + 1] \in S
      BY <1>1, <1>2, <3>1
    <3> QED BY <1>3, <1>5, <3>1, <3>2
  <2> HIDE DEF f, h
  <2>2. Len(h) = k + 1 /\ \A j \in 1 .. k + 1 : h[j] = s[j]
    <3> DEFINE c == s[k + 1]
    <3>1. c \in S /\ h = f \o <<c>> /\ k \in Nat
      BY <2>1
    <3> HIDE DEF c
    <3>2. Len(h) = k + 1 /\ h[k + 1] = c /\ \A j \in 1 .. k : h[j] = f[j]
      BY <2>1, <3>1
    <3>3. \A j \in 1 .. k + 1 : j = k + 1 \/ j \in 1 .. k
      OBVIOUS
    <3> QED BY <2>1, <3>2, <3>3 DEF c
  <2>3. k + 1 \in 0 .. n
    OBVIOUS
  <2> QED BY <2>2, <2>3 DEF h
<1>6. \A k \in 0 .. n : k \in T
  <2> HIDE DEF T
  <2> QED BY <1>4, <1>5, NumbersFrom
<1>7. n \in T /\ Firsts(e, n) \in Seq(S)
  BY <1>3, <1>6
<1>8. Firsts(e, n) = s
  BY <1>7, SeqEqual
<1>9. FlattenSeq(e) = Firsts(e, n)
  BY <1>2, FrontWhole
<1> QED BY <1>8, <1>9

-----------------------------------------------------------------------------
(* The buffer, read from its end.                                          *)

\* Five places of a number with separators hold four of its characters.
LEMMA FourAndOne ==
  ASSUME NEW p \in Nat
  PROVE  LET a == p \div 4
             r == p % 4
         IN  /\ a \in Nat /\ r \in 0 .. 3 /\ p = 4 * a + r
             /\ (p + a) % 5 = r /\ (p + a) \div 5 = a
             /\ p > 0 => (p - 1) \div 4 = IF r = 0 THEN a - 1 ELSE a
             /\ p > 0 /\ r = 0 => a > 0 /\ (p + a - 1) % 5 = 4
<1> DEFINE a == p \div 4
           r == p % 4
<1>1. a \in Nat /\ r \in 0 .. 3 /\ p = 4 * a + r
  OBVIOUS
<1> HIDE DEF a, r
<1>2. p + a = a * 5 + r /\ p + a \in Nat /\ r \in Nat /\ r < 5
  BY <1>1
<1>3. (p + a) % 5 = r /\ (p + a) \div 5 = a
  <2> DEFINE q == p + a
  <2>1. q \in Nat /\ q = a * 5 + r
    BY <1>2
  <2> HIDE DEF q
  <2>2. q % 5 = r /\ q \div 5 = a
    BY <1>1, <1>2, <2>1, DivUnique
  <2> QED BY <2>2 DEF q
<1>4. p > 0 => (p - 1) \div 4 = IF r = 0 THEN a - 1 ELSE a
  BY <1>1
<1>5. p > 0 /\ r = 0 => a > 0 /\ (p + a - 1) % 5 = 4
  BY <1>1
<1> QED BY <1>1, <1>3, <1>4, <1>5 DEF a, r

\* A sequence with a character behind it.
LEMMA OneMore ==
  ASSUME NEW S, NEW f \in Seq(S), NEW c \in S, NEW n \in Nat, Len(f) = n
  PROVE  /\ f \o <<c>> \in Seq(S) /\ Len(f \o <<c>>) = n + 1
         /\ (f \o <<c>>)[n + 1] = c
         /\ \A j \in 1 .. n : (f \o <<c>>)[j] = f[j]
OBVIOUS

\* A sequence with two characters behind it.
LEMMA TwoMore ==
  ASSUME NEW S, NEW f \in Seq(S), NEW c \in S, NEW d \in S, NEW n \in Nat, Len(f) = n
  PROVE  /\ f \o <<c, d>> \in Seq(S) /\ Len(f \o <<c, d>>) = n + 2
         /\ (f \o <<c, d>>)[n + 1] = c /\ (f \o <<c, d>>)[n + 2] = d
         /\ \A j \in 1 .. n : (f \o <<c, d>>)[j] = f[j]
<1> DEFINE q == <<c, d>>
           h == f \o q
<1>1. q \in Seq(S) /\ Len(q) = 2 /\ q[1] = c /\ q[2] = d
  OBVIOUS
<1> HIDE DEF q
<1>2. /\ h \in Seq(S) /\ Len(h) = n + 2
      /\ \A j \in 1 .. n + 2 : h[j] = IF j <= n THEN f[j] ELSE q[j - n]
  <2>1. /\ h \in Seq(S) /\ Len(h) = Len(f) + Len(q)
        /\ \A j \in 1 .. Len(f) + Len(q) : h[j] = IF j <= Len(f) THEN f[j] ELSE q[j - Len(f)]
    BY <1>1, ConcatProperties, Zenon
  <2> HIDE DEF h
  <2> QED BY <1>1, <2>1
<1>3. \A j \in 1 .. n + 2 : h[j] = IF j <= n THEN f[j] ELSE q[j - n]
  BY <1>2
<1>4. (n + 1) - n = 1 /\ (n + 2) - n = 2 /\ n + 1 \in 1 .. n + 2 /\ n + 2 \in 1 .. n + 2
  OBVIOUS
<1>5. \A j \in 1 .. n : j \in 1 .. n + 2 /\ j <= n
  OBVIOUS
<1> HIDE DEF h
<1>6. h[n + 1] = c /\ h[n + 2] = d /\ \A j \in 1 .. n : h[j] = f[j]
  <2>1. ~(n + 1 <= n) /\ ~(n + 2 <= n)
    OBVIOUS
  <2> QED BY <1>1, <1>3, <1>4, <1>5, <2>1
<1> QED BY <1>2, <1>6 DEF h, q

\* What print_number_ prints at each place of s.
Separated(e, s, n) ==
  e = [i \in 1 .. n |-> IF (n - i) % 4 = 0 /\ n - i > 0 THEN <<s[i], ":">> ELSE <<s[i]>>]

\* A separator wherever a multiple of four characters is left makes groups of four from the right.
LEMMA FoursAreSeparated ==
  ASSUME NEW L \in Nat \ {0}, NEW s \in Seq(Char), Len(s) = L,
         NEW e, Separated(e, s, L)
  PROVE  FlattenSeq(e) = InFours(s) /\ InFours(s) \in Seq(Char)
<1> DEFINE total == L + (L - 1) \div 4
           t == InFours(s)
           Left(p) == IF p = 0 THEN 0 ELSE p + (p - 1) \div 4
           at(place) == IF place % 5 = 4 THEN ":" ELSE s[L - (place - place \div 5)]
<1>1. ":" \in Char
  BY OvprintfAssumption
<1>2. ASSUME NEW i \in 1 .. L PROVE s[i] \in Char
  OBVIOUS
<1>0. \A i \in 1 .. L : e[i] = IF (L - i) % 4 = 0 /\ L - i > 0 THEN <<s[i], ":">> ELSE <<s[i]>>
  BY DEF Separated
<1>3. e \in [1 .. L -> Seq(Char)]
  <2>1. ASSUME NEW i \in 1 .. L PROVE e[i] \in Seq(Char)
    <3>1. <<s[i], ":">> \in Seq(Char) /\ <<s[i]>> \in Seq(Char)
      BY <1>1, <1>2
    <3> QED BY <1>0, <3>1
  <2>2. e = [i \in 1 .. L |-> e[i]]
    BY DEF Separated
  <2> QED BY <2>1, <2>2
<1>4. /\ Firsts(e, 0) = <<>>
      /\ \A k \in 0 .. L : Firsts(e, k) \in Seq(Char)
      /\ \A k \in 0 .. L - 1 : Firsts(e, k + 1) = Firsts(e, k) \o e[k + 1]
  <2>1. L \in Nat
    OBVIOUS
  <2> QED BY <1>3, <2>1, FrontNext
<1>5. total \in Nat /\ t = [i \in 1 .. total |-> at(total - i)]
  BY DEF InFours
<1>6. \A i \in 1 .. total : t[i] = at(total - i)
  BY <1>5
<1> HIDE DEF t
<1> DEFINE Good(k) == /\ Len(Firsts(e, k)) = total - Left(L - k)
                      /\ \A j \in 1 .. Len(Firsts(e, k)) : Firsts(e, k)[j] = t[j]
           T == {k \in 0 .. L : Good(k)}
<1>7. 0 \in T
  <2>1. 0 \in 0 .. L /\ Left(L - 0) = total
    OBVIOUS
  <2>2. Len(Firsts(e, 0)) = 0
    BY <1>4
  <2> HIDE DEF total, Left
  <2>3. total - total = 0
    BY <1>5
  <2>4. Good(0)
    BY <2>1, <2>2, <2>3
  <2> QED BY <2>1, <2>4
<1>8. ASSUME NEW k \in 0 .. L - 1, Good(k) PROVE Good(k + 1)
  <2> DEFINE p == L - (k + 1)
             a == p \div 4
             r == p % 4
             f == Firsts(e, k)
             h == Firsts(e, k + 1)
             c == s[k + 1]
             n == total - (p + 1 + a)
  <2>1. p \in Nat /\ L - k = p + 1 /\ k + 1 \in 1 .. L /\ k + 1 = L - p
    OBVIOUS
  <2>2. e[k + 1] = IF p % 4 = 0 /\ p > 0 THEN <<c, ":">> ELSE <<c>>
    BY <1>0, <2>1
  <2>3. c \in Char /\ f \in Seq(Char) /\ h = f \o e[k + 1]
    <3>1. k \in 0 .. L
      OBVIOUS
    <3>2. f \in Seq(Char) /\ h = f \o e[k + 1]
      BY <1>4, <3>1
    <3>3. c \in Char
      BY <1>2, <2>1
    <3> QED BY <3>2, <3>3
  <2>4. Left(p + 1) = p + 1 + a
    <3>1. p + 1 # 0 /\ (p + 1) - 1 = p
      BY <2>1
    <3> HIDE DEF p
    <3> QED BY <3>1
  <2>5. /\ a \in Nat /\ r \in 0 .. 3
        /\ (p + a) % 5 = r /\ (p + a) \div 5 = a
        /\ p > 0 => (p - 1) \div 4 = IF r = 0 THEN a - 1 ELSE a
        /\ p > 0 /\ r = 0 => a > 0 /\ (p + a - 1) % 5 = 4
    <3> HIDE DEF p
    <3> QED BY <2>1, FourAndOne
  <2>6. Len(f) = n /\ n \in Nat /\ \A j \in 1 .. n : f[j] = t[j]
    <3>1. Len(f) = n
      BY <1>8, <2>1, <2>4
    <3>2. Len(f) \in Nat
      BY <2>3
    <3> QED BY <1>8, <3>1, <3>2
  <2>7. at(p + a) = c
    <3>1. (p + a) % 5 # 4 /\ L - ((p + a) - a) = L - p
      BY <2>1, <2>5
    <3> QED BY <2>1, <2>5, <3>1
  <2>8. p > 0 /\ r = 0 => at(p + a - 1) = ":"
    BY <2>5
  <2>9. total = n + p + a + 1
    BY <1>5, <2>1, <2>5
  <2> HIDE DEF at, total, f, h, c, n, p, a
  <2>10. t[n + 1] = c
    <3>1. n + 1 \in 1 .. total /\ total - (n + 1) = p + a
      BY <2>1, <2>5, <2>6, <2>9
    <3> QED BY <1>6, <2>7, <3>1
  <2>11. CASE p > 0 /\ r = 0
    <3>1. n + 2 \in 1 .. total /\ total - (n + 2) = p + a - 1
      BY <2>1, <2>5, <2>6, <2>9, <2>11
    <3>2. t[n + 2] = ":"
      BY <1>6, <2>8, <2>11, <3>1
    <3>3. h = f \o <<c, ":">>
      BY <2>2, <2>3, <2>11 DEF r
    <3>4. /\ Len(h) = n + 2 /\ h[n + 1] = c /\ h[n + 2] = ":"
          /\ \A j \in 1 .. n : h[j] = f[j]
      <4>1. ":" \in Char /\ c \in Char /\ f \in Seq(Char) /\ n \in Nat /\ Len(f) = n
        BY <1>1, <2>3, <2>6
      <4> QED BY <3>3, <4>1, TwoMore
    <3>5. \A j \in 1 .. n + 2 : j = n + 1 \/ j = n + 2 \/ j \in 1 .. n
      BY <2>6
    <3>6. \A j \in 1 .. n + 2 : h[j] = t[j]
      BY <2>6, <2>10, <3>2, <3>4, <3>5
    <3>7. n + 2 = total - Left(p)
      BY <2>1, <2>5, <2>6, <2>9, <2>11
    <3> QED BY <3>4, <3>6, <3>7 DEF h, p
  <2>12. CASE ~(p > 0 /\ r = 0)
    <3>3. h = f \o <<c>>
      BY <2>1, <2>2, <2>3, <2>12 DEF r
    <3>4. Len(h) = n + 1 /\ h[n + 1] = c /\ \A j \in 1 .. n : h[j] = f[j]
      <4>1. c \in Char /\ f \in Seq(Char) /\ n \in Nat /\ Len(f) = n
        BY <2>3, <2>6
      <4> QED BY <3>3, <4>1, OneMore
    <3>5. \A j \in 1 .. n + 1 : j = n + 1 \/ j \in 1 .. n
      BY <2>6
    <3>6. \A j \in 1 .. n + 1 : h[j] = t[j]
      BY <2>6, <2>10, <3>4, <3>5
    <3>7. n + 1 = total - Left(p)
      <4>1. CASE p = 0
        <5>1. a = 0
          BY <4>1 DEF a
        <5> QED BY <2>6, <2>9, <4>1, <5>1
      <4>2. CASE p # 0
        BY <2>1, <2>5, <2>6, <2>9, <2>12, <4>2
      <4> QED BY <4>1, <4>2
    <3> QED BY <3>4, <3>6, <3>7 DEF h, p
  <2> QED BY <2>11, <2>12
<1> HIDE DEF Good, total
<1>9. \A k \in 0 .. L : k \in T
  <2>1. ASSUME NEW k \in 0 .. L - 1, k \in T PROVE k + 1 \in T
    <3>1. k + 1 \in 0 .. L
      OBVIOUS
    <3> QED BY <1>8, <2>1, <3>1
  <2>2. L \in Nat
    OBVIOUS
  <2> HIDE DEF T
  <2> QED BY <1>7, <2>1, <2>2, NumbersFrom
<1>10. Good(L) /\ L \in 0 .. L /\ Firsts(e, L) \in Seq(Char)
  BY <1>4, <1>9
<1> DEFINE f == Firsts(e, L)
<1>11. Len(f) = total /\ \A j \in 1 .. total : f[j] = t[j]
  <2>1. L - L = 0 /\ total - 0 = total
    BY <1>5
  <2>2. Left(L - L) = 0
    BY <2>1
  <2> HIDE DEF Left
  <2>3. Len(f) = total - Left(L - L) /\ \A j \in 1 .. Len(f) : f[j] = t[j]
    BY <1>10 DEF Good
  <2> HIDE DEF f
  <2> QED BY <2>1, <2>2, <2>3
<1>12. f = t
  <2>1. f = [j \in 1 .. total |-> f[j]]
    BY <1>10, <1>11
  <2>2. t = [j \in 1 .. total |-> t[j]]
    BY <1>5
  <2> HIDE DEF f, t
  <2> QED BY <1>11, <2>1, <2>2
<1>13. FlattenSeq(e) = f
  BY <1>3, FrontWhole
<1> QED BY <1>10, <1>12, <1>13 DEF t

\* What is printed of a number.
ChosenDigit(v, base) ==
  CHOOSE k \in 1 .. 32 : v < Power(base, k) /\ (k = 1 \/ v >= Power(base, k - 1))
NumeralOf(v, isUpper, base, pad, n, len) ==
  [i \in 1 .. len |->
     IF len - i < n THEN Digit((v \div Power(base, len - i)) % base, isUpper) ELSE pad]

\* What ovprintf_print_number_ prints is the number's numeral, in groups of four if asked for.
LEMMA NumeralPrinted ==
  ASSUME NEW base \in Bases, NEW isUpper \in BOOLEAN, NEW zeroFill \in BOOLEAN,
         NEW v \in Nat, NEW width \in Nat, \E k \in 1 .. 32 : v < Power(base, k)
  PROVE  LET pad == IF zeroFill THEN "0" ELSE Space
             s == Numeral(v, isUpper, base, width, pad)
         IN  /\ s \in Seq(Char)
             /\ InFours(s) \in Seq(Char)
             /\ print_number_(v, isUpper, base, width, FALSE, zeroFill) = s
             /\ print_number_(v, isUpper, base, width, TRUE, zeroFill) = InFours(s)
<1> DEFINE pad == IF zeroFill THEN "0" ELSE Space
           s == Numeral(v, isUpper, base, width, pad)
           n == IF v = 0 THEN 1 ELSE DigitsOf(v, base)
           L == Longer(n, width)
           b == BufferOf(v, n, width, isUpper, base, pad)
           dg(j) == IF j <= n THEN Digit((v \div Power(base, j - 1)) % base, isUpper) ELSE pad
<1>1. /\ n \in Nat \ {0} /\ L \in Nat \ {0} /\ pad \in Char /\ b \in Seq(Char)
      /\ DigitBuffer(v, isUpper, base, width, zeroFill) = b
  <2>1. width \in Int
    OBVIOUS
  <2>2. n \in Nat \ {0}
    BY <2>1, BufferHolds
  <2>3. L \in Nat \ {0}
    BY <2>1, BufferHolds
  <2>4. pad \in Char
    BY <2>1, BufferHolds
  <2>5. b \in Seq(Char)
    BY <2>1, BufferHolds
  <2>6. DigitBuffer(v, isUpper, base, width, zeroFill) = b
    BY <2>1, BufferHolds
  <2> QED BY <2>2, <2>3, <2>4, <2>5, <2>6
<1>2. b = [j \in 1 .. L |-> dg(j)]
  BY DEF BufferOf
<1>3. L = n + Pad(width, n)
  BY <1>1 DEF Longer, Pad
<1>4. s = [i \in 1 .. L |-> IF L - i < n THEN Digit((v \div Power(base, L - i)) % base, isUpper)
                            ELSE pad]
  <2>1. ChosenDigit(v, base) = n
    BY ChosenDigits DEF ChosenDigit
  <2>2. s = NumeralOf(v, isUpper, base, pad, ChosenDigit(v, base),
                      ChosenDigit(v, base) + Pad(width, ChosenDigit(v, base)))
    BY DEF Numeral, NumeralOf, ChosenDigit
  <2> HIDE DEF n, L, s, pad
  <2>3. s = NumeralOf(v, isUpper, base, pad, n, L)
    BY <1>3, <2>1, <2>2
  <2> QED BY <2>3 DEF NumeralOf
<1> HIDE DEF b, L, n, pad
<1>5. ASSUME NEW i \in 1 .. L
      PROVE  (IF L - i < n THEN Digit((v \div Power(base, L - i)) % base, isUpper) ELSE pad)
             = b[L - i + 1] /\ L - i + 1 \in 1 .. L
  <2>1. PICK j \in 1 .. L : j = L - i + 1 /\ j - 1 = L - i /\ (L - i < n <=> j <= n)
    <3>1. L - i + 1 \in 1 .. L /\ (L - i + 1) - 1 = L - i /\ (L - i < n <=> L - i + 1 <= n)
      BY <1>1
    <3> QED BY <3>1
  <2>2. b[j] = dg(j)
    BY <1>2
  <2> QED BY <2>1, <2>2
<1>6. s = [i \in 1 .. L |-> b[L - i + 1]]
  BY <1>4, <1>5
<1>7. Len(b) = L /\ \A i \in 1 .. L : b[i] \in Char
  <2> HIDE DEF dg
  <2>1. DOMAIN b = 1 .. L
    BY <1>2
  <2> QED BY <1>1, <2>1
<1> HIDE DEF s
<1>8. s \in Seq(Char) /\ Len(s) = L /\ \A i \in 1 .. L : s[i] = b[L - i + 1]
  BY <1>1, <1>5, <1>6, <1>7
<1> DEFINE e == [i \in 1 .. L |-> <<s[i]>>]
           q == [i \in 1 .. L |-> IF (L - i) % 4 = 0 /\ L - i > 0 THEN <<s[i], ":">> ELSE <<s[i]>>]
<1>9. print_number_(v, isUpper, base, width, FALSE, zeroFill) = FlattenSeq(e)
  <2>1. e = [i \in 1 .. Len(b) |-> <<b[Len(b) - i + 1]>>]
    BY <1>7, <1>8
  <2> HIDE DEF e
  <2> QED BY <1>1, <2>1 DEF print_number_
<1>10. print_number_(v, isUpper, base, width, TRUE, zeroFill) = FlattenSeq(q)
  <2>1. q = [i \in 1 .. Len(b) |-> IF (Len(b) - i) % 4 = 0 /\ Len(b) - i > 0
                                     THEN <<b[Len(b) - i + 1], ":">> ELSE <<b[Len(b) - i + 1]>>]
    BY <1>7, <1>8
  <2> HIDE DEF q
  <2> QED BY <1>1, <2>1 DEF print_number_
<1>11. FlattenSeq(e) = s
  BY <1>1, <1>8, Singles
<1>12. FlattenSeq(q) = InFours(s) /\ InFours(s) \in Seq(Char)
  <2>1. Separated(q, s, L)
    BY DEF Separated
  <2> HIDE DEF q
  <2> QED BY <1>1, <1>8, <2>1, FoursAreSeparated
<1> QED BY <1>8, <1>9, <1>10, <1>11, <1>12 DEF s, pad

-----------------------------------------------------------------------------
(* The size of a directive, modifier by modifier.                          *)

\* SizeAt's function, and the one CHOOSE finds.
IsSize(d, mods, n) ==
  d = [k \in 0 .. n |-> IF k = 0 THEN 0 ELSE Modified(d[k - 1], mods[k])]
SizeFunction(mods, n) == CHOOSE d : IsSize(d, mods, n)

\* A modifier leaves a number.
LEMMA ModifiedIsInt ==
  ASSUME NEW x \in Int, NEW c \in SizeChars
  PROVE  Modified(x, c) \in Int
<1>1. c = "h" \/ c = "l" \/ c = "z"
  BY DEF SizeChars
<1>2. CASE c = "h"
  BY <1>2 DEF Modified
<1>3. CASE c = "l"
  BY <1>3 DEF Modified
<1>4. CASE c = "z"
  BY <1>4 DEF Modified, DSIZE_SIZE_T
<1> QED BY <1>1, <1>2, <1>3, <1>4

\* SizeAt's function exists.
LEMMA SizeExists ==
  ASSUME NEW n \in Nat, NEW mods \in [1 .. n -> SizeChars]
  PROVE  IsSize(SizeFunction(mods, n), mods, n)
<1> DEFINE M(x, c) == Modified(x, c)
           step == [k \in 1 .. n |-> [x \in Int |-> M(x, mods[k])]]
<1>1. step \in [1 .. n -> [Int -> Int]]
  <2>1. ASSUME NEW k \in 1 .. n, NEW x \in Int PROVE M(x, mods[k]) \in Int
    <3>1. mods[k] \in SizeChars
      OBVIOUS
    <3> QED BY <3>1, ModifiedIsInt
  <2> HIDE DEF M
  <2> QED BY <2>1
<1>2. PICK g \in [0 .. n -> Int] : g[0] = 0 /\ \A k \in 1 .. n : g[k] = step[k][g[k - 1]]
  <2> HIDE DEF step
  <2>1. \A f \in [1 .. n -> [Int -> Int]] :
           \E g \in [0 .. n -> Int] : g[0] = 0 /\ \A k \in 1 .. n : g[k] = f[k][g[k - 1]]
    <3> SUFFICES ASSUME NEW f \in [1 .. n -> [Int -> Int]]
        PROVE \E g \in [0 .. n -> Int] : g[0] = 0 /\ \A k \in 1 .. n : g[k] = f[k][g[k - 1]]
      OBVIOUS
    <3>1. 0 \in Int
      OBVIOUS
    <3> QED BY <3>1, Recursion, Zenon
  <2> QED BY <1>1, <2>1
<1> HIDE DEF M
<1>3. ASSUME NEW k \in 0 .. n PROVE g[k] = IF k = 0 THEN 0 ELSE M(g[k - 1], mods[k])
  <2>1. CASE k # 0
    <3>1. k \in 1 .. n /\ k - 1 \in 0 .. n
      BY <2>1
    <3>2. g[k - 1] \in Int
      BY <3>1
    <3> QED BY <1>2, <2>1, <3>1, <3>2
  <2> QED BY <1>2, <2>1
<1>4. IsSize(g, mods, n)
  <2>1. g = [k \in 0 .. n |-> g[k]]
    OBVIOUS
  <2>2. g = [k \in 0 .. n |-> IF k = 0 THEN 0 ELSE M(g[k - 1], mods[k])]
    BY <1>3, <2>1
  <2> QED BY <2>2 DEF IsSize, M
<1> QED BY <1>4 DEF SizeFunction

\* The size of a directive, one modifier after the other.
LEMMA SizeNext ==
  ASSUME NEW mods \in Seq(SizeChars)
  PROVE  /\ SizeAt(mods, 0) = 0
         /\ \A n \in 0 .. Len(mods) - 1 :
              SizeAt(mods, n + 1) = Modified(SizeAt(mods, n), mods[n + 1])
<1> DEFINE L == Len(mods)
           F(m) == SizeFunction(mods, m)
           M(x, c) == Modified(x, c)
<1>1. L \in Nat /\ \A k \in 1 .. L : mods[k] \in SizeChars
  OBVIOUS
<1>2. ASSUME NEW m \in 0 .. L PROVE IsSize(F(m), mods, m)
  <2> DEFINE f == [k \in 1 .. m |-> mods[k]]
  <2>1. f \in [1 .. m -> SizeChars] /\ m \in Nat /\ \A k \in 1 .. m : f[k] = mods[k]
    BY <1>1
  <2> HIDE DEF f
  <2>2. IsSize(SizeFunction(f, m), f, m)
    BY <2>1, SizeExists
  <2>3. ASSUME NEW d PROVE IsSize(d, f, m) <=> IsSize(d, mods, m)
    <3>1. \A k \in 0 .. m : (IF k = 0 THEN 0 ELSE M(d[k - 1], f[k]))
                            = IF k = 0 THEN 0 ELSE M(d[k - 1], mods[k])
      <4> HIDE DEF M
      <4>1. \A k \in 0 .. m : k = 0 \/ k \in 1 .. m
        OBVIOUS
      <4> QED BY <2>1, <4>1
    <3>2. [k \in 0 .. m |-> IF k = 0 THEN 0 ELSE M(d[k - 1], f[k])]
          = [k \in 0 .. m |-> IF k = 0 THEN 0 ELSE M(d[k - 1], mods[k])]
      <4> HIDE DEF M
      <4> QED BY <3>1
    <3> QED BY <3>2 DEF IsSize, M
  <2>4. \E d : IsSize(d, mods, m)
    BY <2>2, <2>3
  <2> QED BY <2>4 DEF SizeFunction
<1>3. ASSUME NEW m \in 0 .. L PROVE SizeAt(mods, m) = F(m)[m]
  BY DEF SizeAt, SizeFunction, IsSize
<1> HIDE DEF F
<1>4. ASSUME NEW m \in 0 .. L, NEW i \in 0 .. m
      PROVE  F(m)[i] = IF i = 0 THEN 0 ELSE M(F(m)[i - 1], mods[i])
  <2> DEFINE f == F(m)
             G(k) == IF k = 0 THEN 0 ELSE M(f[k - 1], mods[k])
  <2>1. f = [k \in 0 .. m |-> G(k)]
    BY <1>2 DEF IsSize
  <2> HIDE DEF f, G
  <2>2. f[i] = G(i)
    BY <2>1
  <2> QED BY <2>2 DEF f, G
<1> HIDE DEF M
<1>5. ASSUME NEW m \in 0 .. L, NEW n \in 0 .. m PROVE F(m)[n] = F(n)[n]
  <2> DEFINE T == {i \in 0 .. n : F(m)[i] = F(n)[i]}
  <2>0. n \in Nat /\ n \in 0 .. L /\ \A i \in 0 .. n : i \in 0 .. m
    BY <1>1
  <2>1. 0 \in T
    BY <1>4, <2>0
  <2>2. ASSUME NEW i \in 0 .. n - 1, i \in T PROVE i + 1 \in T
    <3>1. PICK j \in 0 .. n : j = i + 1 /\ j # 0 /\ j - 1 = i
      <4>1. i + 1 \in 0 .. n /\ i + 1 # 0 /\ (i + 1) - 1 = i
        OBVIOUS
      <4> QED BY <4>1
    <3>2. F(m)[j] = M(F(m)[i], mods[j]) /\ F(n)[j] = M(F(n)[i], mods[j])
      BY <1>4, <2>0, <3>1
    <3>3. F(m)[i] = F(n)[i]
      BY <2>2
    <3> QED BY <3>1, <3>2, <3>3
  <2> HIDE DEF T
  <2>3. \A i \in 0 .. n : i \in T
    BY <2>0, <2>1, <2>2, NumbersFrom
  <2>4. n \in T
    BY <2>0, <2>3
  <2> QED BY <2>4 DEF T
<1>6. SizeAt(mods, 0) = 0
  <2>1. 0 \in 0 .. L /\ 0 \in 0 .. 0
    BY <1>1
  <2> QED BY <1>3, <1>4, <2>1
<1>7. ASSUME NEW n \in 0 .. L - 1 PROVE SizeAt(mods, n + 1) = M(SizeAt(mods, n), mods[n + 1])
  <2>1. PICK m \in 0 .. L : m = n + 1 /\ m # 0 /\ m - 1 = n /\ n \in 0 .. m /\ m \in 0 .. m
    <3>1. n + 1 \in 0 .. L /\ n + 1 # 0 /\ (n + 1) - 1 = n /\ n \in 0 .. n + 1
          /\ n + 1 \in 0 .. n + 1
      BY <1>1
    <3> QED BY <3>1
  <2>2. F(m)[m] = M(F(m)[n], mods[m])
    BY <1>4, <2>1
  <2>3. F(m)[n] = F(n)[n]
    BY <1>5, <2>1
  <2>4. SizeAt(mods, m) = F(m)[m] /\ SizeAt(mods, n) = F(n)[n]
    BY <1>1, <1>3, <2>1
  <2> QED BY <2>1, <2>2, <2>3, <2>4
<1> QED BY <1>6, <1>7 DEF M

-----------------------------------------------------------------------------
(* The characters of a piece.                                              *)

DigitChars == {"0", "1", "2", "3", "4", "5", "6", "7", "8", "9"}
Letters    == Char \cup SizeChars \cup NumberChars \cup DigitChars \cup {"c", "s", "p", "%"}

\* The ten digits, each once.
LEMMA DigitsAre ==
  /\ Range(Digits) = DigitChars
  /\ Digits[1] = "0"
  /\ \A d \in 0 .. 9 : Digits[d + 1] \in DigitChars
  /\ \A d, f \in 0 .. 9 : Digits[d + 1] = Digits[f + 1] => d = f
<1>1. /\ Digits[1] = "0" /\ Digits[2] = "1" /\ Digits[3] = "2" /\ Digits[4] = "3"
      /\ Digits[5] = "4" /\ Digits[6] = "5" /\ Digits[7] = "6" /\ Digits[8] = "7"
      /\ Digits[9] = "8" /\ Digits[10] = "9" /\ DOMAIN Digits = 1 .. 10
  BY DEF Digits
<1>2. \A i \in 1 .. 10 : i \in {1, 2, 3, 4, 5, 6, 7, 8, 9, 10}
  OBVIOUS
<1>3. Range(Digits) = {Digits[i] : i \in 1 .. 10}
  BY <1>1 DEF Range
<1>4. \A i \in 1 .. 10 : Digits[i] \in DigitChars
  BY <1>1, <1>2 DEF DigitChars
<1>5. \A c \in DigitChars : \E i \in 1 .. 10 : Digits[i] = c
  BY <1>1 DEF DigitChars
<1>6. \A i, j \in 1 .. 10 : Digits[i] = Digits[j] => i = j
  BY <1>1, <1>2
<1>7. \A d \in 0 .. 9 : d + 1 \in 1 .. 10
  OBVIOUS
<1>8. \A d, f \in 0 .. 9 : Digits[d + 1] = Digits[f + 1] => d = f
  <2> SUFFICES ASSUME NEW d \in 0 .. 9, NEW f \in 0 .. 9, Digits[d + 1] = Digits[f + 1]
      PROVE d = f
    OBVIOUS
  <2>1. d + 1 = f + 1
    BY <1>6, <1>7
  <2> QED BY <2>1
<1>9. Range(Digits) = DigitChars
  BY <1>3, <1>4, <1>5
<1> QED BY <1>1, <1>4, <1>7, <1>8, <1>9

\* The number of characters of a width, and what its first i digits stand for.
WidthLength(w) == IF w = 0 THEN 0 ELSE IF w < 10 THEN 1 ELSE 2
WidthAt(w, i)  == IF i <= 0 THEN 0 ELSE IF i = 1 /\ w >= 10 THEN w \div 10 ELSE w

\* Reading the digits of a width one after the other gives the width.
LEMMA WidthRead ==
  ASSUME NEW w \in 0 .. 99
  PROVE  /\ WidthChars(w) \in Seq(DigitChars)
         /\ Len(WidthChars(w)) = WidthLength(w)
         /\ \A i \in 1 .. WidthLength(w) :
              \E d \in 0 .. 9 : /\ WidthChars(w)[i] = Digits[d + 1]
                                /\ d = 0 => i # 1
                                /\ WidthAt(w, i) = WidthAt(w, i - 1) * 10 + d
<1>1. CASE w = 0
  BY <1>1 DEF WidthChars, WidthLength
<1>2. CASE w # 0 /\ w < 10
  <2>1. WidthChars(w) = <<Digits[w + 1]>> /\ WidthLength(w) = 1
    BY <1>2 DEF WidthChars, WidthLength
  <2>2. w \in 0 .. 9 /\ Digits[w + 1] \in DigitChars
    BY <1>2, DigitsAre
  <2>3. WidthAt(w, 1) = w /\ WidthAt(w, 1 - 1) = 0
    BY <1>2 DEF WidthAt
  <2>4. w = 0 * 10 + w /\ \A i \in 1 .. 1 : i = 1
    OBVIOUS
  <2>5. <<Digits[w + 1]>>[1] = Digits[w + 1] /\ Len(<<Digits[w + 1]>>) = 1
        /\ <<Digits[w + 1]>> \in Seq(DigitChars)
    BY <2>2
  <2> QED BY <1>2, <2>1, <2>2, <2>3, <2>4, <2>5
<1>3. CASE w >= 10
  <2> DEFINE a == w \div 10
             b == w % 10
             A == Digits[a + 1]
             B == Digits[b + 1]
  <2>1. a \in 0 .. 9 /\ b \in 0 .. 9 /\ a # 0 /\ w = a * 10 + b
    BY <1>3
  <2>2. WidthChars(w) = <<A, B>> /\ WidthLength(w) = 2
    BY <1>3 DEF WidthChars, WidthLength
  <2>3. A \in DigitChars /\ B \in DigitChars
    <3> HIDE DEF a, b
    <3> QED BY <2>1, DigitsAre
  <2>4. WidthAt(w, 1) = a /\ WidthAt(w, 1 - 1) = 0 /\ WidthAt(w, 2) = w /\ WidthAt(w, 2 - 1) = a
    BY <1>3 DEF WidthAt
  <2> HIDE DEF a, b
  <2>5. a = 0 * 10 + a /\ \A i \in 1 .. 2 : i = 1 \/ i = 2
    BY <2>1
  <2>6. <<A, B>>[1] = A /\ <<A, B>>[2] = B /\ Len(<<A, B>>) = 2 /\ <<A, B>> \in Seq(DigitChars)
    BY <2>3
  <2>7. \E d \in 0 .. 9 : WidthChars(w)[1] = Digits[d + 1] /\ (d = 0 => 1 # 1)
                          /\ WidthAt(w, 1) = WidthAt(w, 1 - 1) * 10 + d
    BY <2>1, <2>2, <2>4, <2>5, <2>6
  <2>8. \E d \in 0 .. 9 : WidthChars(w)[2] = Digits[d + 1] /\ (d = 0 => 2 # 1)
                          /\ WidthAt(w, 2) = WidthAt(w, 2 - 1) * 10 + d
    BY <2>1, <2>2, <2>4, <2>6
  <2> QED BY <2>2, <2>5, <2>6, <2>7, <2>8
<1> QED BY <1>1, <1>2, <1>3

\* t is the five sequences, one after the other.
Joined(t, a, b, c, d, e) ==
  /\ Len(t) = Len(a) + Len(b) + Len(c) + Len(d) + Len(e)
  /\ \A i \in 1 .. Len(a) : t[i] = a[i]
  /\ \A i \in 1 .. Len(b) : t[Len(a) + i] = b[i]
  /\ \A i \in 1 .. Len(c) : t[Len(a) + Len(b) + i] = c[i]
  /\ \A i \in 1 .. Len(d) : t[Len(a) + Len(b) + Len(c) + i] = d[i]
  /\ \A i \in 1 .. Len(e) : t[Len(a) + Len(b) + Len(c) + Len(d) + i] = e[i]

\* The places of five sequences, one after the other.
LEMMA FiveParts ==
  ASSUME NEW S, NEW a \in Seq(S), NEW b \in Seq(S), NEW c \in Seq(S), NEW d \in Seq(S),
         NEW e \in Seq(S)
  PROVE  /\ a \o b \o c \o d \o e \in Seq(S)
         /\ Joined(a \o b \o c \o d \o e, a, b, c, d, e)
<1>1. ASSUME NEW x \in Seq(S), NEW y \in Seq(S)
      PROVE  /\ x \o y \in Seq(S) /\ Len(x \o y) = Len(x) + Len(y)
             /\ Len(x) \in Nat /\ Len(y) \in Nat
             /\ \A i \in 1 .. Len(x) : (x \o y)[i] = x[i]
             /\ \A i \in 1 .. Len(y) : (x \o y)[Len(x) + i] = y[i]
  <2>1. /\ x \o y \in Seq(S) /\ Len(x \o y) = Len(x) + Len(y)
        /\ Len(x) \in Nat /\ Len(y) \in Nat
    OBVIOUS
  <2>2. \A i \in 1 .. Len(x) + Len(y) : (x \o y)[i] = IF i <= Len(x) THEN x[i] ELSE y[i - Len(x)]
    BY ConcatProperties
  <2>3. ASSUME NEW i \in 1 .. Len(y) PROVE (x \o y)[Len(x) + i] = y[i]
    <3>1. Len(x) + i \in 1 .. Len(x) + Len(y) /\ ~(Len(x) + i <= Len(x)) /\ (Len(x) + i) - Len(x) = i
      BY <2>1
    <3> QED BY <2>2, <3>1
  <2> QED BY <2>1, <2>2, <2>3
<1> DEFINE p == a \o b
           q == p \o c
           r == q \o d
           t == r \o e
<1>2. /\ p \in Seq(S) /\ Len(p) = Len(a) + Len(b) /\ Len(a) \in Nat /\ Len(b) \in Nat
      /\ \A i \in 1 .. Len(a) : p[i] = a[i]
      /\ \A i \in 1 .. Len(b) : p[Len(a) + i] = b[i]
  BY <1>1
<1> HIDE DEF p
<1>3. /\ q \in Seq(S) /\ Len(q) = Len(p) + Len(c) /\ Len(c) \in Nat
      /\ \A i \in 1 .. Len(p) : q[i] = p[i]
      /\ \A i \in 1 .. Len(c) : q[Len(p) + i] = c[i]
  BY <1>1, <1>2
<1> HIDE DEF q
<1>4. /\ r \in Seq(S) /\ Len(r) = Len(q) + Len(d) /\ Len(d) \in Nat
      /\ \A i \in 1 .. Len(q) : r[i] = q[i]
      /\ \A i \in 1 .. Len(d) : r[Len(q) + i] = d[i]
  BY <1>1, <1>3
<1> HIDE DEF r
<1>5. /\ t \in Seq(S) /\ Len(t) = Len(r) + Len(e) /\ Len(e) \in Nat
      /\ \A i \in 1 .. Len(r) : t[i] = r[i]
      /\ \A i \in 1 .. Len(e) : t[Len(r) + i] = e[i]
  BY <1>1, <1>4
<1> HIDE DEF t
<1>6. /\ \A i \in 1 .. Len(q) : i \in 1 .. Len(r)
      /\ \A i \in 1 .. Len(p) : i \in 1 .. Len(q)
      /\ \A i \in 1 .. Len(a) : i \in 1 .. Len(p)
      /\ \A i \in 1 .. Len(b) : Len(a) + i \in 1 .. Len(p)
      /\ \A i \in 1 .. Len(c) : Len(p) + i \in 1 .. Len(q)
      /\ \A i \in 1 .. Len(d) : Len(q) + i \in 1 .. Len(r)
  BY <1>2, <1>3, <1>4
<1>7. \A i \in 1 .. Len(q) : t[i] = q[i]
  BY <1>4, <1>5, <1>6
<1>8. \A i \in 1 .. Len(p) : t[i] = p[i]
  BY <1>3, <1>6, <1>7
<1>9. \A i \in 1 .. Len(a) : t[i] = a[i]
  BY <1>2, <1>6, <1>8
<1>10. \A i \in 1 .. Len(b) : t[Len(a) + i] = b[i]
  BY <1>2, <1>6, <1>8
<1>11. \A i \in 1 .. Len(c) : t[Len(p) + i] = c[i]
  BY <1>3, <1>6, <1>7
<1>12. \A i \in 1 .. Len(d) : t[Len(q) + i] = d[i]
  BY <1>4, <1>5, <1>6
<1>13. Len(p) = Len(a) + Len(b) /\ Len(q) = Len(a) + Len(b) + Len(c)
       /\ Len(r) = Len(a) + Len(b) + Len(c) + Len(d)
  BY <1>2, <1>3, <1>4
<1>14. /\ \A i \in 1 .. Len(c) : t[Len(a) + Len(b) + i] = c[i]
       /\ \A i \in 1 .. Len(d) : t[Len(a) + Len(b) + Len(c) + i] = d[i]
       /\ \A i \in 1 .. Len(e) : t[Len(a) + Len(b) + Len(c) + Len(d) + i] = e[i]
       /\ Len(t) = Len(a) + Len(b) + Len(c) + Len(d) + Len(e) /\ t \in Seq(S)
  BY <1>5, <1>11, <1>12, <1>13
<1>15. t \in Seq(S) /\ Joined(t, a, b, c, d, e)
  BY <1>9, <1>10, <1>14 DEF Joined
<1> QED BY <1>15 DEF t, r, q, p

-----------------------------------------------------------------------------
(* The locals of a directive after so many of its characters.              *)

\* How many characters of a directive are its flag, come before its size, and are all of it.
Flag(p)   == IF p.zero THEN 1 ELSE 0
Lead(p)   == 1 + Flag(p) + WidthLength(p.width)
EndOf(p)  == Lead(p) + Len(p.size) + 1
\* The locals by their values; Yes and No, IsFirst and HasZero are names for what the prover
\* is to take as values.
Locals(open, isFirst, dSize, zeroFill, width) ==
  [open |-> open, isFirst |-> isFirst, dSize |-> dSize, zeroFill |-> zeroFill, width |-> width]
Yes == TRUE
No  == FALSE
IsFirst(j)    == j = 1
HasZero(p, j) == p.zero /\ j > 1
\* The locals of p's directive after its first j characters.
After(p, j) ==
  Locals(Yes, IsFirst(j), SizeAt(p.size, IF j <= Lead(p) THEN 0 ELSE j - Lead(p)),
         HasZero(p, j), WidthAt(p.width, j - 1 - Flag(p)))

\* The fields of the locals.
LEMMA LocalsAre ==
  ASSUME NEW o, NEW a, NEW b, NEW c, NEW d, NEW q, q = Locals(o, a, b, c, d)
  PROVE  /\ q.open = o /\ q.isFirst = a /\ q.dSize = b /\ q.zeroFill = c /\ q.width = d
BY DEF Locals

\* Changing one of them.
LEMMA LocalsChange ==
  ASSUME NEW o, NEW a, NEW b, NEW c, NEW d, NEW x, NEW q, q = Locals(o, a, b, c, d)
  PROVE  /\ [q EXCEPT !.isFirst = x] = Locals(o, x, b, c, d)
         /\ [q EXCEPT !.dSize = x] = Locals(o, a, x, c, d)
         /\ [q EXCEPT !.zeroFill = x] = Locals(o, a, b, x, d)
         /\ [q EXCEPT !.width = x] = Locals(o, a, b, c, x)
<1>2. [q EXCEPT !.isFirst = x] = Locals(o, x, b, c, d)
  BY DEF Locals
<1>3. [q EXCEPT !.dSize = x] = Locals(o, a, x, c, d)
  BY DEF Locals
<1>4. [q EXCEPT !.zeroFill = x] = Locals(o, a, b, x, d)
  BY DEF Locals
<1>5. [q EXCEPT !.width = x] = Locals(o, a, b, c, x)
  BY DEF Locals
<1> QED BY <1>2, <1>3, <1>4, <1>5

\* After the last digit of the width the whole width is read.
LEMMA WidthWhole ==
  ASSUME NEW w \in 0 .. 99, NEW i \in Nat
  PROVE  WidthAt(w, WidthLength(w) + i) = w
<1>1. CASE w = 0
  BY <1>1 DEF WidthAt, WidthLength
<1>2. CASE w # 0 /\ w < 10
  BY <1>2 DEF WidthAt, WidthLength
<1>3. CASE w >= 10
  BY <1>3 DEF WidthAt, WidthLength
<1> QED BY <1>1, <1>2, <1>3

\* What a directive is made of.
LEMMA GoodDirective ==
  ASSUME NEW p, GoodPiece(p), p.kind # "plain"
  PROVE  /\ p.zero \in BOOLEAN /\ p.width \in 0 .. 99 /\ p.size \in Seq(SizeChars)
         /\ p.conv \in Letters /\ p.conv \notin SizeChars \cup DigitChars
<1>1. p.zero \in BOOLEAN /\ p.width \in 0 .. 99 /\ p.size \in Seq(SizeChars)
  BY DEF GoodPiece
<1>2. CASE p.kind = "percent" /\ p.conv = "%"
  BY <1>1, <1>2 DEF Letters, SizeChars, DigitChars
<1>3. CASE p.conv \in NumberChars
  BY <1>1, <1>3 DEF Letters, SizeChars, DigitChars, NumberChars
<1>4. CASE p.conv \in {"s", "c", "p"}
  BY <1>1, <1>4 DEF Letters, SizeChars, DigitChars
<1>5. CASE p.conv \in Char /\ p.conv \notin SizeChars \cup Range(Digits) \cup {"%", "p"}
  BY <1>1, <1>5, DigitsAre DEF Letters
<1> QED
  <2>1. \/ p.kind = "percent" /\ p.conv = "%"
        \/ p.conv \in NumberChars
        \/ p.conv \in {"s", "c", "p"}
        \/ p.conv \in Char /\ p.conv \notin SizeChars \cup Range(Digits) \cup {"%", "p"}
    BY DEF GoodPiece
  <2> QED BY <1>2, <1>3, <1>4, <1>5, <2>1

\* The characters of a directive and their places.
LEMMA DirectiveChars ==
  ASSUME NEW p, GoodPiece(p), p.kind # "plain"
  PROVE  /\ Chars(p) \in Seq(Letters) /\ Len(Chars(p)) = EndOf(p)
         /\ Flag(p) \in 0 .. 1 /\ WidthLength(p.width) \in 0 .. 2 /\ Lead(p) \in Nat /\ EndOf(p) \in Nat
         /\ Chars(p)[1] = "%"
         /\ p.zero => Chars(p)[2] = "0"
         /\ \A i \in 1 .. WidthLength(p.width) :
              Chars(p)[1 + Flag(p) + i] = WidthChars(p.width)[i]
         /\ \A i \in 1 .. Len(p.size) : Chars(p)[Lead(p) + i] = p.size[i]
         /\ Chars(p)[EndOf(p)] = p.conv
<1> DEFINE a == <<"%">>
           b == IF p.zero THEN <<"0">> ELSE <<>>
           c == WidthChars(p.width)
           d == p.size
           e == <<p.conv>>
           t == Chars(p)
<1>1. /\ p.zero \in BOOLEAN /\ p.width \in 0 .. 99 /\ p.size \in Seq(SizeChars)
      /\ p.conv \in Letters
  BY GoodDirective
<1>2. a \in Seq(Letters) /\ Len(a) = 1 /\ a[1] = "%"
  <2>1. "%" \in Letters
    BY DEF Letters
  <2> QED BY <2>1
<1>3. b \in Seq(Letters) /\ Len(b) = Flag(p) /\ (p.zero => b[1] = "0")
  <2>1. "0" \in Letters
    BY DEF Letters, DigitChars
  <2> QED BY <1>1, <2>1 DEF Flag
<1>4. c \in Seq(Letters) /\ Len(c) = WidthLength(p.width)
  <2>1. c \in Seq(DigitChars) /\ Len(c) = WidthLength(p.width)
    BY <1>1, WidthRead
  <2>2. DigitChars \subseteq Letters
    BY DEF Letters
  <2> QED BY <2>1, <2>2, SeqMonotonic
<1>5. d \in Seq(Letters) /\ Len(d) \in Nat
  <2>1. SizeChars \subseteq Letters
    BY DEF Letters
  <2> QED BY <1>1, <2>1, SeqMonotonic
<1>6. e \in Seq(Letters) /\ Len(e) = 1 /\ e[1] = p.conv
  BY <1>1
<1>7. t = a \o b \o c \o d \o e
  BY DEF Chars
<1>8. Flag(p) \in 0 .. 1 /\ WidthLength(p.width) \in 0 .. 2
  BY <1>1 DEF Flag, WidthLength
<1> HIDE DEF a, b, c, d, e, t
<1>9. /\ t \in Seq(Letters)
      /\ Len(t) = Len(a) + Len(b) + Len(c) + Len(d) + Len(e)
      /\ \A i \in 1 .. Len(a) : t[i] = a[i]
      /\ \A i \in 1 .. Len(b) : t[Len(a) + i] = b[i]
      /\ \A i \in 1 .. Len(c) : t[Len(a) + Len(b) + i] = c[i]
      /\ \A i \in 1 .. Len(d) : t[Len(a) + Len(b) + Len(c) + i] = d[i]
      /\ \A i \in 1 .. Len(e) : t[Len(a) + Len(b) + Len(c) + Len(d) + i] = e[i]
  <2>1. t \in Seq(Letters) /\ Joined(t, a, b, c, d, e)
    BY <1>2, <1>3, <1>4, <1>5, <1>6, <1>7, FiveParts
  <2> QED BY <2>1 DEF Joined
<1>10. Lead(p) = 1 + Flag(p) + Len(c) /\ EndOf(p) = Lead(p) + Len(d) + 1
       /\ Lead(p) \in Nat /\ EndOf(p) \in Nat
  BY <1>4, <1>5, <1>8 DEF Lead, EndOf, d
<1>11. t[1] = "%"
  BY <1>2, <1>9
<1>12. p.zero => t[2] = "0"
  <2> SUFFICES ASSUME p.zero PROVE t[2] = "0"
    OBVIOUS
  <2>1. Len(b) = 1 /\ b[1] = "0" /\ 1 + 1 = 2
    BY <1>3 DEF Flag
  <2> QED BY <1>2, <1>9, <2>1
<1>13. \A i \in 1 .. Len(c) : t[1 + Flag(p) + i] = c[i]
  BY <1>2, <1>3, <1>9
<1>14. \A i \in 1 .. Len(d) : t[Lead(p) + i] = d[i]
  BY <1>2, <1>3, <1>9, <1>10
<1>15. t[EndOf(p)] = p.conv /\ Len(t) = EndOf(p)
  <2>1. EndOf(p) = Len(a) + Len(b) + Len(c) + Len(d) + 1
    BY <1>2, <1>3, <1>10
  <2> QED BY <1>2, <1>3, <1>6, <1>9, <1>10, <2>1
<1> QED BY <1>4, <1>8, <1>9, <1>10, <1>11, <1>12, <1>13, <1>14, <1>15 DEF t, c, d

\* What the character after the first j of a directive is, and what it does to the locals.
ReadsZero(p, j) ==
  /\ Chars(p)[j + 1] = "0" /\ j = 1 /\ j + 1 < EndOf(p)
  /\ After(p, j + 1) = Locals(Yes, No, After(p, j).dSize, Yes, After(p, j).width)
ReadsWidth(p, j) ==
  /\ j + 1 < EndOf(p)
  /\ \E d \in 0 .. 9 :
       /\ Chars(p)[j + 1] = Digits[d + 1] /\ (d = 0 => j # 1)
       /\ After(p, j + 1)
          = Locals(Yes, No, After(p, j).dSize, After(p, j).zeroFill, After(p, j).width * 10 + d)
ReadsSize(p, j) ==
  /\ j + 1 < EndOf(p) /\ Chars(p)[j + 1] \in SizeChars
  /\ After(p, j + 1)
     = Locals(Yes, No, Modified(After(p, j).dSize, Chars(p)[j + 1]), After(p, j).zeroFill,
              After(p, j).width)
ReadsLast(p, j) ==
  /\ j + 1 = EndOf(p) /\ Chars(p)[j + 1] = p.conv
  /\ After(p, j).dSize = SizeOf(p) /\ After(p, j).width = p.width
  /\ After(p, j).zeroFill = p.zero

\* From any place in a directive the next character is the flag, a digit, a modifier or the conversion,
\* and does to the locals what is said above: nothing of a directive is read twice or left over.
LEMMA DirectiveReads ==
  ASSUME NEW p, GoodPiece(p), p.kind # "plain", NEW j \in 1 .. EndOf(p) - 1
  PROVE  /\ LET q == After(p, j)
            IN  q = Locals(Yes, IsFirst(j), q.dSize, q.zeroFill, q.width)
         /\ ReadsZero(p, j) \/ ReadsWidth(p, j) \/ ReadsSize(p, j) \/ ReadsLast(p, j)
<1>15. PICK k : k = j + 1
  OBVIOUS
<1> DEFINE c == Chars(p)[j + 1]
           q == After(p, j)
           r == After(p, k)
           f == Flag(p)
           w == WidthLength(p.width)
           m == Len(p.size)
<1>1. /\ p.zero \in BOOLEAN /\ p.width \in 0 .. 99 /\ p.size \in Seq(SizeChars)
  BY GoodDirective
<1>2. /\ f \in 0 .. 1 /\ w \in 0 .. 2 /\ m \in Nat /\ Lead(p) = 1 + f + w /\ EndOf(p) = Lead(p) + m + 1
  BY <1>1, DirectiveChars DEF Lead, EndOf
<1> DEFINE sq == SizeAt(p.size, IF j <= Lead(p) THEN 0 ELSE j - Lead(p))
           sr == SizeAt(p.size, IF k <= Lead(p) THEN 0 ELSE k - Lead(p))
           wq == WidthAt(p.width, j - 1 - f)
           wr == WidthAt(p.width, k - 1 - f)
<1>3. q = Locals(Yes, IsFirst(j), sq, HasZero(p, j), wq)
  BY DEF After
<1>12. r = Locals(Yes, IsFirst(k), sr, HasZero(p, k), wr)
  BY DEF After
<1>4. IsFirst(k) = No /\ HasZero(p, k) = p.zero
  BY <1>1, <1>15 DEF IsFirst, HasZero, No
<1>10. r = Locals(Yes, No, sr, p.zero, wr)
  <2> HIDE DEF r, sr, wr
  <2> QED BY <1>4, <1>12
<1>11. q.open = Yes /\ q.isFirst = IsFirst(j) /\ q.dSize = sq /\ q.zeroFill = HasZero(p, j) /\ q.width = wq
  <2> HIDE DEF q, sq, wq
  <2> QED BY <1>3, LocalsAre
<1>5. ASSUME p.zero, j = 1 PROVE ReadsZero(p, j)
  <2>1. f = 1
    BY <1>5 DEF Flag
  <2>2. c = "0"
    BY <1>5, DirectiveChars
  <2>3. j + 1 < EndOf(p)
    BY <1>2, <1>5, <2>1
  <2>4. j <= Lead(p) /\ k <= Lead(p)
    BY <1>2, <1>5, <1>15, <2>1
  <2>5. WidthAt(p.width, j - 1 - f) = 0 /\ WidthAt(p.width, k - 1 - f) = 0
    BY <1>5, <1>15, <2>1 DEF WidthAt
  <2>6. r = Locals(Yes, No, q.dSize, Yes, q.width)
    <3>1. sq = sr /\ wq = wr /\ p.zero = Yes
      BY <1>1, <1>5, <2>4, <2>5 DEF Yes
    <3> HIDE DEF q, r, sq, sr, wq, wr
    <3> QED BY <1>10, <1>11, <3>1, Zenon
  <2>7. ReadsZero(p, j)
    BY <1>5, <1>15, <2>2, <2>3, <2>6 DEF ReadsZero
  <2> QED BY <2>7, Zenon
<1>6. ASSUME ~(p.zero /\ j = 1), j < Lead(p) PROVE ReadsWidth(p, j)
  <2>1. PICK i \in 1 .. w : j + 1 = 1 + f + i /\ k - 1 - f = i /\ j - 1 - f = i - 1
    <3>1. j - f \in 1 .. w /\ j + 1 = 1 + f + (j - f) /\ k - 1 - f = j - f
          /\ j - 1 - f = (j - f) - 1
      BY <1>1, <1>2, <1>6, <1>15 DEF Flag
    <3> QED BY <3>1
  <2>2. c = WidthChars(p.width)[i]
    BY <2>1, DirectiveChars
  <2>3. PICK d \in 0 .. 9 : /\ WidthChars(p.width)[i] = Digits[d + 1] /\ (d = 0 => i # 1)
                            /\ WidthAt(p.width, i) = WidthAt(p.width, i - 1) * 10 + d
    BY <1>1, WidthRead
  <2>4. j + 1 < EndOf(p) /\ j <= Lead(p) /\ k <= Lead(p)
    BY <1>2, <1>6, <1>15
  <2>5. d = 0 => j # 1
    <3>1. j = 1 => f = 0
      BY <1>1, <1>6 DEF Flag
    <3> QED BY <2>1, <2>3, <3>1
  <2>6. HasZero(p, j) = p.zero
    BY <1>1, <1>6 DEF HasZero
  <2>7. r = Locals(Yes, No, q.dSize, q.zeroFill, q.width * 10 + d)
    <3>1. sq = sr /\ wr = wq * 10 + d
      BY <2>1, <2>3, <2>4
    <3> HIDE DEF q, r, sq, sr, wq, wr
    <3> QED BY <1>10, <1>11, <2>6, <3>1, Zenon
  <2>8. ReadsWidth(p, j)
    BY <1>15, <2>2, <2>3, <2>4, <2>5, <2>7 DEF ReadsWidth
  <2> QED BY <2>8, Zenon
<1>7. ASSUME j >= Lead(p), j + 1 < EndOf(p) PROVE ReadsSize(p, j)
  <2>0. ~(p.zero /\ j = 1)
    BY <1>2, <1>7 DEF Flag
  <2>1. PICK i \in 0 .. m - 1 : j = Lead(p) + i
    <3>1. j - Lead(p) \in 0 .. m - 1 /\ j = Lead(p) + (j - Lead(p))
      BY <1>2, <1>7
    <3> QED BY <3>1
  <2>2. c = p.size[i + 1] /\ c \in SizeChars
    <3>1. i + 1 \in 1 .. m /\ j + 1 = Lead(p) + (i + 1)
      BY <1>2, <2>1
    <3>2. c = p.size[i + 1]
      BY <3>1, DirectiveChars
    <3> QED BY <1>1, <3>1, <3>2
  <2>3. SizeAt(p.size, i + 1) = Modified(SizeAt(p.size, i), p.size[i + 1])
    BY <1>1, <2>1, SizeNext
  <2>4. /\ (IF j <= Lead(p) THEN 0 ELSE j - Lead(p)) = i
        /\ (IF k <= Lead(p) THEN 0 ELSE k - Lead(p)) = i + 1
    BY <1>2, <1>15, <2>1
  <2>5. WidthAt(p.width, j - 1 - f) = WidthAt(p.width, k - 1 - f)
    <3>1. j - 1 - f = w + i /\ k - 1 - f = w + i + 1
      BY <1>2, <1>15, <2>1
    <3>2. WidthAt(p.width, w + i) = p.width /\ WidthAt(p.width, w + (i + 1)) = p.width
      <4>1. i \in Nat /\ i + 1 \in Nat
        BY <1>2
      <4> QED BY <1>1, <4>1, WidthWhole
    <3>3. w + (i + 1) = w + i + 1
      BY <1>2
    <3> QED BY <3>1, <3>2, <3>3
  <2>6. HasZero(p, j) = p.zero
    BY <1>1, <2>0 DEF HasZero
  <2>7. r = Locals(Yes, No, Modified(q.dSize, c), q.zeroFill, q.width)
    <3>1. sr = Modified(sq, c) /\ wr = wq
      BY <2>2, <2>3, <2>4, <2>5
    <3> HIDE DEF q, r, sq, sr, wq, wr
    <3> QED BY <1>10, <1>11, <2>6, <3>1, Zenon
  <2>8. ReadsSize(p, j)
    BY <1>7, <1>15, <2>2, <2>7 DEF ReadsSize
  <2> QED BY <2>8, Zenon
<1>8. ASSUME j + 1 = EndOf(p) PROVE ReadsLast(p, j)
  <2>0. ~(p.zero /\ j = 1)
    BY <1>2, <1>8 DEF Flag
  <2>1. j = Lead(p) + m
    BY <1>2, <1>8
  <2>2. c = p.conv
    BY <1>8, DirectiveChars
  <2>3. (IF j <= Lead(p) THEN 0 ELSE j - Lead(p)) = m
    BY <1>2, <2>1
  <2>4. WidthAt(p.width, j - 1 - f) = p.width
    <3>1. j - 1 - f = w + m
      BY <1>2, <2>1
    <3>2. WidthAt(p.width, w + m) = p.width
      BY <1>1, <1>2, WidthWhole
    <3> QED BY <3>1, <3>2
  <2>5. HasZero(p, j) = p.zero
    BY <1>1, <2>0 DEF HasZero
  <2>6. q.dSize = SizeOf(p) /\ q.width = p.width /\ q.zeroFill = p.zero
    <3>1. sq = SizeOf(p) /\ wq = p.width
      BY <2>3, <2>4 DEF SizeOf
    <3> HIDE DEF q, sq, wq
    <3> QED BY <1>11, <2>5, <3>1, Zenon
  <2>7. ReadsLast(p, j)
    BY <1>8, <2>2, <2>6 DEF ReadsLast
  <2> QED BY <2>7, Zenon
<1>9. j < Lead(p) \/ (j >= Lead(p) /\ j + 1 < EndOf(p)) \/ j + 1 = EndOf(p)
  BY <1>2
<1>13. q = Locals(Yes, IsFirst(j), q.dSize, q.zeroFill, q.width)
  <2> HIDE DEF q, sq, wq
  <2> QED BY <1>3, <1>11
<1>14. ReadsZero(p, j) \/ ReadsWidth(p, j) \/ ReadsSize(p, j) \/ ReadsLast(p, j)
  BY <1>5, <1>6, <1>7, <1>8, <1>9, Zenon
<1> QED BY <1>13, <1>14, Zenon

-----------------------------------------------------------------------------
(* What is left of a sequence, and where a part of a flattened one is.     *)

Rest(s, n) == SubSeq(s, n + 1, Len(s))

\* What is left of s after its first n elements.
LEMMA RestIs ==
  ASSUME NEW S, NEW s \in Seq(S), NEW n \in 0 .. Len(s)
  PROVE  /\ Rest(s, n) \in Seq(S) /\ Len(Rest(s, n)) = Len(s) - n
         /\ \A i \in 1 .. Len(s) - n : Rest(s, n)[i] = s[n + i]
<1>0. Len(s) \in Nat
  OBVIOUS
<1>1. n + 1 \in 1 .. Len(s) + 1 /\ \A i \in n + 1 .. Len(s) : s[i] \in S
  OBVIOUS
<1>2. /\ Rest(s, n) \in Seq(S)
      /\ Len(Rest(s, n)) = IF n + 1 <= Len(s) THEN Len(s) - (n + 1) + 1 ELSE 0
      /\ \A i \in 1 .. Len(s) - (n + 1) + 1 : Rest(s, n)[i] = s[(n + 1) + i - 1]
  BY <1>1, SubSeqProperties DEF Rest
<1>3. /\ Len(s) - (n + 1) + 1 = Len(s) - n
      /\ (IF n + 1 <= Len(s) THEN Len(s) - (n + 1) + 1 ELSE 0) = Len(s) - n
  BY <1>0
<1>4. ASSUME NEW i \in 1 .. Len(s) - n PROVE Rest(s, n)[i] = s[n + i]
  <2>1. i \in 1 .. Len(s) - (n + 1) + 1 /\ (n + 1) + i - 1 = n + i
    BY <1>0
  <2>2. Rest(s, n)[i] = s[(n + 1) + i - 1]
    BY <1>2, <2>1
  <2> QED BY <2>1, <2>2
<1>5. Rest(s, n) \in Seq(S) /\ Len(Rest(s, n)) = Len(s) - n
  BY <1>2, <1>3
<1> QED BY <1>4, <1>5

\* Taking the head away leaves one less.
LEMMA RestOf ==
  ASSUME NEW S, NEW s \in Seq(S)
  PROVE  /\ Rest(s, 0) = s /\ Rest(s, Len(s)) = <<>>
         /\ \A n \in 0 .. Len(s) - 1 : /\ Rest(s, n) # <<>> /\ Head(Rest(s, n)) = s[n + 1]
                                       /\ Tail(Rest(s, n)) = Rest(s, n + 1)
<1>1. Len(s) \in Nat
  OBVIOUS
<1>2. ASSUME NEW n \in 0 .. Len(s)
      PROVE  /\ Rest(s, n) \in Seq(S) /\ Len(Rest(s, n)) = Len(s) - n
             /\ \A i \in 1 .. Len(s) - n : Rest(s, n)[i] = s[n + i]
  BY RestIs
<1>3. Rest(s, 0) = s
  <2>1. 0 \in 0 .. Len(s) /\ Len(s) - 0 = Len(s) /\ \A i \in Nat : 0 + i = i
    BY <1>1
  <2>2. Rest(s, 0) \in Seq(S) /\ Len(Rest(s, 0)) = Len(s)
        /\ \A i \in 1 .. Len(s) : Rest(s, 0)[i] = s[i]
    <3>1. Rest(s, 0) \in Seq(S) /\ Len(Rest(s, 0)) = Len(s)
      BY <1>2, <2>1
    <3>2. ASSUME NEW i \in 1 .. Len(s) PROVE Rest(s, 0)[i] = s[i]
      <4>1. i \in 1 .. Len(s) - 0 /\ 0 + i = i
        BY <1>1
      <4>2. Rest(s, 0)[i] = s[0 + i]
        BY <1>2, <2>1, <4>1
      <4> QED BY <4>1, <4>2
    <3> QED BY <3>1, <3>2
  <2> QED BY <2>2, SeqEqual
<1>4. Rest(s, Len(s)) = <<>>
  <2>1. Len(s) \in 0 .. Len(s) /\ Len(s) - Len(s) = 0
    BY <1>1
  <2>2. Rest(s, Len(s)) \in Seq(S) /\ Len(Rest(s, Len(s))) = 0
    BY <1>2, <2>1
  <2> QED BY <2>2
<1>5. ASSUME NEW n \in 0 .. Len(s) - 1
      PROVE  /\ Rest(s, n) # <<>> /\ Head(Rest(s, n)) = s[n + 1]
             /\ Tail(Rest(s, n)) = Rest(s, n + 1)
  <2> DEFINE r == Rest(s, n)
             q == Rest(s, n + 1)
  <2>1. /\ r \in Seq(S) /\ Len(r) = Len(s) - n /\ \A i \in 1 .. Len(s) - n : r[i] = s[n + i]
    <3>1. n \in 0 .. Len(s)
      BY <1>1
    <3> QED BY <1>2, <3>1
  <2>2. /\ q \in Seq(S) /\ Len(q) = Len(s) - (n + 1)
        /\ \A i \in 1 .. Len(s) - (n + 1) : q[i] = s[(n + 1) + i]
    <3>1. n + 1 \in 0 .. Len(s)
      BY <1>1
    <3> QED BY <1>2, <3>1
  <2> HIDE DEF r, q
  <2>3. Len(r) > 0 /\ 1 \in 1 .. Len(s) - n
    BY <1>1, <2>1
  <2>4. r # <<>> /\ Head(r) = s[n + 1]
    BY <2>1, <2>3
  <2>5. /\ Tail(r) \in Seq(S) /\ Len(Tail(r)) = Len(r) - 1
        /\ \A i \in 1 .. Len(Tail(r)) : Tail(r)[i] = r[i + 1]
    BY <2>1, <2>4, HeadTailProperties
  <2>6. Len(Tail(r)) = Len(q)
    BY <1>1, <2>1, <2>2, <2>5
  <2>7. \A i \in 1 .. Len(Tail(r)) : Tail(r)[i] = q[i]
    <3> SUFFICES ASSUME NEW i \in 1 .. Len(Tail(r)) PROVE Tail(r)[i] = q[i]
      OBVIOUS
    <3>1. PICK m \in 1 .. Len(s) - n : m = i + 1 /\ n + m = (n + 1) + i
      <4>1. i + 1 \in 1 .. Len(s) - n /\ n + (i + 1) = (n + 1) + i
        BY <1>1, <2>1, <2>5
      <4> QED BY <4>1
    <3>2. i \in 1 .. Len(s) - (n + 1)
      BY <2>2, <2>6
    <3>3. Tail(r)[i] = r[m] /\ r[m] = s[n + m] /\ q[i] = s[(n + 1) + i]
      BY <2>1, <2>2, <2>5, <3>1, <3>2
    <3> QED BY <3>1, <3>3
  <2>8. Tail(r) = q
    BY <2>2, <2>5, <2>6, <2>7, SeqEqual
  <2> QED BY <2>4, <2>8 DEF r, q
<1> QED BY <1>3, <1>4, <1>5

\* Taking t more away.
LEMMA RestOfRest ==
  ASSUME NEW S, NEW s \in Seq(S), NEW n \in Nat, NEW t \in Nat, n + t <= Len(s)
  PROVE  SubSeq(Rest(s, n), t + 1, Len(Rest(s, n))) = Rest(s, n + t)
<1>0. Len(s) \in Nat
  OBVIOUS
<1> DEFINE r == Rest(s, n)
           q == Rest(s, n + t)
           u == SubSeq(r, t + 1, Len(r))
<1>1. /\ r \in Seq(S) /\ Len(r) = Len(s) - n /\ \A i \in 1 .. Len(s) - n : r[i] = s[n + i]
  <2>1. n \in 0 .. Len(s)
    BY <1>0
  <2> QED BY RestIs, <2>1
<1>2. /\ q \in Seq(S) /\ Len(q) = Len(s) - (n + t)
      /\ \A i \in 1 .. Len(s) - (n + t) : q[i] = s[(n + t) + i]
  <2>1. n + t \in 0 .. Len(s)
    BY <1>0
  <2> QED BY RestIs, <2>1
<1> HIDE DEF r, q
<1>3. Len(r) \in Nat /\ t + 1 \in 1 .. Len(r) + 1 /\ \A i \in t + 1 .. Len(r) : r[i] \in S
  BY <1>0, <1>1
<1>4. /\ u \in Seq(S)
      /\ Len(u) = IF t + 1 <= Len(r) THEN Len(r) - (t + 1) + 1 ELSE 0
      /\ \A i \in 1 .. Len(r) - (t + 1) + 1 : u[i] = r[(t + 1) + i - 1]
  BY <1>1, <1>3, SubSeqProperties
<1> HIDE DEF u
<1>5. Len(u) = Len(q) /\ Len(q) = Len(r) - (t + 1) + 1
  BY <1>0, <1>1, <1>2, <1>4
<1>6. \A i \in 1 .. Len(u) : u[i] = q[i]
  <2> SUFFICES ASSUME NEW i \in 1 .. Len(u) PROVE u[i] = q[i]
    OBVIOUS
  <2>1. i \in 1 .. Len(s) - (n + t) /\ i \in 1 .. Len(r) - (t + 1) + 1
    BY <1>2, <1>5
  <2>2. PICK m \in 1 .. Len(s) - n : m = (t + 1) + i - 1 /\ n + m = (n + t) + i
    <3>1. (t + 1) + i - 1 \in 1 .. Len(s) - n /\ n + ((t + 1) + i - 1) = (n + t) + i
      BY <1>0, <2>1
    <3> QED BY <3>1
  <2>3. u[i] = r[m] /\ r[m] = s[n + m] /\ q[i] = s[(n + t) + i]
    BY <1>1, <1>2, <1>4, <2>1, <2>2
  <2> QED BY <2>2, <2>3
<1>7. u = q
  BY <1>2, <1>4, <1>5, <1>6, SeqEqual
<1> QED BY <1>7 DEF u, r, q

\* The place of the sequence after the first k, in all of them.
PlacedAt(w, e, k) ==
  LET L == Len(Firsts(e, k))
  IN  /\ L \in Nat /\ Len(e[k + 1]) \in Nat /\ L + Len(e[k + 1]) <= Len(w)
      /\ Len(Firsts(e, k + 1)) = L + Len(e[k + 1])
      /\ \A j \in 1 .. Len(e[k + 1]) : w[L + j] = e[k + 1][j]

\* A part of a flattened sequence is where the parts before it end.
LEMMA Placed ==
  ASSUME NEW S, NEW n \in Nat, NEW e \in [1 .. n -> Seq(S)], NEW k \in 0 .. n - 1
  PROVE  PlacedAt(FlattenSeq(e), e, k)
<1>1. /\ \A i \in 0 .. n : Firsts(e, i) \in Seq(S)
      /\ \A i \in 0 .. n - 1 : Firsts(e, i + 1) = Firsts(e, i) \o e[i + 1]
      /\ FlattenSeq(e) = Firsts(e, n)
  BY FrontNext, FrontWhole
<1> DEFINE F(i) == Firsts(e, i)
           c == e[k + 1]
           L == Len(F(k))
<1>2. k \in 0 .. n /\ k + 1 \in 1 .. n /\ k + 1 \in 0 .. n
  OBVIOUS
<1>3. c \in Seq(S) /\ Len(c) \in Nat /\ F(k) \in Seq(S) /\ L \in Nat /\ F(k + 1) = F(k) \o c
  BY <1>1, <1>2
<1>4. ASSUME NEW x \in Seq(S), NEW y \in Seq(S)
      PROVE  /\ Len(x \o y) = Len(x) + Len(y) /\ Len(x) \in Nat /\ Len(y) \in Nat
             /\ \A i \in 1 .. Len(x) : (x \o y)[i] = x[i]
             /\ \A i \in 1 .. Len(y) : (x \o y)[Len(x) + i] = y[i]
  <2>1. /\ x \o y \in Seq(S) /\ Len(x \o y) = Len(x) + Len(y)
        /\ Len(x) \in Nat /\ Len(y) \in Nat
    OBVIOUS
  <2>2. \A i \in 1 .. Len(x) + Len(y) : (x \o y)[i] = IF i <= Len(x) THEN x[i] ELSE y[i - Len(x)]
    BY ConcatProperties
  <2>3. ASSUME NEW i \in 1 .. Len(y) PROVE (x \o y)[Len(x) + i] = y[i]
    <3>1. Len(x) + i \in 1 .. Len(x) + Len(y) /\ ~(Len(x) + i <= Len(x)) /\ (Len(x) + i) - Len(x) = i
      BY <2>1
    <3> QED BY <2>2, <3>1
  <2> QED BY <2>1, <2>2, <2>3
<1>5. Len(F(k + 1)) = L + Len(c) /\ \A j \in 1 .. Len(c) : F(k + 1)[L + j] = c[j]
  <2> HIDE DEF F, c
  <2> QED BY <1>3, <1>4
<1> DEFINE Good(s) == L + Len(c) <= Len(s) /\ \A j \in 1 .. Len(c) : s[L + j] = c[j]
           T == {i \in 0 .. n : i <= k \/ Good(F(i))}
<1>6. 0 \in T
  BY <1>2
<1>7. ASSUME NEW i \in 0 .. n - 1, i \in T PROVE i + 1 \in T
  <2>1. i \in 0 .. n /\ i + 1 \in 0 .. n /\ i + 1 \in 1 .. n
    OBVIOUS
  <2>2. CASE i < k
    BY <2>1, <2>2
  <2>3. CASE i = k
    <3>1. Good(F(k + 1))
      <4> HIDE DEF F, c
      <4> QED BY <1>3, <1>5
    <3> QED BY <2>1, <2>3, <3>1
  <2>4. CASE i > k
    <3>1. Good(F(i))
      BY <1>2, <1>7, <2>4
    <3>2. F(i) \in Seq(S) /\ e[i + 1] \in Seq(S) /\ F(i + 1) = F(i) \o e[i + 1]
      BY <1>1, <2>1
    <3> DEFINE d == e[i + 1]
               x == F(i)
               y == F(i + 1)
    <3> HIDE DEF F, c, d, x, y, L, T, Good
    <3>3. /\ Len(y) = Len(x) + Len(d) /\ Len(x) \in Nat /\ Len(d) \in Nat
          /\ \A m \in 1 .. Len(x) : y[m] = x[m]
      BY <1>4, <3>2 DEF d, x, y
    <3>4. L + Len(c) <= Len(x) /\ \A j \in 1 .. Len(c) : x[L + j] = c[j]
      BY <3>1 DEF Good, x
    <3>5. \A j \in 1 .. Len(c) : L + j \in 1 .. Len(x)
      BY <1>3, <3>3, <3>4
    <3>6. Good(y)
      BY <1>3, <3>3, <3>4, <3>5 DEF Good
    <3> QED BY <2>1, <3>6 DEF T, y
  <2> QED BY <1>2, <2>1, <2>2, <2>3, <2>4
<1>8. n \in T
  <2> HIDE DEF T
  <2>1. \A i \in 0 .. n : i \in T
    BY <1>6, <1>7, NumbersFrom
  <2> QED BY <2>1
<1>9. Good(F(n))
  BY <1>2, <1>8
<1> QED BY <1>1, <1>3, <1>5, <1>9 DEF PlacedAt

-----------------------------------------------------------------------------
(* What a piece means, and what its conversion prints.                     *)

\* The parts of a number's text.
SignOf(v)      == IF v < 0 THEN <<"-">> ELSE <<>>
AbsOf(v)       == IF v < 0 THEN -v ELSE v
PadOf(z)       == IF z THEN "0" ELSE Space
PointerText(v) == InFours(Numeral(v, TRUE, 16, PointerDigits, "0"))
NumberText(v, isUpper, base, width, zeroFill) ==
  SignOf(v) \o Numeral(AbsOf(v), isUpper, base, width, PadOf(zeroFill))

\* print_number prints the sign and the numeral of the magnitude.
LEMMA NumberPrinted ==
  ASSUME NEW v \in Int, Fits(v), NEW base \in Bases, NEW isUpper \in BOOLEAN,
         NEW zeroFill \in BOOLEAN, NEW width \in Nat
  PROVE  /\ NumberText(v, isUpper, base, width, zeroFill) \in Seq(Char)
         /\ print_number(v, isUpper, base, width, FALSE, zeroFill)
            = NumberText(v, isUpper, base, width, zeroFill)
<1> DEFINE a == AbsOf(v)
           s == Numeral(a, isUpper, base, width, PadOf(zeroFill))
           t == print_number_(a, isUpper, base, width, FALSE, zeroFill)
<1>1. a \in Nat /\ a = Magnitude(v)
  BY DEF AbsOf, Magnitude
<1>2. \E k \in 1 .. 32 : a < Power(base, k)
  BY <1>1 DEF Fits, Bases
<1> HIDE DEF a
<1> DEFINE pad == IF zeroFill THEN "0" ELSE Space
<1>3. /\ Numeral(a, isUpper, base, width, pad) \in Seq(Char)
      /\ t = Numeral(a, isUpper, base, width, pad)
  <2>1. a \in Nat
    BY <1>1
  <2>2. Numeral(a, isUpper, base, width, pad) \in Seq(Char)
    BY <1>2, <2>1, NumeralPrinted
  <2>3. t = Numeral(a, isUpper, base, width, pad)
    BY <1>2, <2>1, NumeralPrinted
  <2> QED BY <2>2, <2>3
<1>4. s \in Seq(Char) /\ t = s
  <2>1. PadOf(zeroFill) = pad
    BY DEF PadOf
  <2> HIDE DEF pad, t
  <2> QED BY <1>3, <2>1
<1>5. SignOf(v) \in Seq(Char)
  BY OvprintfAssumption DEF SignOf
<1>6. print_number(v, isUpper, base, width, FALSE, zeroFill) = SignOf(v) \o t
  BY DEF print_number, SignOf, AbsOf, a
<1>7. NumberText(v, isUpper, base, width, zeroFill) = SignOf(v) \o s
  BY DEF NumberText, a
<1> HIDE DEF s, t
<1>8. SignOf(v) \o s \in Seq(Char)
  BY <1>4, <1>5
<1> QED BY <1>4, <1>6, <1>7, <1>8

\* A pointer is printed with all its digits, in groups of four.
LEMMA PointerPrinted ==
  ASSUME NEW v \in Nat, Fits(v)
  PROVE  /\ PointerText(v) \in Seq(Char)
         /\ print_number(v, TRUE, 16, PointerDigits, TRUE, TRUE) = PointerText(v)
<1> DEFINE n == PointerDigits
<1>1. n \in Nat
  BY OvprintfAssumption DEF PointerDigits
<1>2. \E k \in 1 .. 32 : v < Power(16, k)
  BY DEF Fits, Magnitude
<1> HIDE DEF n
<1>3. /\ InFours(Numeral(v, TRUE, 16, n, "0")) \in Seq(Char)
      /\ print_number_(v, TRUE, 16, n, TRUE, TRUE) = InFours(Numeral(v, TRUE, 16, n, "0"))
  <2>1. \A base \in Bases : \A isUpper, zeroFill \in BOOLEAN :
          (\E k \in 1 .. 32 : v < Power(base, k)) =>
          LET pad == IF zeroFill THEN "0" ELSE Space
              s == Numeral(v, isUpper, base, n, pad)
          IN  /\ InFours(s) \in Seq(Char)
              /\ print_number_(v, isUpper, base, n, TRUE, zeroFill) = InFours(s)
    BY <1>1, NumeralPrinted
  <2>2. 16 \in Bases
    BY DEF Bases
  <2> QED BY <1>2, <2>1, <2>2
<1>4. print_number(v, TRUE, 16, n, TRUE, TRUE) = <<>> \o print_number_(v, TRUE, 16, n, TRUE, TRUE)
  <2>1. ASSUME NEW u, NEW b, NEW w, NEW x, NEW y
        PROVE  print_number(v, u, b, w, x, y) = <<>> \o print_number_(v, u, b, w, x, y)
    <3>1. ~(v < 0)
      OBVIOUS
    <3> QED BY <3>1, Zenon DEF print_number
  <2> QED BY <2>1, Zenon
<1> DEFINE s == InFours(Numeral(v, TRUE, 16, n, "0"))
           t == print_number_(v, TRUE, 16, n, TRUE, TRUE)
<1>5. PointerText(v) = s
  BY DEF PointerText, n
<1> HIDE DEF s
<1>6. <<>> \o s = s
  BY <1>3 DEF s
<1> QED BY <1>3, <1>4, <1>5, <1>6 DEF s, n

\* The parts of a conversion.
IsUpper(c) == c = "X"
BaseOf(c)  == CASE c \in {"d", "i", "u"} -> 10 [] c = "o" -> 8 [] c \in {"x", "X"} -> 16
Spaces(n)  == [i \in 1 .. n |-> Space]

\* A padding of a negative length is empty.
LEMMA SpacesAre ==
  ASSUME NEW w \in Nat, NEW n \in Nat
  PROVE  Spaces(w - n) \in Seq(Char) /\ Spaces(w - n) = Spaces(Pad(w, n))
<1>1. Space \in Char
  BY OvprintfAssumption
<1>2. Pad(w, n) \in Nat
  BY DEF Pad
<1>3. 1 .. w - n = 1 .. Pad(w, n)
  BY DEF Pad
<1>4. Spaces(w - n) = Spaces(Pad(w, n))
  BY <1>3 DEF Spaces
<1>5. Spaces(Pad(w, n)) \in Seq(Char)
  <2> DEFINE m == Pad(w, n)
  <2> HIDE DEF m
  <2>1. m \in Nat
    BY <1>2 DEF m
  <2>2. [i \in 1 .. m |-> Space] \in Seq(Char)
    BY <1>1, <2>1
  <2> QED BY <2>2 DEF Spaces, m
<1> QED BY <1>4, <1>5

\* The conversions' bases.
LEMMA Bases16 ==
  ASSUME NEW c \in NumberChars
  PROVE  /\ BaseOf(c) \in Bases
         /\ (CASE c = "o" -> 8 [] c \in {"x", "X"} -> 16 [] OTHER -> 10) = BaseOf(c)
<1>1. c = "d" \/ c = "i" \/ c = "u" \/ c = "o" \/ c = "x" \/ c = "X"
  BY DEF NumberChars
<1>2. CASE c = "d"
  BY <1>2 DEF BaseOf, Bases
<1>3. CASE c = "i"
  BY <1>3 DEF BaseOf, Bases
<1>4. CASE c = "u"
  BY <1>4 DEF BaseOf, Bases
<1>5. CASE c = "o"
  BY <1>5 DEF BaseOf, Bases
<1>6. CASE c = "x"
  BY <1>6 DEF BaseOf, Bases
<1>7. CASE c = "X"
  BY <1>7 DEF BaseOf, Bases
<1> QED BY <1>1, <1>2, <1>3, <1>4, <1>5, <1>6, <1>7

\* What a number means.
LEMMA NumberMeans ==
  ASSUME NEW p, p.kind = "number", p.conv \in NumberChars
  PROVE  /\ Meaning(p) = NumberText(p.num, IsUpper(p.conv), BaseOf(p.conv), p.width, p.zero)
         /\ Unpadded(p) = Meaning(p) /\ Argument(p) = <<p>>
<1> DEFINE b == CASE p.conv = "o" -> 8 [] p.conv \in {"x", "X"} -> 16 [] OTHER -> 10
<1>1. b = BaseOf(p.conv)
  BY Bases16
<1>2. Meaning(p) = (IF p.num < 0 THEN <<"-">> ELSE <<>>)
         \o Numeral(IF p.num < 0 THEN -p.num ELSE p.num, p.conv = "X", b, p.width,
                    IF p.zero THEN "0" ELSE Space)
  BY DEF Meaning
<1> HIDE DEF b
<1>3. Meaning(p) = NumberText(p.num, IsUpper(p.conv), b, p.width, p.zero)
  BY <1>2, Zenon DEF NumberText, SignOf, AbsOf, PadOf, IsUpper
<1>4. Unpadded(p) = Meaning(p) /\ Argument(p) = <<p>>
  BY DEF Unpadded, Argument
<1> QED BY <1>1, <1>3, <1>4, Zenon

\* What the other pieces mean.
LEMMA OthersMean ==
  ASSUME NEW p
  PROVE  /\ p.kind = "plain" =>
              Meaning(p) = <<p.char>> /\ Unpadded(p) = <<p.char>> /\ Argument(p) = <<>>
         /\ p.kind = "percent" =>
              Meaning(p) = <<"%">> /\ Unpadded(p) = <<"%">> /\ Argument(p) = <<>>
         /\ p.kind = "string" =>
              /\ Meaning(p) = Spaces(Pad(p.width, Len(p.str))) \o p.str
              /\ Unpadded(p) = p.str /\ Argument(p) = <<p>>
         /\ p.kind = "char" =>
              Meaning(p) = <<p.chr>> /\ Unpadded(p) = <<p.chr>> /\ Argument(p) = <<p>>
         /\ p.kind = "pointer" =>
              /\ Meaning(p) = PointerText(p.num) /\ Unpadded(p) = Meaning(p)
              /\ Argument(p) = <<p>>
         /\ p.kind = "nothing" =>
              Meaning(p) = <<>> /\ Unpadded(p) = <<>> /\ Argument(p) = <<>>
<1>1. CASE p.kind = "plain"
  BY <1>1 DEF Meaning, Unpadded, Argument
<1>2. CASE p.kind = "percent"
  BY <1>2 DEF Meaning, Unpadded, Argument
<1>3. CASE p.kind = "string"
  BY <1>3 DEF Meaning, Unpadded, Argument, Spaces
<1>4. CASE p.kind = "char"
  BY <1>4 DEF Meaning, Unpadded, Argument
<1>5. CASE p.kind = "pointer"
  <2>1. Meaning(p) = PointerText(p.num)
    <3>1. Meaning(p) = InFours(Numeral(p.num, TRUE, 16, PointerDigits, "0"))
      BY <1>5 DEF Meaning
    <3> QED BY <3>1, Zenon DEF PointerText
  <2>2. Unpadded(p) = Meaning(p) /\ Argument(p) = <<p>>
    BY <1>5 DEF Unpadded, Argument
  <2> QED BY <1>5, <2>1, <2>2
<1>6. CASE p.kind = "nothing"
  BY <1>6 DEF Meaning, Unpadded, Argument
<1> QED BY <1>1, <1>2, <1>3, <1>4, <1>5, <1>6

\* What is printed and counted of a piece are characters, and it takes at most its own argument.
LEMMA PieceMeans ==
  ASSUME NEW p, GoodPiece(p)
  PROVE  /\ Meaning(p) \in Seq(Char) /\ Unpadded(p) \in Seq(Char)
         /\ Argument(p) = <<>> \/ Argument(p) = <<p>>
         /\ Chars(p) \in Seq(Letters)
         /\ p.kind = "plain" => Chars(p) = <<p.char>> /\ p.char \in Char \ {"%"}
<1>1. CASE p.kind = "plain" /\ p.char \in Char \ {"%"}
  <2>1. Chars(p) = <<p.char>> /\ p.char \in Letters /\ p.char \in Char
    BY <1>1 DEF Chars, Letters
  <2>2. Meaning(p) = <<p.char>> /\ Unpadded(p) = <<p.char>> /\ Argument(p) = <<>>
    BY <1>1, OthersMean, Zenon
  <2> QED BY <1>1, <2>1, <2>2
<1>2. CASE p.kind # "plain"
  <2>1. Chars(p) \in Seq(Letters)
    BY <1>2, DirectiveChars
  <2>2. p.width \in 0 .. 99 /\ p.zero \in BOOLEAN
    BY <1>2, GoodDirective
  <2>3. CASE p.kind = "percent"
    <3>1. Meaning(p) = <<"%">> /\ Unpadded(p) = <<"%">> /\ Argument(p) = <<>>
      BY <2>3, OthersMean, Zenon
    <3> QED BY <1>2, <2>1, <3>1, OvprintfAssumption
  <2>4. CASE p.kind = "number" /\ p.conv \in NumberChars /\ p.num \in Int /\ Fits(p.num)
    <3>1. BaseOf(p.conv) \in Bases /\ IsUpper(p.conv) \in BOOLEAN
      BY <2>4, Bases16 DEF IsUpper
    <3> DEFINE b == BaseOf(p.conv)
               u == IsUpper(p.conv)
    <3> HIDE DEF b, u
    <3>2. b \in Bases /\ u \in BOOLEAN /\ p.width \in Nat
      BY <2>2, <3>1 DEF b, u
    <3>3. NumberText(p.num, u, b, p.width, p.zero) \in Seq(Char)
      BY <2>2, <2>4, <3>2, NumberPrinted
    <3>4. Meaning(p) \in Seq(Char)
      BY <2>4, <3>3, NumberMeans DEF b, u
    <3> QED BY <1>2, <2>1, <2>4, <3>4, NumberMeans
  <2>5. CASE p.kind = "string" /\ p.str \in Seq(Char)
    <3>1. Spaces(Pad(p.width, Len(p.str))) \in Seq(Char)
      <4>1. p.width \in Nat /\ Len(p.str) \in Nat
        <5> DEFINE t == p.str
        <5>1. t \in Seq(Char)
          BY <2>5
        <5> HIDE DEF t
        <5>2. Len(t) \in Nat
          BY <5>1
        <5>3. p.width \in Nat
          BY <2>2
        <5> QED BY <5>2, <5>3, Zenon DEF t
      <4>2. \A w, n \in Nat : Spaces(Pad(w, n)) \in Seq(Char)
        <5>1. ASSUME NEW w \in Nat, NEW n \in Nat PROVE Spaces(Pad(w, n)) \in Seq(Char)
          BY SpacesAre
        <5> QED BY <5>1
      <4> QED BY <4>1, <4>2
    <3>2. Spaces(Pad(p.width, Len(p.str))) \o p.str \in Seq(Char)
      BY <2>5, <3>1
    <3>3. /\ Meaning(p) = Spaces(Pad(p.width, Len(p.str))) \o p.str
          /\ Unpadded(p) = p.str /\ Argument(p) = <<p>>
      BY <2>5, OthersMean, Zenon
    <3>4. Meaning(p) \in Seq(Char) /\ Unpadded(p) \in Seq(Char)
      BY <2>5, <3>2, <3>3, Zenon
    <3> QED BY <1>2, <2>1, <3>3, <3>4
  <2>6. CASE p.kind = "char" /\ p.chr \in Char
    <3>1. Meaning(p) = <<p.chr>> /\ Unpadded(p) = <<p.chr>> /\ Argument(p) = <<p>>
      BY <2>6, OthersMean, Zenon
    <3> QED BY <1>2, <2>1, <2>6, <3>1
  <2>7. CASE p.kind = "pointer" /\ p.num \in Nat /\ Fits(p.num)
    <3>1. PointerText(p.num) \in Seq(Char)
      BY <2>7, PointerPrinted
    <3>2. Meaning(p) = PointerText(p.num) /\ Unpadded(p) = Meaning(p) /\ Argument(p) = <<p>>
      BY <2>7, OthersMean, Zenon
    <3> QED BY <1>2, <2>1, <3>1, <3>2
  <2>8. CASE p.kind = "nothing"
    <3>1. Meaning(p) = <<>> /\ Unpadded(p) = <<>> /\ Argument(p) = <<>>
      BY <2>8, OthersMean, Zenon
    <3> QED BY <1>2, <2>1, <3>1
  <2> QED BY <1>2, <2>3, <2>4, <2>5, <2>6, <2>7, <2>8 DEF GoodPiece
<1> QED BY <1>1, <1>2 DEF GoodPiece

-----------------------------------------------------------------------------
(* A call, piece by piece.                                                 *)

Texts(c)   == [i \in DOMAIN c |-> Chars(c[i])]
Given(c)   == [i \in DOMAIN c |-> Argument(c[i])]
Printed(c) == [i \in DOMAIN c |-> Meaning(c[i])]
Counted(c) == [i \in DOMAIN c |-> Unpadded(c[i])]

\* All of a call's format and arguments, and how much of each its first k pieces are.
TextOf(c)  == FlattenSeq(Texts(c))
GivenOf(c) == FlattenSeq(Given(c))
TextTo(c, k)    == Len(Firsts(Texts(c), k))
GivenTo(c, k)   == Len(Firsts(Given(c), k))
PrintedTo(c, k) == Firsts(Printed(c), k)
CountedTo(c, k) == Len(Firsts(Counted(c), k))

\* The parts of a call, one for each piece.
LEMMA CallParts ==
  ASSUME NEW c \in Seq(Pieces)
  PROVE  /\ Len(c) \in Nat
         /\ \A i \in 1 .. Len(c) : GoodPiece(c[i])
         /\ Texts(c) \in [1 .. Len(c) -> Seq(Letters)]
         /\ Given(c) \in [1 .. Len(c) -> Seq(Pieces)]
         /\ Printed(c) \in [1 .. Len(c) -> Seq(Char)]
         /\ Counted(c) \in [1 .. Len(c) -> Seq(Char)]
         /\ \A i \in 1 .. Len(c) : /\ Texts(c)[i] = Chars(c[i]) /\ Given(c)[i] = Argument(c[i])
                                   /\ Printed(c)[i] = Meaning(c[i])
                                   /\ Counted(c)[i] = Unpadded(c[i])
<1>1. Len(c) \in Nat /\ DOMAIN c = 1 .. Len(c) /\ \A i \in 1 .. Len(c) : c[i] \in Pieces
  OBVIOUS
<1>2. \A i \in 1 .. Len(c) : GoodPiece(c[i])
  BY <1>1, OvprintfAssumption
<1>3. ASSUME NEW i \in 1 .. Len(c)
      PROVE  /\ Chars(c[i]) \in Seq(Letters) /\ Argument(c[i]) \in Seq(Pieces)
             /\ Meaning(c[i]) \in Seq(Char) /\ Unpadded(c[i]) \in Seq(Char)
  <2> DEFINE p == c[i]
  <2>1. GoodPiece(p) /\ p \in Pieces
    BY <1>1, <1>2
  <2> HIDE DEF p
  <2>2. /\ Chars(p) \in Seq(Letters) /\ Meaning(p) \in Seq(Char) /\ Unpadded(p) \in Seq(Char)
        /\ Argument(p) = <<>> \/ Argument(p) = <<p>>
    BY <2>1, PieceMeans
  <2>3. Argument(p) \in Seq(Pieces)
    <3>1. <<>> \in Seq(Pieces) /\ <<p>> \in Seq(Pieces)
      BY <2>1
    <3> QED BY <2>2, <3>1
  <2> QED BY <2>2, <2>3 DEF p
<1>4. Texts(c) \in [1 .. Len(c) -> Seq(Letters)]
  BY <1>1, <1>3 DEF Texts
<1>5. Given(c) \in [1 .. Len(c) -> Seq(Pieces)]
  BY <1>1, <1>3 DEF Given
<1>6. Printed(c) \in [1 .. Len(c) -> Seq(Char)]
  BY <1>1, <1>3 DEF Printed
<1>7. Counted(c) \in [1 .. Len(c) -> Seq(Char)]
  BY <1>1, <1>3 DEF Counted
<1>8. \A i \in 1 .. Len(c) : /\ Texts(c)[i] = Chars(c[i]) /\ Given(c)[i] = Argument(c[i])
                             /\ Printed(c)[i] = Meaning(c[i])
                             /\ Counted(c)[i] = Unpadded(c[i])
  BY <1>1 DEF Texts, Given, Printed, Counted
<1> QED BY <1>1, <1>2, <1>4, <1>5, <1>6, <1>7, <1>8

\* Nothing of a call is printed before its first piece, all of it after the last.
LEMMA CallEnds ==
  ASSUME NEW c \in Seq(Pieces)
  PROVE  /\ TextOf(c) \in Seq(Letters) /\ GivenOf(c) \in Seq(Pieces)
         /\ TextTo(c, 0) = 0 /\ GivenTo(c, 0) = 0 /\ PrintedTo(c, 0) = <<>> /\ CountedTo(c, 0) = 0
         /\ TextTo(c, Len(c)) = Len(TextOf(c))
         /\ PrintedTo(c, Len(c)) = FlattenSeq(Printed(c))
         /\ CountedTo(c, Len(c)) = Len(FlattenSeq(Counted(c)))
<1> DEFINE N == Len(c)
<1>1. N \in Nat /\ N \in 0 .. N
  BY CallParts
<1>2. Firsts(Texts(c), 0) = <<>> /\ Firsts(Texts(c), N) \in Seq(Letters)
      /\ FlattenSeq(Texts(c)) = Firsts(Texts(c), N)
  BY <1>1, CallParts, FrontNext, FrontWhole
<1>3. Firsts(Given(c), 0) = <<>> /\ Firsts(Given(c), N) \in Seq(Pieces)
      /\ FlattenSeq(Given(c)) = Firsts(Given(c), N)
  BY <1>1, CallParts, FrontNext, FrontWhole
<1>4. Firsts(Printed(c), 0) = <<>> /\ FlattenSeq(Printed(c)) = Firsts(Printed(c), N)
  BY <1>1, CallParts, FrontNext, FrontWhole
<1>5. Firsts(Counted(c), 0) = <<>> /\ FlattenSeq(Counted(c)) = Firsts(Counted(c), N)
  BY <1>1, CallParts, FrontNext, FrontWhole
<1> QED BY <1>2, <1>3, <1>4, <1>5 DEF TextOf, GivenOf, TextTo, GivenTo, PrintedTo, CountedTo

\* What one more piece adds to each of them.
LEMMA CallNext ==
  ASSUME NEW c \in Seq(Pieces), NEW k \in 0 .. Len(c) - 1, NEW p, p = c[k + 1]
  PROVE  /\ k \in 0 .. Len(c) /\ k + 1 \in 0 .. Len(c) /\ GoodPiece(p) /\ p \in Pieces
         /\ Len(Chars(p)) \in Nat /\ TextTo(c, k) \in Nat
         /\ TextTo(c, k + 1) = TextTo(c, k) + Len(Chars(p))
         /\ TextTo(c, k) + Len(Chars(p)) <= Len(TextOf(c))
         /\ \A j \in 1 .. Len(Chars(p)) : TextOf(c)[TextTo(c, k) + j] = Chars(p)[j]
         /\ Len(Argument(p)) \in Nat /\ GivenTo(c, k) \in Nat
         /\ GivenTo(c, k + 1) = GivenTo(c, k) + Len(Argument(p))
         /\ GivenTo(c, k) + Len(Argument(p)) <= Len(GivenOf(c))
         /\ \A j \in 1 .. Len(Argument(p)) : GivenOf(c)[GivenTo(c, k) + j] = Argument(p)[j]
         /\ PrintedTo(c, k) \in Seq(Char)
         /\ PrintedTo(c, k + 1) = PrintedTo(c, k) \o Meaning(p)
         /\ CountedTo(c, k) \in Nat /\ CountedTo(c, k + 1) = CountedTo(c, k) + Len(Unpadded(p))
<1> DEFINE N == Len(c)
<1>1. N \in Nat /\ k \in 0 .. N /\ k + 1 \in 0 .. N /\ k + 1 \in 1 .. N
  BY CallParts
<1>2. GoodPiece(p) /\ p \in Pieces
  BY <1>1, CallParts
<1>3. /\ Texts(c)[k + 1] = Chars(p) /\ Given(c)[k + 1] = Argument(p)
      /\ Printed(c)[k + 1] = Meaning(p) /\ Counted(c)[k + 1] = Unpadded(p)
  BY <1>1, CallParts
<1>4. PlacedAt(TextOf(c), Texts(c), k)
  BY <1>1, CallParts, Placed DEF TextOf
<1>5. PlacedAt(GivenOf(c), Given(c), k)
  BY <1>1, CallParts, Placed DEF GivenOf
<1>6. PlacedAt(FlattenSeq(Counted(c)), Counted(c), k)
  BY <1>1, CallParts, Placed
<1>7. /\ Firsts(Printed(c), k) \in Seq(Char)
      /\ Firsts(Printed(c), k + 1) = Firsts(Printed(c), k) \o Printed(c)[k + 1]
  BY <1>1, CallParts, FrontNext
<1>8. /\ Len(Chars(p)) \in Nat /\ TextTo(c, k) \in Nat
      /\ TextTo(c, k + 1) = TextTo(c, k) + Len(Chars(p))
      /\ TextTo(c, k) + Len(Chars(p)) <= Len(TextOf(c))
      /\ \A j \in 1 .. Len(Chars(p)) : TextOf(c)[TextTo(c, k) + j] = Chars(p)[j]
  BY <1>3, <1>4, Zenon DEF PlacedAt, TextTo
<1>9. /\ Len(Argument(p)) \in Nat /\ GivenTo(c, k) \in Nat
      /\ GivenTo(c, k + 1) = GivenTo(c, k) + Len(Argument(p))
      /\ GivenTo(c, k) + Len(Argument(p)) <= Len(GivenOf(c))
      /\ \A j \in 1 .. Len(Argument(p)) : GivenOf(c)[GivenTo(c, k) + j] = Argument(p)[j]
  BY <1>3, <1>5, Zenon DEF PlacedAt, GivenTo
<1>10. CountedTo(c, k) \in Nat /\ CountedTo(c, k + 1) = CountedTo(c, k) + Len(Unpadded(p))
  BY <1>3, <1>6, Zenon DEF PlacedAt, CountedTo
<1>11. /\ PrintedTo(c, k) \in Seq(Char)
       /\ PrintedTo(c, k + 1) = PrintedTo(c, k) \o Meaning(p)
  BY <1>3, <1>7, Zenon DEF PrintedTo
<1> QED BY <1>1, <1>2, <1>8, <1>9, <1>10, <1>11, Zenon

\* The same of the sequences' values alone.
LEMMA CallAdds ==
  ASSUME NEW c \in Seq(Pieces), NEW k \in 0 .. Len(c) - 1
  PROVE  /\ GoodPiece(c[k + 1])
         /\ GivenTo(c, k) \in Nat
         /\ GivenTo(c, k + 1) = GivenTo(c, k) + Len(Argument(c[k + 1]))
         /\ PrintedTo(c, k + 1) = PrintedTo(c, k) \o Meaning(c[k + 1])
         /\ CountedTo(c, k) \in Nat
         /\ CountedTo(c, k + 1) = CountedTo(c, k) + Len(Unpadded(c[k + 1]))
<1>1. ASSUME NEW p, p = c[k + 1]
      PROVE  /\ GoodPiece(p) /\ GivenTo(c, k) \in Nat
             /\ GivenTo(c, k + 1) = GivenTo(c, k) + Len(Argument(p))
             /\ PrintedTo(c, k + 1) = PrintedTo(c, k) \o Meaning(p)
             /\ CountedTo(c, k) \in Nat
             /\ CountedTo(c, k + 1) = CountedTo(c, k) + Len(Unpadded(p))
  BY <1>1, CallNext
<1> QED BY <1>1, Zenon

\* The character after the first j of a piece.
LEMMA CallReads ==
  ASSUME NEW c \in Seq(Pieces), NEW k \in 0 .. Len(c) - 1, NEW p, p = c[k + 1],
         NEW j \in 0 .. Len(Chars(p)) - 1
  PROVE  /\ Rest(TextOf(c), TextTo(c, k) + j) # <<>>
         /\ Head(Rest(TextOf(c), TextTo(c, k) + j)) = Chars(p)[j + 1]
         /\ Tail(Rest(TextOf(c), TextTo(c, k) + j)) = Rest(TextOf(c), TextTo(c, k) + (j + 1))
         /\ j + 1 = Len(Chars(p)) => TextTo(c, k + 1) = TextTo(c, k) + (j + 1)
<1> DEFINE w == TextOf(c)
           L == TextTo(c, k)
           m == Len(Chars(p))
<1>1. /\ m \in Nat /\ L \in Nat /\ L + m <= Len(w)
      /\ \A i \in 1 .. m : w[L + i] = Chars(p)[i]
      /\ TextTo(c, k + 1) = L + m
  BY CallNext
<1>2. w \in Seq(Letters)
  BY CallEnds
<1> HIDE DEF w, L, m
<1>3. PICK n \in 0 .. Len(w) - 1 : n = L + j /\ n + 1 = L + (j + 1)
  <2>1. L + j \in 0 .. Len(w) - 1 /\ (L + j) + 1 = L + (j + 1)
    BY <1>1, <1>2 DEF m
  <2> QED BY <2>1
<1>4. Rest(w, n) # <<>> /\ Head(Rest(w, n)) = w[n + 1] /\ Tail(Rest(w, n)) = Rest(w, n + 1)
  BY <1>2, RestOf
<1>5. w[L + (j + 1)] = Chars(p)[j + 1]
  <2>1. j + 1 \in 1 .. m
    BY <1>1 DEF m
  <2> QED BY <1>1, <2>1
<1>6. j + 1 = m => TextTo(c, k + 1) = L + (j + 1)
  BY <1>1
<1> QED BY <1>3, <1>4, <1>5, <1>6 DEF w, L, m

\* The arguments after those of the first k pieces.
LEMMA CallTakes ==
  ASSUME NEW c \in Seq(Pieces), NEW k \in 0 .. Len(c) - 1, NEW p, p = c[k + 1],
         NEW r, r = Rest(GivenOf(c), GivenTo(c, k))
  PROVE  /\ SubSeq(r, Len(Argument(p)) + 1, Len(r)) = Rest(GivenOf(c), GivenTo(c, k + 1))
         /\ Argument(p) = <<p>> => Head(r) = p
<1> DEFINE w == GivenOf(c)
           L == GivenTo(c, k)
           m == Len(Argument(p))
<1>1. /\ m \in Nat /\ L \in Nat /\ L + m <= Len(w)
      /\ \A i \in 1 .. m : w[L + i] = Argument(p)[i]
      /\ GivenTo(c, k + 1) = L + m
  BY CallNext
<1>2. w \in Seq(Pieces)
  BY CallEnds
<1> HIDE DEF w, L
<1>3. SubSeq(Rest(w, L), m + 1, Len(Rest(w, L))) = Rest(w, L + m)
  <2> HIDE DEF m
  <2> QED BY <1>1, <1>2, RestOfRest
<1>4. ASSUME Argument(p) = <<p>> PROVE Head(Rest(w, L)) = p
  <2>1. m = 1 /\ Argument(p)[1] = p
    BY <1>4
  <2> HIDE DEF m
  <2>2. w[L + 1] = p /\ L \in 0 .. Len(w) - 1
    BY <1>1, <1>2, <2>1
  <2> QED BY <1>2, <2>2, RestOf
<1> QED BY <1>1, <1>3, <1>4 DEF w, L

-----------------------------------------------------------------------------
(* The invariant: where in the call the interpreter is.                    *)

\* What was taken, printed and counted is that of the first k pieces.
Shared(k) ==
  /\ args = Rest(GivenOf(call), GivenTo(call, k))
  /\ out \o pending = PrintedTo(call, k)
  /\ count = CountedTo(call, k)

\* It has read k pieces, or also the first j characters of the directive that follows.
Between(k) == directive = Outside /\ format = Rest(TextOf(call), TextTo(call, k))
Within(k, j) ==
  /\ k < Len(call) /\ call[k + 1].kind # "plain" /\ j \in 1 .. EndOf(call[k + 1]) - 1
  /\ pending = <<>> /\ directive = After(call[k + 1], j)
  /\ format = Rest(TextOf(call), TextTo(call, k) + j)

\* What is printed are characters, a call that has ended has nothing left, and before that it is
\* somewhere in its pieces.
AllAreChars ==
  /\ call \in Seq(Pieces) /\ out \in Seq(Char) /\ pending \in Seq(Char)
  /\ buffer \in Seq(Char \cup {Zero})
EndedAtEnd  == Ended => pending = <<>> /\ format = <<>> /\ directive = Outside
InsideCall  ==
  \E k \in 0 .. Len(call) :
    Shared(k) /\ (Between(k) \/ \E j \in 1 .. EndOf(call[k + 1]) - 1 : Within(k, j))
CallInv == AllAreChars /\ EndedAtEnd /\ InsideCall

\* A character of a directive that goes on changes one of its locals, and isFirst.
WithSize(q, x)  == [[q EXCEPT !.dSize = x] EXCEPT !.isFirst = FALSE]
WithZero(q, x)  == [[q EXCEPT !.zeroFill = x] EXCEPT !.isFirst = FALSE]
WithWidth(q, x) == [[q EXCEPT !.width = x] EXCEPT !.isFirst = FALSE]

\* The locals after such a character.
LEMMA TwoChanges ==
  ASSUME NEW q, NEW a, NEW b, NEW c, NEW d, q = Locals(Yes, a, b, c, d), NEW x
  PROVE  /\ WithSize(q, x) = Locals(Yes, No, x, c, d)
         /\ WithZero(q, x) = Locals(Yes, No, b, x, d)
         /\ WithWidth(q, x) = Locals(Yes, No, b, c, x)
<1>1. ASSUME NEW y, NEW z, NEW o, q = Locals(o, a, b, c, d)
      PROVE  /\ [[q EXCEPT !.dSize = x] EXCEPT !.isFirst = y] = Locals(o, y, x, c, d)
             /\ [[q EXCEPT !.zeroFill = x] EXCEPT !.isFirst = y] = Locals(o, y, b, x, d)
             /\ [[q EXCEPT !.width = x] EXCEPT !.isFirst = y] = Locals(o, y, b, c, x)
  <2>1. [q EXCEPT !.dSize = x] = Locals(o, a, x, c, d)
    BY <1>1 DEF Locals
  <2>2. [q EXCEPT !.zeroFill = x] = Locals(o, a, b, x, d)
    BY <1>1 DEF Locals
  <2>3. [q EXCEPT !.width = x] = Locals(o, a, b, c, x)
    BY <1>1 DEF Locals
  <2>4. ASSUME NEW r, NEW e, NEW f, NEW g, r = Locals(o, a, e, f, g)
        PROVE  [r EXCEPT !.isFirst = y] = Locals(o, y, e, f, g)
    BY <2>4 DEF Locals
  <2> DEFINE r == [q EXCEPT !.dSize = x]
             s == [q EXCEPT !.zeroFill = x]
             t == [q EXCEPT !.width = x]
  <2>5. r = Locals(o, a, x, c, d) /\ s = Locals(o, a, b, x, d) /\ t = Locals(o, a, b, c, x)
    BY <2>1, <2>2, <2>3
  <2> HIDE DEF r, s, t
  <2>6. [r EXCEPT !.isFirst = y] = Locals(o, y, x, c, d)
    BY <2>5 DEF Locals
  <2>7. [s EXCEPT !.isFirst = y] = Locals(o, y, b, x, d)
    BY <2>5 DEF Locals
  <2>8. [t EXCEPT !.isFirst = y] = Locals(o, y, b, c, x)
    BY <2>5 DEF Locals
  <2> QED BY <2>6, <2>7, <2>8, Zenon DEF r, s, t
<1> QED BY <1>1, Zenon DEF No, WithSize, WithZero, WithWidth

\* Inside a directive the locals say so.
LEMMA AfterIsOpen ==
  ASSUME NEW p, GoodPiece(p), p.kind # "plain", NEW j \in 1 .. EndOf(p) - 1
  PROVE  After(p, j).open = Yes
<1>1. After(p, j) = Locals(Yes, IsFirst(j), After(p, j).dSize, After(p, j).zeroFill,
                           After(p, j).width)
  BY DirectiveReads
<1> QED BY <1>1, LocalsAre

\* At the end of a call the invariant is what is to be shown.
LEMMA CallGivesMeaning == CallInv => PrintsMeaning
<1> SUFFICES ASSUME CallInv, Ended
    PROVE  /\ out = FlattenSeq(Printed(call)) /\ count = Len(FlattenSeq(Counted(call)))
  BY DEF PrintsMeaning, Printed, Counted
<1>1. pending = <<>> /\ format = <<>> /\ directive = Outside /\ call \in Seq(Pieces)
      /\ out \in Seq(Char)
  BY DEF CallInv, EndedAtEnd, AllAreChars
<1>2. PICK k \in 0 .. Len(call) :
        Shared(k) /\ (Between(k) \/ \E j \in 1 .. EndOf(call[k + 1]) - 1 : Within(k, j))
  BY DEF CallInv, InsideCall
<1>3. Len(call) \in Nat
  BY <1>1
<1>4. ASSUME k # Len(call) PROVE FALSE
  <2>1. k \in 0 .. Len(call) - 1
    BY <1>3, <1>4
  <2> DEFINE p == call[k + 1]
  <2>2. GoodPiece(p)
    BY <1>1, <2>1, CallNext
  <2>3. CASE Between(k)
    <3>1. Len(Chars(p)) \in Nat /\ Len(Chars(p)) > 0
      <4>1. CASE p.kind = "plain"
        <5>1. Chars(p) = <<p.char>>
          BY <2>2, <4>1, PieceMeans
        <5>2. Len(<<p.char>>) = 1
          OBVIOUS
        <5> QED BY <5>1, <5>2
      <4>2. CASE p.kind # "plain"
        <5>1. Len(Chars(p)) = EndOf(p) /\ Lead(p) \in Nat /\ p.size \in Seq(SizeChars)
          BY <2>2, <4>2, DirectiveChars, GoodDirective
        <5>2. Len(p.size) \in Nat
          BY <5>1
        <5> QED BY <5>1, <5>2 DEF EndOf
      <4> QED BY <4>1, <4>2
    <3>2. 0 \in 0 .. Len(Chars(p)) - 1
      BY <3>1
    <3>3. Rest(TextOf(call), TextTo(call, k) + 0) # <<>>
      BY <1>1, <2>1, <3>2, CallReads
    <3>4. TextTo(call, k) + 0 = TextTo(call, k)
      BY <1>1, <2>1, CallNext
    <3> QED BY <1>1, <2>3, <3>3, <3>4 DEF Between
  <2>4. CASE \E j \in 1 .. EndOf(call[k + 1]) - 1 : Within(k, j)
    <3>1. PICK j \in 1 .. EndOf(call[k + 1]) - 1 : Within(k, j)
      BY <2>4
    <3>2. After(p, j) = Outside /\ p.kind # "plain"
      BY <1>1, <3>1 DEF Within
    <3>3. After(p, j).open = Yes
      BY <2>2, <3>1, <3>2, AfterIsOpen
    <3> QED BY <3>2, <3>3 DEF Outside, Yes
  <2> QED BY <1>2, <2>3, <2>4
<1>5. Shared(Len(call))
  BY <1>2, <1>4
<1>6. out \o <<>> = out
  BY <1>1
<1> QED BY <1>1, <1>5, <1>6, CallEnds DEF Shared

-----------------------------------------------------------------------------
(* Reading a character, outside and inside of a directive.                 *)

\* The next character outside of a directive.
LEMMA ReadOutside ==
  ASSUME CallInv, ~directive.open, NEW c, Reads(c)
  PROVE  /\ ~Ended
         /\ \E k \in 0 .. Len(call) - 1 :
              /\ Shared(k) /\ directive = Outside
              /\ c = Chars(call[k + 1])[1]
              /\ Tail(format) = Rest(TextOf(call), TextTo(call, k) + 1)
              /\ Len(Chars(call[k + 1])) = 1 => TextTo(call, k + 1) = TextTo(call, k) + 1
<1>1. call \in Seq(Pieces) /\ pending = <<>> /\ format # <<>> /\ Head(format) = c /\ ~Ended
  BY DEF CallInv, AllAreChars, EndedAtEnd, Reads
<1>2. PICK k \in 0 .. Len(call) :
        Shared(k) /\ (Between(k) \/ \E j \in 1 .. EndOf(call[k + 1]) - 1 : Within(k, j))
  BY DEF CallInv, InsideCall
<1>3. Len(call) \in Nat
  BY <1>1
<1>4. ASSUME NEW j \in 1 .. EndOf(call[k + 1]) - 1, Within(k, j) PROVE FALSE
  <2> DEFINE p == call[k + 1]
  <2>1. k \in 0 .. Len(call) - 1 /\ p.kind # "plain" /\ directive = After(p, j)
    BY <1>3, <1>4 DEF Within
  <2>2. GoodPiece(p)
    BY <1>1, <2>1, CallNext
  <2>3. After(p, j).open = Yes
    BY <2>1, <2>2, AfterIsOpen
  <2> QED BY <2>1, <2>3 DEF Yes
<1>5. Between(k)
  BY <1>2, <1>4
<1>6. k # Len(call)
  BY <1>1, <1>5, CallEnds, RestOf DEF Between
<1>7. k \in 0 .. Len(call) - 1
  BY <1>3, <1>6
<1> DEFINE p == call[k + 1]
<1>8. /\ GoodPiece(p) /\ TextTo(call, k) \in Nat /\ Len(Chars(p)) \in Nat
      /\ TextTo(call, k) + 0 = TextTo(call, k)
  BY <1>1, <1>7, CallNext
<1>9. 0 \in 0 .. Len(Chars(p)) - 1
  <2>1. CASE p.kind = "plain"
    <3>1. Chars(p) = <<p.char>>
      BY <1>8, <2>1, PieceMeans
    <3>2. Len(<<p.char>>) = 1
      OBVIOUS
    <3> QED BY <3>1, <3>2
  <2>2. CASE p.kind # "plain"
    <3>1. Len(Chars(p)) = EndOf(p) /\ Lead(p) \in Nat /\ p.size \in Seq(SizeChars)
      BY <1>8, <2>2, DirectiveChars, GoodDirective
    <3>2. Len(p.size) \in Nat
      BY <3>1
    <3> QED BY <3>1, <3>2 DEF EndOf
  <2> QED BY <2>1, <2>2
<1>10. ASSUME NEW j, j = 0
       PROVE  /\ Head(Rest(TextOf(call), TextTo(call, k) + j)) = Chars(p)[j + 1]
              /\ Tail(Rest(TextOf(call), TextTo(call, k) + j)) = Rest(TextOf(call), TextTo(call, k) + (j + 1))
              /\ j + 1 = Len(Chars(p)) => TextTo(call, k + 1) = TextTo(call, k) + (j + 1)
  <2>1. j \in 0 .. Len(Chars(p)) - 1
    BY <1>9, <1>10
  <2> HIDE DEF p
  <2>2. p = call[k + 1]
    BY DEF p
  <2> QED BY <1>1, <1>7, <2>1, <2>2, CallReads
<1>11. /\ Head(format) = Chars(p)[1]
       /\ Tail(format) = Rest(TextOf(call), TextTo(call, k) + 1)
       /\ Len(Chars(p)) = 1 => TextTo(call, k + 1) = TextTo(call, k) + 1
  <2>1. PICK j : j = 0 /\ j + 1 = 1
    OBVIOUS
  <2>2. format = Rest(TextOf(call), TextTo(call, k) + j)
    BY <1>5, <1>8, <2>1 DEF Between
  <2> QED BY <1>10, <2>1, <2>2
<1> QED BY <1>1, <1>2, <1>5, <1>7, <1>11 DEF Between

\* c is the character after the first j of p, in the piece after the first k.
ReadsAt(c, p, k, j) ==
  /\ GoodPiece(p) /\ p.kind # "plain" /\ j \in 1 .. EndOf(p) - 1
  /\ c = Chars(p)[j + 1] /\ directive = After(p, j)
  /\ Tail(format) = Rest(TextOf(call), TextTo(call, k) + (j + 1))
  /\ j + 1 = EndOf(p) => TextTo(call, k + 1) = TextTo(call, k) + (j + 1)
  /\ directive = Locals(Yes, IsFirst(j), directive.dSize, directive.zeroFill, directive.width)
  /\ ReadsZero(p, j) \/ ReadsWidth(p, j) \/ ReadsSize(p, j) \/ ReadsLast(p, j)

\* The next character inside of a directive.
LEMMA ReadInside ==
  ASSUME CallInv, NEW c, Directs(c)
  PROVE  /\ ~Ended
         /\ \E k \in 0 .. Len(call) - 1 : \E j \in 1 .. EndOf(call[k + 1]) - 1 :
              Shared(k) /\ ReadsAt(c, call[k + 1], k, j)
<1>1. /\ call \in Seq(Pieces) /\ pending = <<>> /\ format # <<>> /\ Head(format) = c /\ ~Ended
      /\ directive.open
  BY DEF CallInv, AllAreChars, EndedAtEnd, Reads, Directs
<1>2. PICK k \in 0 .. Len(call) :
        Shared(k) /\ (Between(k) \/ \E j \in 1 .. EndOf(call[k + 1]) - 1 : Within(k, j))
  BY DEF CallInv, InsideCall
<1>3. Len(call) \in Nat
  BY <1>1
<1>4. ~Between(k)
  <2>1. ~Outside.open
    BY DEF Outside
  <2> QED BY <1>1, <2>1 DEF Between
<1>5. PICK j \in 1 .. EndOf(call[k + 1]) - 1 : Within(k, j)
  BY <1>2, <1>4
<1> DEFINE p == call[k + 1]
<1>6. /\ k \in 0 .. Len(call) - 1 /\ p.kind # "plain" /\ directive = After(p, j)
      /\ format = Rest(TextOf(call), TextTo(call, k) + j)
  BY <1>3, <1>5 DEF Within
<1>7. GoodPiece(p)
  BY <1>1, <1>6, CallNext
<1>8. Len(Chars(p)) = EndOf(p) /\ EndOf(p) \in Nat
  BY <1>6, <1>7, DirectiveChars
<1>9. j \in 0 .. Len(Chars(p)) - 1
  BY <1>8
<1>10. /\ Head(format) = Chars(p)[j + 1]
       /\ Tail(format) = Rest(TextOf(call), TextTo(call, k) + (j + 1))
       /\ j + 1 = EndOf(p) => TextTo(call, k + 1) = TextTo(call, k) + (j + 1)
  BY <1>1, <1>6, <1>8, <1>9, CallReads
<1>11. /\ ReadsZero(p, j) \/ ReadsWidth(p, j) \/ ReadsSize(p, j) \/ ReadsLast(p, j)
       /\ After(p, j) = Locals(Yes, IsFirst(j), After(p, j).dSize, After(p, j).zeroFill,
                               After(p, j).width)
  BY <1>6, <1>7, DirectiveReads
<1>12. ReadsAt(c, p, k, j)
  BY <1>1, <1>6, <1>7, <1>10, <1>11 DEF ReadsAt
<1> QED BY <1>1, <1>2, <1>6, <1>12

\* Only a step of the printer can end it.
LEMMA NotEndedYet == UNCHANGED buffer => (Ended' <=> Ended)
BY DEF Ended

\* A character after which the directive goes on keeps the invariant.
LEMMA Continues ==
  ASSUME CallInv, NEW k \in 0 .. Len(call) - 1, NEW p, p = call[k + 1],
         NEW j \in 1 .. EndOf(p) - 1, NEW c, Directs(c), ReadsAt(c, p, k, j), Shared(k), ~Ended,
         j + 1 < EndOf(p), directive' = After(p, j + 1), format' = Tail(format),
         UNCHANGED <<printer, call, args, pending, count>>
  PROVE  CallInv'
<1>1. AllAreChars'
  BY DEF CallInv, AllAreChars, printer
<1>2. EndedAtEnd'
  BY NotEndedYet DEF EndedAtEnd, printer
<1>3. call \in Seq(Pieces) /\ pending = <<>>
  BY DEF CallInv, AllAreChars, Directs, Reads
<1>4. k \in 0 .. Len(call) /\ k < Len(call)
  BY <1>3
<1>5. EndOf(p) \in Nat
  BY DirectiveChars DEF ReadsAt
<1>6. j + 1 \in 1 .. EndOf(p) - 1
  BY <1>5
<1>7. Within(k, j + 1)'
  BY <1>3, <1>4, <1>6 DEF Within, ReadsAt
<1>8. Shared(k)'
  BY DEF Shared, printer
<1>9. InsideCall'
  <2>1. k \in 0 .. Len(call') /\ j + 1 \in 1 .. EndOf(call'[k + 1]) - 1
    BY <1>4, <1>6
  <2> QED BY <1>7, <1>8, <2>1 DEF InsideCall
<1> QED BY <1>1, <1>2, <1>9 DEF CallInv

\* So does one that ends it, when it prints the piece's meaning and takes the piece's argument.
LEMMA Ends ==
  ASSUME CallInv, NEW k \in 0 .. Len(call) - 1, NEW p, p = call[k + 1],
         NEW j \in 1 .. EndOf(p) - 1, NEW c, Directs(c), ReadsAt(c, p, k, j), Shared(k), ~Ended,
         j + 1 = EndOf(p), Over(Meaning(p), Len(Unpadded(p)), Len(Argument(p)))
  PROVE  CallInv'
<1>1. call \in Seq(Pieces) /\ pending = <<>> /\ out \in Seq(Char) /\ GoodPiece(p)
  BY DEF CallInv, AllAreChars, Directs, Reads, ReadsAt
<1>2. AllAreChars'
  <2>1. Meaning(p) \in Seq(Char)
    BY <1>1, PieceMeans
  <2> QED BY <2>1 DEF CallInv, AllAreChars, printer, Over
<1>3. EndedAtEnd'
  BY NotEndedYet DEF EndedAtEnd, printer, Over
<1>4. k + 1 \in 0 .. Len(call)
  BY <1>1, CallNext
<1>5. Shared(k + 1)'
  <2>1. args' = Rest(GivenOf(call), GivenTo(call, k + 1))
    BY <1>1, CallTakes DEF Shared, Over
  <2>2. out' \o pending' = PrintedTo(call, k + 1)
    <3>1. out \o <<>> = out
      BY <1>1
    <3> QED BY <1>1, <3>1, CallNext DEF Shared, Over, printer
  <2>3. count' = CountedTo(call, k + 1)
    BY <1>1, CallNext DEF Shared, Over
  <2> QED BY <2>1, <2>2, <2>3 DEF Shared, Over
<1>6. Between(k + 1)'
  BY DEF Between, ReadsAt, Over
<1>7. InsideCall'
  BY <1>4, <1>5, <1>6 DEF InsideCall, Over
<1> QED BY <1>2, <1>3, <1>7 DEF CallInv

-----------------------------------------------------------------------------
(* Every step keeps the invariant.                                         *)

\* The next argument is the piece's, if it has one.
LEMMA OneMoreArgument ==
  ASSUME NEW c \in Seq(Pieces), NEW k \in 0 .. Len(c) - 1, NEW p, p = c[k + 1],
         Argument(p) = <<p>>
  PROVE  Head(Rest(GivenOf(c), GivenTo(c, k))) = p
BY CallTakes

\* A call begins before its first piece.
LEMMA CallBegins == Init => CallInv
<1> SUFFICES ASSUME Init PROVE CallInv
  OBVIOUS
<1>1. call \in Seq(Pieces)
  <2>1. call \in BoundedSeq(Pieces, MaxPieces)
    BY DEF Init
  <2>2. PICK n \in 0 .. MaxPieces : call \in [1 .. n -> Pieces]
    BY <2>1, OvprintfAssumption DEF BoundedSeq, SeqOf
  <2> QED BY <2>2, OvprintfAssumption
<1>2. PICK n \in Sizes : PrinterInit(n)
  BY DEF Init
<1>3. out = <<>> /\ buffer = <<>> /\ pending = <<>> /\ count = 0 /\ directive = Outside
  BY <1>2 DEF PrinterInit, Init
<1>4. AllAreChars
  BY <1>1, <1>3 DEF AllAreChars
<1>5. EndedAtEnd
  BY <1>3 DEF EndedAtEnd, Ended
<1>6. /\ TextOf(call) \in Seq(Letters) /\ GivenOf(call) \in Seq(Pieces)
      /\ TextTo(call, 0) = 0 /\ GivenTo(call, 0) = 0 /\ PrintedTo(call, 0) = <<>>
      /\ CountedTo(call, 0) = 0
  BY <1>1, CallEnds
<1>7. format = TextOf(call) /\ args = GivenOf(call)
  BY DEF Init, TextOf, GivenOf, Texts, Given
<1>8. Rest(TextOf(call), 0) = TextOf(call) /\ Rest(GivenOf(call), 0) = GivenOf(call)
  BY <1>6, RestOf
<1>9. Between(0)
  BY <1>3, <1>6, <1>7, <1>8 DEF Between
<1>10. Shared(0)
  <2>1. <<>> \o <<>> = <<>>
    OBVIOUS
  <2> QED BY <1>3, <1>6, <1>7, <1>8, <2>1 DEF Shared
<1>11. InsideCall
  <2>1. 0 \in 0 .. Len(call)
    BY <1>1
  <2> QED BY <1>9, <1>10, <2>1 DEF InsideCall
<1> QED BY <1>4, <1>5, <1>11 DEF CallInv

\* A character goes from what is to be printed to what is.
LEMMA PrintPendingKeeps == CallInv /\ PrintPending => CallInv'
<1> SUFFICES ASSUME CallInv, PrintPending PROVE CallInv'
  OBVIOUS
<1> DEFINE c == Head(pending)
<1>1. /\ out \in Seq(Char) /\ pending \in Seq(Char) /\ pending # <<>> /\ ~Ended
      /\ buffer \in Seq(Char \cup {Zero}) /\ call \in Seq(Pieces)
  BY DEF CallInv, AllAreChars, EndedAtEnd, PrintPending
<1>2. c \in Char /\ Tail(pending) \in Seq(Char) /\ Append(out, c) \o Tail(pending) = out \o pending
  <2>1. c \in Char /\ Tail(pending) \in Seq(Char)
    BY <1>1
  <2>2. pending = <<c>> \o Tail(pending)
    BY <1>1
  <2> HIDE DEF c
  <2>3. Append(out, c) = out \o <<c>>
    BY <1>1, <2>1
  <2>4. (out \o <<c>>) \o Tail(pending) = out \o (<<c>> \o Tail(pending))
    BY <1>1, <2>1
  <2> QED BY <2>1, <2>2, <2>3, <2>4 DEF c
<1> HIDE DEF c
<1>3. /\ out' = Append(out, c) /\ pending' = Tail(pending)
      /\ buffer' = Append(buffer, c) \/ buffer' = buffer
      /\ UNCHANGED <<call, format, args, directive, count>>
  BY DEF PrintPending, printer_print, c
<1>4. AllAreChars'
  <2>1. Append(out, c) \in Seq(Char)
    BY <1>1, <1>2
  <2>2. c \in Char \cup {Zero}
    BY <1>2
  <2>3. Append(buffer, c) \in Seq(Char \cup {Zero})
    BY <1>1, <2>2
  <2> QED BY <1>1, <1>2, <1>3, <2>1, <2>3, Zenon DEF AllAreChars
<1>5. ~Ended'
  <2>1. c # Zero
    BY <1>2, PrinterAssumption
  <2>2. CASE buffer' = Append(buffer, c)
    <3>1. Len(buffer') = Len(buffer) + 1 /\ buffer'[Len(buffer) + 1] = c
          /\ \A i \in 1 .. Len(buffer) : buffer'[i] = buffer[i]
      BY <1>1, <1>2, <2>2
    <3>2. Len(buffer) \in Nat
      BY <1>1
    <3>3. \A i \in 1 .. Len(buffer) + 1 : i = Len(buffer) + 1 \/ i \in 1 .. Len(buffer)
      BY <3>2
    <3> QED BY <1>1, <2>1, <3>1, <3>3 DEF Ended
  <2>3. CASE buffer' = buffer
    BY <1>1, <2>3 DEF Ended
  <2> QED BY <1>3, <2>2, <2>3
<1>6. EndedAtEnd'
  BY <1>5 DEF EndedAtEnd
<1>7. ASSUME NEW k \in 0 .. Len(call), Shared(k) PROVE Shared(k)'
  BY <1>2, <1>3, <1>7 DEF Shared
<1>8. ASSUME NEW k \in 0 .. Len(call), NEW j, Within(k, j) PROVE FALSE
  BY <1>1, <1>8 DEF Within
<1>9. ASSUME NEW k \in 0 .. Len(call), Between(k) PROVE Between(k)'
  BY <1>3, <1>9 DEF Between
<1>10. InsideCall'
  BY <1>3, <1>7, <1>8, <1>9 DEF CallInv, InsideCall
<1> QED BY <1>4, <1>6, <1>10 DEF CallInv

\* A plain character is a piece.
LEMMA PlainCharKeeps == CallInv /\ PlainChar => CallInv'
<1> SUFFICES ASSUME CallInv, PlainChar PROVE CallInv'
  OBVIOUS
<1>1. PICK c \in Char \ {"%"} :
        /\ ~directive.open /\ Reads(c)
        /\ pending' = <<c>> /\ count' = count + 1
        /\ format' = Tail(format)
        /\ UNCHANGED <<printer, call, args, directive>>
  BY DEF PlainChar
<1>2. PICK k \in 0 .. Len(call) - 1 :
        /\ Shared(k) /\ directive = Outside /\ ~Ended
        /\ c = Chars(call[k + 1])[1]
        /\ Tail(format) = Rest(TextOf(call), TextTo(call, k) + 1)
        /\ Len(Chars(call[k + 1])) = 1 => TextTo(call, k + 1) = TextTo(call, k) + 1
  BY <1>1, ReadOutside
<1> DEFINE p == call[k + 1]
<1>3. call \in Seq(Pieces) /\ out \in Seq(Char) /\ pending = <<>>
  BY <1>1 DEF CallInv, AllAreChars, Reads
<1>4. GoodPiece(p)
  BY <1>3, CallAdds
<1>5. p.kind = "plain"
  <2> SUFFICES ASSUME p.kind # "plain" PROVE FALSE
    OBVIOUS
  <2>1. Chars(p)[1] = "%"
    BY <1>4, DirectiveChars
  <2> QED BY <1>1, <1>2, <2>1
<1>6. Chars(p) = <<p.char>> /\ p.char = c /\ Len(Chars(p)) = 1
  <2>1. Chars(p) = <<p.char>>
    BY <1>4, <1>5, PieceMeans
  <2>2. Len(<<p.char>>) = 1 /\ <<p.char>>[1] = p.char
    OBVIOUS
  <2> QED BY <1>2, <2>1, <2>2
<1>7. Meaning(p) = <<c>> /\ Unpadded(p) = <<c>> /\ Argument(p) = <<>>
  BY <1>5, <1>6, OthersMean
<1>8. AllAreChars'
  <2>1. <<c>> \in Seq(Char)
    OBVIOUS
  <2> QED BY <1>1, <2>1 DEF CallInv, AllAreChars, printer
<1>9. EndedAtEnd'
  BY <1>1, <1>2, NotEndedYet DEF EndedAtEnd, printer
<1>10. k + 1 \in 0 .. Len(call)
  <2>1. Len(call) \in Nat
    BY <1>3
  <2> QED BY <2>1
<1>11. Shared(k + 1)'
  <2>1. args' = Rest(GivenOf(call), GivenTo(call, k + 1))
    <3>1. GivenTo(call, k + 1) = GivenTo(call, k) + Len(Argument(p)) /\ GivenTo(call, k) \in Nat
      BY <1>3, CallAdds
    <3>2. Len(<<>>) = 0
      OBVIOUS
    <3>3. GivenTo(call, k + 1) = GivenTo(call, k)
      BY <1>7, <3>1, <3>2
    <3> QED BY <1>1, <1>2, <3>3 DEF Shared
  <2>2. out' \o pending' = PrintedTo(call, k + 1)
    <3>1. out \o <<>> = out
      BY <1>3
    <3>2. PrintedTo(call, k + 1) = PrintedTo(call, k) \o <<c>>
      <4>1. PrintedTo(call, k + 1) = PrintedTo(call, k) \o Meaning(p)
        BY <1>3, CallAdds
      <4> QED BY <1>7, <4>1, Zenon
    <3> QED BY <1>1, <1>2, <1>3, <3>1, <3>2 DEF Shared, printer
  <2>3. count' = CountedTo(call, k + 1)
    <3>1. CountedTo(call, k + 1) = CountedTo(call, k) + Len(Unpadded(p))
      BY <1>3, CallAdds
    <3>2. Len(<<c>>) = 1
      OBVIOUS
    <3> QED BY <1>1, <1>2, <1>7, <3>1, <3>2 DEF Shared
  <2> QED BY <1>1, <2>1, <2>2, <2>3 DEF Shared
<1>12. Between(k + 1)'
  BY <1>1, <1>2, <1>6 DEF Between
<1>13. InsideCall'
  BY <1>1, <1>10, <1>11, <1>12 DEF InsideCall
<1> QED BY <1>8, <1>9, <1>13 DEF CallInv

\* A directive begins with fresh locals.
LEMMA FirstLocals ==
  ASSUME NEW p, GoodPiece(p), p.kind # "plain"
  PROVE  After(p, 1) = Fresh
<1>1. p.zero \in BOOLEAN /\ p.width \in 0 .. 99 /\ p.size \in Seq(SizeChars)
  BY GoodDirective
<1>2. Flag(p) \in 0 .. 1 /\ Lead(p) >= 1
  BY <1>1 DEF Flag, Lead, WidthLength
<1>3. SizeAt(p.size, IF 1 <= Lead(p) THEN 0 ELSE 1 - Lead(p)) = 0
  <2>1. SizeAt(p.size, 0) = 0
    BY <1>1, SizeNext
  <2> QED BY <1>2, <2>1
<1>4. WidthAt(p.width, 1 - 1 - Flag(p)) = 0
  BY <1>2 DEF WidthAt
<1>5. IsFirst(1) = TRUE /\ HasZero(p, 1) = FALSE
  BY <1>1 DEF IsFirst, HasZero
<1> QED BY <1>3, <1>4, <1>5, Zenon DEF After, Locals, Fresh, Yes

\* A percent sign begins a directive.
LEMMA OpenDirectiveKeeps == CallInv /\ OpenDirective => CallInv'
<1> SUFFICES ASSUME CallInv, OpenDirective PROVE CallInv'
  OBVIOUS
<1>1. /\ ~directive.open /\ Reads("%") /\ directive' = Fresh /\ format' = Tail(format)
      /\ UNCHANGED <<printer, call, args, pending, count>>
  BY DEF OpenDirective
<1>2. PICK k \in 0 .. Len(call) - 1 :
        /\ Shared(k) /\ directive = Outside /\ ~Ended
        /\ "%" = Chars(call[k + 1])[1]
        /\ Tail(format) = Rest(TextOf(call), TextTo(call, k) + 1)
  BY <1>1, ReadOutside
<1> DEFINE p == call[k + 1]
<1>3. call \in Seq(Pieces) /\ pending = <<>>
  BY <1>1 DEF CallInv, AllAreChars, Reads
<1>4. GoodPiece(p) /\ k \in 0 .. Len(call) /\ k < Len(call)
  <2>1. GoodPiece(p)
    BY <1>3, CallNext
  <2>2. Len(call) \in Nat
    BY <1>3
  <2> QED BY <2>1, <2>2
<1>5. p.kind # "plain"
  <2> SUFFICES ASSUME p.kind = "plain" PROVE FALSE
    OBVIOUS
  <2>1. Chars(p) = <<p.char>> /\ p.char # "%"
    BY <1>4, PieceMeans
  <2>2. <<p.char>>[1] = p.char
    OBVIOUS
  <2> QED BY <1>2, <2>1, <2>2
<1>6. 1 \in 1 .. EndOf(p) - 1
  <2>1. p.size \in Seq(SizeChars) /\ p.width \in 0 .. 99
    BY <1>4, <1>5, GoodDirective
  <2>2. Len(p.size) \in Nat
    BY <2>1
  <2>3. Flag(p) \in 0 .. 1 /\ WidthLength(p.width) \in 0 .. 2
    BY <2>1 DEF Flag, WidthLength
  <2> DEFINE m == Len(p.size)
             f == Flag(p)
             w == WidthLength(p.width)
  <2>4. EndOf(p) = 1 + f + w + m + 1
    BY DEF EndOf, Lead
  <2> HIDE DEF p, m, f, w
  <2>5. EndOf(p) >= 2 /\ EndOf(p) \in Nat
    BY <2>2, <2>3, <2>4 DEF m, f, w
  <2> QED BY <2>5
<1>7. Within(k, 1)'
  BY <1>1, <1>2, <1>3, <1>4, <1>5, <1>6, FirstLocals DEF Within
<1>8. Shared(k)'
  BY <1>1, <1>2 DEF Shared, printer
<1>9. AllAreChars'
  BY <1>1 DEF CallInv, AllAreChars, printer
<1>10. EndedAtEnd'
  BY <1>1, <1>2, NotEndedYet DEF EndedAtEnd, printer
<1>11. InsideCall'
  BY <1>1, <1>4, <1>6, <1>7, <1>8 DEF InsideCall
<1> QED BY <1>9, <1>10, <1>11 DEF CallInv

\* The format ends outside of a directive.
LEMMA FinishKeeps == CallInv /\ Finish => CallInv'
<1> SUFFICES ASSUME CallInv, Finish PROVE CallInv'
  OBVIOUS
<1>1. /\ pending = <<>> /\ format = <<>> /\ ~directive.open /\ ~Ended
      /\ buffer' = Append(buffer, Zero) /\ UNCHANGED <<out, left, size>>
      /\ UNCHANGED <<call, format, args, directive, pending, count>>
  BY DEF Finish, printer_end
<1>2. PICK k \in 0 .. Len(call) :
        Shared(k) /\ (Between(k) \/ \E j \in 1 .. EndOf(call[k + 1]) - 1 : Within(k, j))
  BY DEF CallInv, InsideCall
<1>3. call \in Seq(Pieces) /\ Len(call) \in Nat
  BY DEF CallInv, AllAreChars
<1>4. ASSUME NEW j \in 1 .. EndOf(call[k + 1]) - 1, Within(k, j) PROVE FALSE
  <2> DEFINE p == call[k + 1]
  <2>1. k \in 0 .. Len(call) - 1 /\ p.kind # "plain" /\ directive = After(p, j)
    BY <1>3, <1>4 DEF Within
  <2>2. GoodPiece(p)
    BY <1>3, <2>1, CallNext
  <2>3. After(p, j).open = Yes
    BY <2>1, <2>2, AfterIsOpen
  <2> QED BY <1>1, <2>1, <2>3 DEF Yes
<1>5. Between(k)
  BY <1>2, <1>4
<1>6. AllAreChars'
  BY <1>1 DEF CallInv, AllAreChars
<1>7. EndedAtEnd'
  BY <1>1, <1>5 DEF EndedAtEnd, Between
<1>8. Between(k)' /\ Shared(k)'
  BY <1>1, <1>2, <1>5 DEF Between, Shared
<1>9. InsideCall'
  BY <1>1, <1>8 DEF InsideCall
<1> QED BY <1>6, <1>7, <1>9 DEF CallInv

\* A character says which of the four it is.
LEMMA WhichReads ==
  ASSUME NEW c, NEW p, NEW k, NEW j, ReadsAt(c, p, k, j)
  PROVE  /\ c \in SizeChars => ReadsSize(p, j)
         /\ c \in DigitChars => ReadsZero(p, j) \/ ReadsWidth(p, j)
         /\ c \notin SizeChars \cup DigitChars => ReadsLast(p, j)
         /\ ReadsLast(p, j) => c = p.conv /\ c \notin SizeChars \cup DigitChars
<1>1. c = Chars(p)[j + 1] /\ GoodPiece(p) /\ p.kind # "plain"
      /\ (ReadsZero(p, j) \/ ReadsWidth(p, j) \/ ReadsSize(p, j) \/ ReadsLast(p, j))
  BY DEF ReadsAt
<1>2. SizeChars \cap DigitChars = {}
  BY DEF SizeChars, DigitChars
<1>3. ReadsZero(p, j) => c \in DigitChars
  BY <1>1 DEF ReadsZero, DigitChars
<1>4. ReadsWidth(p, j) => c \in DigitChars
  BY <1>1, DigitsAre DEF ReadsWidth
<1>5. ReadsSize(p, j) => c \in SizeChars
  BY <1>1 DEF ReadsSize
<1>6. ReadsLast(p, j) => c = p.conv
  BY <1>1 DEF ReadsLast
<1>7. p.conv \notin SizeChars \cup DigitChars
  BY <1>1, GoodDirective
<1> QED BY <1>1, <1>2, <1>3, <1>4, <1>5, <1>6, <1>7

\* Each modifier changes the size as the piece says.
LEMMA SizeModifierKeeps == CallInv /\ SizeModifier => CallInv'
<1> SUFFICES ASSUME CallInv, SizeModifier PROVE CallInv'
  OBVIOUS
<1>1. PICK c \in SizeChars :
        Directs(c) /\ GoesOn([directive EXCEPT !.dSize = Modified(directive.dSize, c)])
  BY DEF SizeModifier
<1>2. ~Ended /\ \E k \in 0 .. Len(call) - 1 : \E j \in 1 .. EndOf(call[k + 1]) - 1 :
                  Shared(k) /\ ReadsAt(c, call[k + 1], k, j)
  BY <1>1, ReadInside
<1>13. PICK k \in 0 .. Len(call) - 1 : \E j \in 1 .. EndOf(call[k + 1]) - 1 :
         Shared(k) /\ ReadsAt(c, call[k + 1], k, j)
  BY <1>2
<1>3. PICK j \in 1 .. EndOf(call[k + 1]) - 1 : Shared(k) /\ ReadsAt(c, call[k + 1], k, j)
  BY <1>13
<1>10. PICK p : p = call[k + 1]
  OBVIOUS
<1>4. ReadsAt(c, p, k, j) /\ j \in 1 .. EndOf(p) - 1
  BY <1>3, <1>10
<1>5. ReadsSize(p, j)
  BY <1>4, WhichReads
<1> DEFINE x == Modified(directive.dSize, c)
           q == directive
<1>6. /\ directive = After(p, j) /\ c = Chars(p)[j + 1]
      /\ directive = Locals(Yes, IsFirst(j), directive.dSize, directive.zeroFill, directive.width)
  BY <1>4 DEF ReadsAt
<1>7. j + 1 < EndOf(p) /\ After(p, j + 1) = Locals(Yes, No, x, q.zeroFill, q.width)
  BY <1>5, <1>6 DEF ReadsSize
<1>8. directive' = WithSize(q, x) /\ format' = Tail(format)
      /\ UNCHANGED <<printer, call, args, pending, count>>
  BY <1>1 DEF GoesOn, WithSize
<1> HIDE DEF x
<1>9. directive' = After(p, j + 1)
  <2>1. WithSize(q, x) = Locals(Yes, No, x, q.zeroFill, q.width)
    BY <1>6, TwoChanges
  <2> QED BY <1>7, <1>8, <2>1, Zenon
<1> QED BY <1>1, <1>2, <1>3, <1>4, <1>7, <1>8, <1>9, <1>10, Continues

\* A zero is the flag if it comes first.
LEMMA ZeroFlagKeeps == CallInv /\ ZeroFlag => CallInv'
<1> SUFFICES ASSUME CallInv, ZeroFlag PROVE CallInv'
  OBVIOUS
<1>1. PICK c : c = "0"
  OBVIOUS
<1>11. Directs(c) /\ directive.isFirst /\ GoesOn([directive EXCEPT !.zeroFill = Yes])
  BY <1>1, Zenon DEF ZeroFlag, Yes
<1>2. ~Ended /\ \E k \in 0 .. Len(call) - 1 : \E j \in 1 .. EndOf(call[k + 1]) - 1 :
                  Shared(k) /\ ReadsAt(c, call[k + 1], k, j)
  BY <1>11, ReadInside
<1>13. PICK k \in 0 .. Len(call) - 1 : \E j \in 1 .. EndOf(call[k + 1]) - 1 :
         Shared(k) /\ ReadsAt(c, call[k + 1], k, j)
  BY <1>2
<1>3. PICK j \in 1 .. EndOf(call[k + 1]) - 1 : Shared(k) /\ ReadsAt(c, call[k + 1], k, j)
  BY <1>13
<1>10. PICK p : p = call[k + 1]
  OBVIOUS
<1>4. ReadsAt(c, p, k, j) /\ j \in 1 .. EndOf(p) - 1
  BY <1>3, <1>10
<1> DEFINE q == directive
<1>6. /\ directive = After(p, j) /\ c = Chars(p)[j + 1]
      /\ directive = Locals(Yes, IsFirst(j), directive.dSize, directive.zeroFill, directive.width)
  BY <1>4 DEF ReadsAt
<1>5. ReadsZero(p, j)
  <2>1. ReadsZero(p, j) \/ ReadsWidth(p, j)
    BY <1>1, <1>4, WhichReads DEF DigitChars
  <2>2. IsFirst(j)
    <3>1. directive.isFirst = IsFirst(j)
      BY <1>6, LocalsAre
    <3> QED BY <1>11, <3>1
  <2>3. ~ReadsWidth(p, j)
    <3> SUFFICES ASSUME ReadsWidth(p, j) PROVE FALSE
      OBVIOUS
    <3>1. PICK d \in 0 .. 9 : c = Digits[d + 1] /\ (d = 0 => j # 1)
      BY <1>6 DEF ReadsWidth
    <3>2. Digits[d + 1] = Digits[0 + 1] /\ 0 \in 0 .. 9
      BY <1>1, <3>1, DigitsAre
    <3>3. d = 0
      BY <3>2, DigitsAre
    <3> QED BY <2>2, <3>1, <3>3 DEF IsFirst
  <2> QED BY <2>1, <2>3
<1>7. j + 1 < EndOf(p) /\ After(p, j + 1) = Locals(Yes, No, q.dSize, Yes, q.width)
  BY <1>5, <1>6 DEF ReadsZero
<1>8. directive' = WithZero(q, Yes) /\ format' = Tail(format)
      /\ UNCHANGED <<printer, call, args, pending, count>>
  BY <1>11 DEF GoesOn, WithZero
<1>9. directive' = After(p, j + 1)
  <2>1. ASSUME NEW x
        PROVE  WithZero(q, x) = Locals(Yes, No, q.dSize, x, q.width)
    BY <1>6, TwoChanges
  <2> QED BY <1>7, <1>8, <2>1, Zenon
<1> QED BY <1>11, <1>2, <1>3, <1>4, <1>7, <1>8, <1>9, <1>10, Continues

\* A digit that is not the flag belongs to the width.
LEMMA WidthDigitKeeps == CallInv /\ WidthDigit => CallInv'
<1> SUFFICES ASSUME CallInv, WidthDigit PROVE CallInv'
  OBVIOUS
<1>0. PICK d \in 0 .. 9 : /\ Directs(Digits[d + 1]) /\ (d = 0 => ~directive.isFirst)
                          /\ GoesOn([directive EXCEPT !.width = directive.width * 10 + d])
  BY DEF WidthDigit
<1>1. PICK c : c = Digits[d + 1]
  OBVIOUS
<1>12. Directs(c)
  BY <1>0, <1>1
<1>2. ~Ended /\ \E k \in 0 .. Len(call) - 1 : \E j \in 1 .. EndOf(call[k + 1]) - 1 :
                  Shared(k) /\ ReadsAt(c, call[k + 1], k, j)
  BY <1>12, ReadInside
<1>13. PICK k \in 0 .. Len(call) - 1 : \E j \in 1 .. EndOf(call[k + 1]) - 1 :
         Shared(k) /\ ReadsAt(c, call[k + 1], k, j)
  BY <1>2
<1>3. PICK j \in 1 .. EndOf(call[k + 1]) - 1 : Shared(k) /\ ReadsAt(c, call[k + 1], k, j)
  BY <1>13
<1>10. PICK p : p = call[k + 1]
  OBVIOUS
<1>4. ReadsAt(c, p, k, j) /\ j \in 1 .. EndOf(p) - 1
  BY <1>3, <1>10
<1> DEFINE q == directive
           x == directive.width * 10 + d
<1>6. /\ directive = After(p, j) /\ c = Chars(p)[j + 1]
      /\ directive = Locals(Yes, IsFirst(j), directive.dSize, directive.zeroFill, directive.width)
  BY <1>4 DEF ReadsAt
<1>5. ReadsWidth(p, j)
  <2>1. ReadsZero(p, j) \/ ReadsWidth(p, j)
    BY <1>1, <1>4, WhichReads, DigitsAre
  <2>2. ~ReadsZero(p, j)
    <3> SUFFICES ASSUME ReadsZero(p, j) PROVE FALSE
      OBVIOUS
    <3>1. c = "0" /\ j = 1
      BY <1>6 DEF ReadsZero
    <3>2. Digits[d + 1] = Digits[0 + 1] /\ 0 \in 0 .. 9
      BY <1>1, <3>1, DigitsAre
    <3>3. d = 0
      BY <3>2, DigitsAre
    <3>4. directive.isFirst = IsFirst(j)
      BY <1>6, LocalsAre
    <3> QED BY <1>0, <3>1, <3>3, <3>4 DEF IsFirst
  <2> QED BY <2>1, <2>2
<1>7. j + 1 < EndOf(p) /\ After(p, j + 1) = Locals(Yes, No, q.dSize, q.zeroFill, x)
  <2>1. PICK f \in 0 .. 9 :
           /\ c = Digits[f + 1]
           /\ After(p, j + 1) = Locals(Yes, No, q.dSize, q.zeroFill, q.width * 10 + f)
    BY <1>5, <1>6 DEF ReadsWidth
  <2>2. f = d
    BY <1>1, <2>1, DigitsAre
  <2>3. j + 1 < EndOf(p)
    BY <1>5 DEF ReadsWidth
  <2> QED BY <2>1, <2>2, <2>3
<1>8. directive' = WithWidth(q, x) /\ format' = Tail(format)
      /\ UNCHANGED <<printer, call, args, pending, count>>
  BY <1>0 DEF GoesOn, WithWidth
<1> HIDE DEF x
<1>9. directive' = After(p, j + 1)
  <2>1. WithWidth(q, x) = Locals(Yes, No, q.dSize, q.zeroFill, x)
    BY <1>6, TwoChanges
  <2> QED BY <1>7, <1>8, <2>1, Zenon
<1> QED BY <1>12, <1>2, <1>3, <1>4, <1>7, <1>8, <1>9, <1>10, Continues

\* The directive of p is read up to its conversion c.
Converts(c, p) ==
  /\ GoodPiece(p) /\ p.kind # "plain" /\ p.conv = c
  /\ directive.dSize = SizeOf(p) /\ directive.width = p.width /\ directive.zeroFill = p.zero
  /\ Argument(p) = <<p>> => Head(args) = p

\* A conversion that prints what its piece means keeps the invariant.
LEMMA ConversionKeeps ==
  ASSUME CallInv, NEW c, c \notin SizeChars \cup DigitChars, Directs(c),
         \A p : Converts(c, p) => Over(Meaning(p), Len(Unpadded(p)), Len(Argument(p)))
  PROVE  CallInv'
<1>2. ~Ended /\ \E k \in 0 .. Len(call) - 1 : \E j \in 1 .. EndOf(call[k + 1]) - 1 :
                  Shared(k) /\ ReadsAt(c, call[k + 1], k, j)
  BY ReadInside
<1>13. PICK k \in 0 .. Len(call) - 1 : \E j \in 1 .. EndOf(call[k + 1]) - 1 :
         Shared(k) /\ ReadsAt(c, call[k + 1], k, j)
  BY <1>2
<1>3. PICK j \in 1 .. EndOf(call[k + 1]) - 1 : Shared(k) /\ ReadsAt(c, call[k + 1], k, j)
  BY <1>13
<1>10. PICK p : p = call[k + 1]
  OBVIOUS
<1>4. ReadsAt(c, p, k, j) /\ j \in 1 .. EndOf(p) - 1
  BY <1>3, <1>10
<1>5. ReadsLast(p, j)
  BY <1>4, WhichReads
<1>6. /\ directive = After(p, j) /\ c = p.conv /\ GoodPiece(p) /\ p.kind # "plain"
      /\ j + 1 = EndOf(p)
  BY <1>4, <1>5 DEF ReadsAt, ReadsLast
<1>7. directive.dSize = SizeOf(p) /\ directive.width = p.width /\ directive.zeroFill = p.zero
  BY <1>5, <1>6 DEF ReadsLast
<1>8. Argument(p) = <<p>> => Head(args) = p
  <2>1. call \in Seq(Pieces) /\ args = Rest(GivenOf(call), GivenTo(call, k))
    BY <1>3 DEF CallInv, AllAreChars, Shared
  <2> QED BY <1>10, <2>1, OneMoreArgument
<1>9. Converts(c, p)
  BY <1>6, <1>7, <1>8 DEF Converts
<1>11. Over(Meaning(p), Len(Unpadded(p)), Len(Argument(p)))
  BY <1>9
<1> QED BY <1>2, <1>3, <1>4, <1>6, <1>10, <1>11, Ends

\* Whether a size goes with a conversion.
Goes(s, c) == Known(s, c \notin {"d", "i"})

\* The conversion and the size say what kind of piece it is.
LEMMA KindOf ==
  ASSUME NEW c, NEW p, Converts(c, p)
  PROVE  /\ c = "%" => p.kind = "percent"
         /\ c = "p" => p.kind = "pointer" /\ p.num \in Nat /\ Fits(p.num)
         /\ c = "c" => IF directive.dSize = 0 THEN p.kind = "char" ELSE p.kind = "nothing"
         /\ c = "s" => IF directive.dSize = 0 THEN p.kind = "string" /\ p.str \in Seq(Char)
                                              ELSE p.kind = "nothing"
         /\ c \in NumberChars =>
              IF Goes(directive.dSize, c)
                THEN p.kind = "number" /\ p.num \in Int /\ Fits(p.num)
                ELSE p.kind = "nothing"
         /\ c \notin NumberChars \cup {"%", "p", "c", "s"} => p.kind = "nothing"
<1>1. /\ GoodPiece(p) /\ p.kind # "plain" /\ p.conv = c /\ directive.dSize = SizeOf(p)
  BY DEF Converts
<1> DEFINE s == SizeOf(p)
<1>2. \/ p.kind = "percent" /\ c = "%"
      \/ /\ p.kind = "number" /\ c \in NumberChars
         /\ p.num \in Int /\ Fits(p.num) /\ Goes(s, c)
      \/ p.kind = "string" /\ c = "s" /\ s = 0 /\ p.str \in Seq(Char)
      \/ p.kind = "char" /\ c = "c" /\ s = 0
      \/ p.kind = "pointer" /\ c = "p" /\ p.num \in Nat /\ Fits(p.num)
      \/ /\ p.kind = "nothing" /\ c \notin {"%", "p"}
         /\ c \in {"c", "s"} => s # 0
         /\ c \in NumberChars => ~Goes(s, c)
  <2>1. \/ p.kind = "percent" /\ p.conv = "%"
        \/ /\ p.kind = "number" /\ p.conv \in NumberChars
           /\ p.num \in Int /\ Fits(p.num) /\ Goes(SizeOf(p), p.conv)
        \/ p.kind = "string" /\ p.conv = "s" /\ SizeOf(p) = 0 /\ p.str \in Seq(Char)
        \/ p.kind = "char" /\ p.conv = "c" /\ SizeOf(p) = 0
        \/ p.kind = "pointer" /\ p.conv = "p" /\ p.num \in Nat /\ Fits(p.num)
        \/ /\ p.kind = "nothing"
           /\ p.conv \notin SizeChars \cup Range(Digits) \cup {"%", "p"}
           /\ p.conv \in {"c", "s"} => SizeOf(p) # 0
           /\ p.conv \in NumberChars => ~Goes(SizeOf(p), p.conv)
    BY <1>1, Zenon DEF GoodPiece, Goes
  <2> HIDE DEF s
  <2>2. s = SizeOf(p)
    BY DEF s
  <2> QED BY <1>1, <2>1, <2>2
<1> HIDE DEF s
<1>3. directive.dSize = s
  BY <1>1 DEF s
<1>4. {"%", "p", "c", "s"} \cap NumberChars = {}
  BY DEF NumberChars
<1> QED BY <1>2, <1>3, <1>4

\* Each conversion prints what its piece means: the percent sign,
LEMMA PercentSignKeeps == CallInv /\ PercentSign => CallInv'
<1> SUFFICES ASSUME CallInv, PercentSign PROVE CallInv'
  OBVIOUS
<1>1. PICK c : c = "%"
  OBVIOUS
<1>2. Directs(c) /\ Over(<<"%">>, 1, 0)
  BY <1>1 DEF PercentSign
<1>3. c \notin SizeChars \cup DigitChars
  BY <1>1 DEF SizeChars, DigitChars
<1>4. ASSUME NEW p, Converts(c, p)
      PROVE  Over(Meaning(p), Len(Unpadded(p)), Len(Argument(p)))
  <2>1. Meaning(p) = <<"%">> /\ Unpadded(p) = <<"%">> /\ Argument(p) = <<>>
    BY <1>1, <1>4, KindOf, OthersMean
  <2>2. Len(<<"%">>) = 1 /\ Len(<<>>) = 0
    OBVIOUS
  <2> QED BY <1>2, <2>1, <2>2, Zenon
<1> QED BY <1>2, <1>3, <1>4, ConversionKeeps

\* the character,
LEMMA CharDirectiveKeeps == CallInv /\ CharDirective => CallInv'
<1> SUFFICES ASSUME CallInv, CharDirective PROVE CallInv'
  OBVIOUS
<1>1. PICK c : c = "c"
  OBVIOUS
<1>2. /\ Directs(c)
      /\ directive.dSize = 0 => Over(<<Head(args).chr>>, 1, 1)
      /\ directive.dSize # 0 => Over(<<>>, 0, 0)
  BY <1>1 DEF CharDirective
<1>3. c \notin SizeChars \cup DigitChars
  BY <1>1 DEF SizeChars, DigitChars
<1>4. ASSUME NEW p, Converts(c, p)
      PROVE  Over(Meaning(p), Len(Unpadded(p)), Len(Argument(p)))
  <2>1. CASE directive.dSize = 0
    <3>1. Meaning(p) = <<p.chr>> /\ Unpadded(p) = <<p.chr>> /\ Argument(p) = <<p>>
      BY <1>1, <1>4, <2>1, KindOf, OthersMean
    <3>2. Len(<<p.chr>>) = 1 /\ Len(<<p>>) = 1
      OBVIOUS
    <3>3. Head(args) = p
      BY <1>4, <3>1 DEF Converts
    <3> QED BY <1>2, <2>1, <3>1, <3>2, <3>3, Zenon
  <2>2. CASE directive.dSize # 0
    <3>1. Meaning(p) = <<>> /\ Unpadded(p) = <<>> /\ Argument(p) = <<>>
      BY <1>1, <1>4, <2>2, KindOf, OthersMean
    <3>2. Len(<<>>) = 0
      OBVIOUS
    <3> QED BY <1>2, <2>2, <3>1, <3>2, Zenon
  <2> QED BY <2>1, <2>2
<1> QED BY <1>2, <1>3, <1>4, ConversionKeeps

\* the string behind its padding, of which only the string is counted,
LEMMA StringDirectiveKeeps == CallInv /\ StringDirective => CallInv'
<1> SUFFICES ASSUME CallInv, StringDirective PROVE CallInv'
  OBVIOUS
<1>1. PICK c : c = "s"
  OBVIOUS
<1> DEFINE str == Head(args).str
<1>2. /\ Directs(c)
      /\ directive.dSize = 0 => Over(Spaces(directive.width - Len(str)) \o str, Len(str), 1)
      /\ directive.dSize # 0 => Over(<<>>, 0, 0)
  BY <1>1 DEF StringDirective, Spaces
<1>3. c \notin SizeChars \cup DigitChars
  BY <1>1 DEF SizeChars, DigitChars
<1>4. ASSUME NEW p, Converts(c, p)
      PROVE  Over(Meaning(p), Len(Unpadded(p)), Len(Argument(p)))
  <2>1. CASE directive.dSize = 0
    <3>0. p.kind = "string" /\ p.str \in Seq(Char)
      BY <1>1, <1>4, <2>1, KindOf
    <3>1. /\ Meaning(p) = Spaces(Pad(p.width, Len(p.str))) \o p.str
          /\ Unpadded(p) = p.str /\ Argument(p) = <<p>>
      BY <3>0, OthersMean
    <3>2. Len(<<p>>) = 1
      OBVIOUS
    <3>3. str = p.str /\ directive.width = p.width
      BY <1>4, <3>1 DEF Converts
    <3>4. p.width \in Nat /\ Len(p.str) \in Nat
      <4>1. p.width \in 0 .. 99
        BY <1>4, GoodDirective DEF Converts
      <4>2. p.width \in Nat
        BY <4>1
      <4> DEFINE t == p.str
      <4>3. t \in Seq(Char)
        BY <3>0
      <4> HIDE DEF t
      <4>4. Len(t) \in Nat
        BY <4>3
      <4> QED BY <4>2, <4>4, Zenon DEF t
    <3>5. Spaces(p.width - Len(p.str)) = Spaces(Pad(p.width, Len(p.str)))
      <4>1. \A w, n \in Nat : Spaces(w - n) = Spaces(Pad(w, n))
        <5>1. ASSUME NEW w \in Nat, NEW n \in Nat PROVE Spaces(w - n) = Spaces(Pad(w, n))
          BY SpacesAre
        <5> QED BY <5>1
      <4> QED BY <3>4, <4>1
    <3> HIDE DEF str
    <3> QED BY <1>2, <2>1, <3>1, <3>2, <3>3, <3>5, Zenon
  <2>2. CASE directive.dSize # 0
    <3>1. Meaning(p) = <<>> /\ Unpadded(p) = <<>> /\ Argument(p) = <<>>
      BY <1>1, <1>4, <2>2, KindOf, OthersMean
    <3>2. Len(<<>>) = 0
      OBVIOUS
    <3> QED BY <1>2, <2>2, <3>1, <3>2, Zenon
  <2> QED BY <2>1, <2>2
<1> HIDE DEF str
<1> QED BY <1>2, <1>3, <1>4, ConversionKeeps

\* The conversions of numbers are no modifiers.
LEMMA NumberIsNoDigit ==
  ASSUME NEW c \in NumberChars
  PROVE  c \notin SizeChars \cup DigitChars
BY DEF NumberChars, SizeChars, DigitChars

\* nothing, for a number of a size the code does not know,
LEMMA UnreadNumberKeeps == CallInv /\ UnreadNumber => CallInv'
<1> SUFFICES ASSUME CallInv, UnreadNumber PROVE CallInv'
  OBVIOUS
<1>1. PICK c \in NumberChars : Directs(c) /\ ~Goes(directive.dSize, c)
  BY Zenon DEF UnreadNumber, Goes
<1>2. Over(<<>>, 0, 0)
  BY DEF UnreadNumber
<1>4. ASSUME NEW p, Converts(c, p)
      PROVE  Over(Meaning(p), Len(Unpadded(p)), Len(Argument(p)))
  <2>0. p.kind = "nothing"
    BY <1>1, <1>4, KindOf
  <2>1. Meaning(p) = <<>> /\ Unpadded(p) = <<>> /\ Argument(p) = <<>>
    BY <2>0, OthersMean
  <2>2. Len(<<>>) = 0
    OBVIOUS
  <2> QED BY <1>2, <2>1, <2>2, Zenon
<1> QED BY <1>1, <1>4, NumberIsNoDigit, ConversionKeeps

\* the number in its base,
LEMMA NumberDirectiveKeeps == CallInv /\ NumberDirective => CallInv'
<1> SUFFICES ASSUME CallInv, NumberDirective PROVE CallInv'
  OBVIOUS
<1>1. PICK c \in NumberChars :
        /\ Directs(c) /\ Goes(directive.dSize, c)
        /\ LET text == print_number(Head(args).num, IsUpper(c), BaseOf(c), directive.width, FALSE,
                                    directive.zeroFill)
           IN  Over(text, Len(text), 1)
  BY Zenon DEF NumberDirective, Goes, BaseOf, IsUpper
<1>4. ASSUME NEW p, Converts(c, p)
      PROVE  Over(Meaning(p), Len(Unpadded(p)), Len(Argument(p)))
  <2>0. p.kind = "number" /\ p.num \in Int /\ Fits(p.num) /\ p.conv = c /\ p.conv \in NumberChars
    <3>1. p.kind = "number" /\ p.num \in Int /\ Fits(p.num)
      BY <1>1, <1>4, KindOf
    <3> QED BY <1>4, <3>1 DEF Converts
  <2>1. /\ Meaning(p) = NumberText(p.num, IsUpper(p.conv), BaseOf(p.conv), p.width, p.zero)
        /\ Unpadded(p) = Meaning(p) /\ Argument(p) = <<p>>
    BY <2>0, NumberMeans
  <2>2. Len(<<p>>) = 1
    OBVIOUS
  <2>3. Head(args) = p /\ directive.width = p.width /\ directive.zeroFill = p.zero
    BY <1>4, <2>1 DEF Converts
  <2> DEFINE b == BaseOf(c)
             u == IsUpper(c)
             text == print_number(p.num, u, b, p.width, FALSE, p.zero)
  <2>4. b \in Bases /\ u \in BOOLEAN
    BY Bases16 DEF IsUpper
  <2>5. p.width \in Nat /\ p.zero \in BOOLEAN
    <3>1. p.width \in 0 .. 99 /\ p.zero \in BOOLEAN
      BY <1>4, GoodDirective DEF Converts
    <3> QED BY <3>1
  <2>6. text = NumberText(p.num, u, b, p.width, p.zero)
    <3> HIDE DEF b, u
    <3> QED BY <2>0, <2>4, <2>5, NumberPrinted
  <2>7. Over(text, Len(text), 1)
    BY <1>1, <2>3, Zenon
  <2>8. Meaning(p) = text
    BY <2>0, <2>1, <2>6, Zenon
  <2> HIDE DEF text
  <2> QED BY <2>1, <2>2, <2>7, <2>8, Zenon
<1> QED BY <1>1, <1>4, NumberIsNoDigit, ConversionKeeps

\* the pointer,
LEMMA PointerDirectiveKeeps == CallInv /\ PointerDirective => CallInv'
<1> SUFFICES ASSUME CallInv, PointerDirective PROVE CallInv'
  OBVIOUS
<1>1. PICK c : c = "p"
  OBVIOUS
<1>2. /\ Directs(c)
      /\ LET text == print_number(Head(args).num, TRUE, 16, PointerDigits, TRUE, TRUE)
         IN  Over(text, Len(text), 1)
  BY <1>1 DEF PointerDirective
<1>3. c \notin SizeChars \cup DigitChars
  BY <1>1 DEF SizeChars, DigitChars
<1>4. ASSUME NEW p, Converts(c, p)
      PROVE  Over(Meaning(p), Len(Unpadded(p)), Len(Argument(p)))
  <2>0. p.kind = "pointer" /\ p.num \in Nat /\ Fits(p.num)
    BY <1>1, <1>4, KindOf
  <2>1. Meaning(p) = PointerText(p.num) /\ Unpadded(p) = Meaning(p) /\ Argument(p) = <<p>>
    BY <2>0, OthersMean
  <2>2. Len(<<p>>) = 1
    OBVIOUS
  <2>3. Head(args) = p
    BY <1>4, <2>1 DEF Converts
  <2> DEFINE text == print_number(p.num, TRUE, 16, PointerDigits, TRUE, TRUE)
  <2>4. text = PointerText(p.num)
    BY <2>0, PointerPrinted
  <2>5. Over(text, Len(text), 1)
    BY <1>2, <2>3, Zenon
  <2> HIDE DEF text
  <2> QED BY <2>1, <2>2, <2>4, <2>5, Zenon
<1> QED BY <1>2, <1>3, <1>4, ConversionKeeps

\* and nothing, for a conversion the code does not know.
LEMMA OtherDirectiveKeeps == CallInv /\ OtherDirective => CallInv'
<1> SUFFICES ASSUME CallInv, OtherDirective PROVE CallInv'
  OBVIOUS
<1>1. PICK c \in Char \ (SizeChars \cup NumberChars \cup Range(Digits) \cup {"%", "c", "s", "p"}) :
        Directs(c) /\ Over(<<>>, 0, 0)
  BY DEF OtherDirective
<1>3. c \notin SizeChars \cup DigitChars
  BY <1>1, DigitsAre
<1>4. ASSUME NEW p, Converts(c, p)
      PROVE  Over(Meaning(p), Len(Unpadded(p)), Len(Argument(p)))
  <2>0. p.kind = "nothing"
    BY <1>1, <1>4, KindOf
  <2>1. Meaning(p) = <<>> /\ Unpadded(p) = <<>> /\ Argument(p) = <<>>
    BY <2>0, OthersMean
  <2>2. Len(<<>>) = 0
    OBVIOUS
  <2> QED BY <1>1, <2>1, <2>2, Zenon
<1> QED BY <1>1, <1>3, <1>4, ConversionKeeps

\* And a step that changes nothing.
LEMMA CallStaysSame == CallInv /\ UNCHANGED vars => CallInv'
<1> SUFFICES ASSUME CallInv, UNCHANGED vars PROVE CallInv'
  OBVIOUS
<1> USE DEF vars, printer
<1>1. AllAreChars'
  BY DEF CallInv, AllAreChars
<1>2. EndedAtEnd'
  BY DEF CallInv, EndedAtEnd, Ended
<1>3. InsideCall'
  BY DEF CallInv, InsideCall, Shared, Between, Within
<1> QED BY <1>1, <1>2, <1>3 DEF CallInv

\* Every step keeps the invariant.
LEMMA CallKept == CallInv /\ [Next]_vars => CallInv'
BY PrintPendingKeeps, PlainCharKeeps, OpenDirectiveKeeps, SizeModifierKeeps, ZeroFlagKeeps,
   WidthDigitKeeps, PercentSignKeeps, CharDirectiveKeeps, StringDirectiveKeeps,
   UnreadNumberKeeps, NumberDirectiveKeeps, PointerDirectiveKeeps, OtherDirectiveKeeps,
   FinishKeeps, CallStaysSame, Zenon DEF Next, Returned

(* Whatever pieces a call's format is made of, with whatever flags, widths *)
(* and sizes, ovprintf prints what they mean, one after the other, and     *)
(* counts all of it but the padding of strings.                            *)
THEOREM MeaningIsPrinted == Spec => []PrintsMeaning
<1>1. Init => CallInv
  BY CallBegins
<1>2. CallInv /\ [Next]_vars => CallInv'
  BY CallKept
<1>3. CallInv => PrintsMeaning
  BY CallGivesMeaning
<1> QED BY <1>1, <1>2, <1>3, PTL DEF Spec

\* Seen from the printer, a step prints a character, ends the string or does nothing.
LEMMA PrintsAsPrinter == CallInv /\ [Next]_vars => [PrinterNext]_printer
<1> SUFFICES ASSUME CallInv, [Next]_vars PROVE [PrinterNext]_printer
  OBVIOUS
<1>1. ASSUME PrintPending PROVE PrinterNext
  <2>1. ~Ended /\ pending \in Seq(Char) /\ pending # <<>>
    BY <1>1 DEF CallInv, AllAreChars, EndedAtEnd, PrintPending
  <2>2. Head(pending) \in Char
    BY <2>1
  <2>3. printer_print(Head(pending))
    BY <1>1 DEF PrintPending
  <2> QED BY <2>1, <2>2, <2>3 DEF PrinterNext
<1>2. ASSUME Finish PROVE PrinterNext
  BY <1>2 DEF Finish, PrinterNext
<1>3. CASE UNCHANGED printer
  BY <1>3
<1>4. PrintPending \/ Finish \/ UNCHANGED printer
  BY Zenon DEF Next, vars, PlainChar, OpenDirective, SizeModifier, ZeroFlag, WidthDigit, GoesOn,
     PercentSign, CharDirective, StringDirective, UnreadNumber, NumberDirective,
     PointerDirective, OtherDirective, Over, Returned
<1> QED BY <1>1, <1>2, <1>3, <1>4

(* ovprintf drives the printer as BufferPrinter says: it hands over        *)
(* characters, and ends the string once, after the last of them.           *)
THEOREM OvprintfUsesPrinter == Spec => PrinterSpec
<1>1. Init => CallInv /\ PrinterStart
  BY CallBegins, OvprintfAssumption DEF Init, PrinterStart
<1>2. CallInv /\ [Next]_vars => CallInv'
  BY CallKept
<1>3. CallInv /\ [Next]_vars => [PrinterNext]_printer
  BY PrintsAsPrinter
<1> QED BY <1>1, <1>2, <1>3, PTL DEF Spec, PrinterSpec

(* So what snprintf leaves in a buffer is what fits of it, whatever the    *)
(* format and the size.                                                    *)
THEOREM StoredFits == Spec => []StoresWhatFits
BY OvprintfUsesPrinter, BufferHoldsWhatFits, PTL
=============================================================================
