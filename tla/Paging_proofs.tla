---------------------------- MODULE Paging_proofs ----------------------------
(***************************************************************************)
(* Proofs about the boot's memory: that the map is what the firmware said  *)
(* without what was cut out, that the free pages and no others are freed,  *)
(* that the page tables are on pages of their own and map the two windows, *)
(* for any maps, regions, sizes of pages and of tables.                    *)
(***************************************************************************)
EXTENDS Paging, TLAPS, SequenceTheorems, FiniteSetTheorems, WellFoundedInduction

----------------------------------------------------------------------------
(* Numbers.                                                                *)

LEMMA LeastNumber ==
  ASSUME NEW T, T \subseteq Nat, T # {}
  PROVE  \E m \in T : \A k \in T : m <= k
<1> DEFINE R == OpToRel(<, Nat)
<1>1. IsWellFoundedOn(R, Nat)
  BY NatLessThanWellFounded
<1>2. \A x, y \in Nat : <<y, x>> \in R <=> y < x
  BY DEF OpToRel
<1> HIDE DEF R
<1>3. PICK x \in T : \A y \in T : ~ (<<y, x>> \in R)
  BY <1>1, WFMin
<1>4. ASSUME NEW k \in T PROVE x <= k
  <2>1. x \in Nat /\ k \in Nat /\ ~ (k < x)
    BY <1>2, <1>3
  <2> QED BY <2>1
<1> QED BY <1>4

(* Finitely many numbers have a largest one.                               *)
LEMMA LargestImage ==
  ASSUME NEW n \in Nat, NEW f, \A k \in 1 .. n : f[k] \in Nat, n > 0
  PROVE  \E m \in 1 .. n : \A k \in 1 .. n : f[k] <= f[m]
<1> DEFINE Top(i) == \E m \in 1 .. i : \A k \in 1 .. i : f[k] <= f[m]
           T == {i \in 1 .. n : ~Top(i)}
<1> SUFFICES ASSUME T # {} PROVE FALSE
  <2>1. n \in 1 .. n
    OBVIOUS
  <2>2. T = {} => Top(n)
    <3> HIDE DEF Top
    <3> QED BY <2>1
  <2> QED BY <2>2
<1>1. PICK i \in T : \A j \in T : i <= j
  <2>1. T \subseteq Nat
    OBVIOUS
  <2> HIDE DEF T
  <2> QED BY <2>1, LeastNumber
<1>2. i \in 1 .. n /\ ~Top(i)
  OBVIOUS
<1>3. i # 1
  <2>1. Top(1)
    OBVIOUS
  <2> QED BY <1>2, <2>1
<1>4. Top(i - 1)
  <2>1. i - 1 \in 1 .. n /\ ~ (i <= i - 1)
    BY <1>2, <1>3
  <2> HIDE DEF Top
  <2>2. i - 1 \notin T
    BY <1>1, <2>1
  <2> QED BY <2>1, <2>2
<1>5. PICK m \in 1 .. i - 1 : \A k \in 1 .. i - 1 : f[k] <= f[m]
  BY <1>4
<1>6. CASE f[i] <= f[m]
  <2>1. ASSUME NEW k \in 1 .. i PROVE f[k] <= f[m]
    <3>1. k = i \/ k \in 1 .. i - 1
      BY <1>2
    <3> QED BY <1>5, <1>6, <3>1
  <2>2. m \in 1 .. i
    BY <1>2, <1>5
  <2>3. \E j \in 1 .. i : \A k \in 1 .. i : f[k] <= f[j]
    BY <2>1, <2>2
  <2> QED BY <1>2, <2>3
<1>7. CASE ~ (f[i] <= f[m])
  <2>1. f[i] \in Nat /\ f[m] \in Nat
    BY <1>2, <1>5
  <2>2. ASSUME NEW k \in 1 .. i PROVE f[k] <= f[i]
    <3>1. f[k] \in Nat /\ (k = i \/ f[k] <= f[m])
      BY <1>2, <1>5
    <3> QED BY <1>7, <2>1, <3>1
  <2> QED BY <1>2, <2>2
<1> QED BY <1>6, <1>7

(* Max, with which the end of memory is found.                             *)
LEMMA MaxIs ==
  ASSUME NEW s \in Seq(Nat), NEW K, K \subseteq DOMAIN s
  PROVE  LET T == {0} \cup {s[k] : k \in K}
         IN Max(T) \in T /\ Max(T) \in Nat /\ \A k \in K : s[k] <= Max(T)
<1> DEFINE T == {0} \cup {s[k] : k \in K}
           n == Len(s)
           f == [k \in 1 .. n |-> IF k \in K THEN s[k] ELSE 0]
<1>1. n \in Nat /\ DOMAIN s = 1 .. n /\ \A k \in 1 .. n : s[k] \in Nat
  OBVIOUS
<1>2. \E x \in T : \A y \in T : x >= y
  <2>1. CASE n = 0
    <3>1. K = {}
      BY <1>1, <2>1
    <3> QED BY <3>1
  <2>2. CASE n > 0
    <3>1. \A k \in 1 .. n : f[k] \in Nat /\ f[k] = IF k \in K THEN s[k] ELSE 0
      BY <1>1
    <3> HIDE DEF f, n
    <3>2. PICK m \in 1 .. n : \A k \in 1 .. n : f[k] <= f[m]
      BY <1>1, <2>2, <3>1, LargestImage
    <3>3. f[m] \in T
      BY <3>1
    <3>4. ASSUME NEW y \in T PROVE f[m] >= y
      <4>1. CASE y = 0
        BY <3>1, <4>1
      <4>2. CASE \E k \in K : y = s[k]
        BY <1>1, <3>1, <3>2, <4>2
      <4> QED BY <4>1, <4>2
    <3> QED BY <3>3, <3>4
  <2> QED BY <1>1, <2>1, <2>2
<1>3. Max(T) \in T /\ \A y \in T : Max(T) >= y
  <2> HIDE DEF T
  <2> QED BY <1>2 DEF Max
<1>4. T \subseteq Nat
  BY <1>1
<1>5. ASSUME NEW k \in K PROVE s[k] <= Max(T)
  <2>1. s[k] \in T
    OBVIOUS
  <2> HIDE DEF T
  <2>2. s[k] \in Nat /\ Max(T) \in Nat /\ Max(T) >= s[k]
    BY <1>3, <1>4, <2>1
  <2> QED BY <2>2
<1> HIDE DEF T
<1>6. Max(T) \in Nat
  BY <1>3, <1>4
<1> QED BY <1>3, <1>5, <1>6 DEF T

LEMMA MinIs ==
  ASSUME NEW T, T \subseteq Nat, T # {}
  PROVE  Min(T) \in T
<1>1. \E x \in T : \A y \in T : x <= y
  BY LeastNumber
<1> QED BY <1>1 DEF Min

----------------------------------------------------------------------------
(* Entries of the map.                                                     *)

Separate(e, f) ==
  /\ Bytes(e) \cap Bytes(f) = {}
  /\ e.type = f.type => e.base + e.length < f.base

Ordered(m) == \A k, l \in DOMAIN m : k < l => Separate(m[k], m[l])

(* f is part of e.                                                         *)
Within(f, e) ==
  f.type = e.type /\ e.base <= f.base /\ f.base + f.length <= e.base + e.length

(* The bytes of m's entries of a type.                                     *)
BytesOf(m, type) == {x \in Nat : \E k \in DOMAIN m : m[k].type = type /\ x \in Bytes(m[k])}

GoodMap(m) ==
  /\ m \in Seq(Entry)
  /\ \A k \in DOMAIN m : m[k].base + m[k].length \in Memory
  /\ Ordered(m)

LEMMA BytesIs ==
  ASSUME NEW e \in Entry
  PROVE  /\ e.base \in Nat /\ e.length \in Nat /\ e.type \in Nat
         /\ Bytes(e) \subseteq Nat
         /\ \A x : x \in Bytes(e) <=> x \in Nat /\ e.base <= x /\ x < e.base + e.length
BY DEF Bytes, Entry

LEMMA InsideIs ==
  ASSUME NEW s \in Nat, NEW t \in Nat
  PROVE  \A x : x \in Inside([start |-> s, end |-> t]) <=> x \in Nat /\ s <= x /\ x < t
BY DEF Inside

LEMMA SeparateParts ==
  ASSUME NEW e \in Entry, NEW f \in Entry, NEW c \in Entry, NEW d \in Entry,
         Separate(e, f), Within(c, e), Within(d, f)
  PROVE  Separate(c, d)
<1>1. Bytes(c) \subseteq Bytes(e) /\ Bytes(d) \subseteq Bytes(f)
  BY BytesIs DEF Within
<1>2. c.type = d.type => c.base + c.length < d.base
  BY BytesIs DEF Separate, Within
<1> QED BY <1>1, <1>2 DEF Separate

(* __bootstrap_copy leaves of an entry what is not in the region.          *)
LEMMA PiecesAre ==
  ASSUME NEW e \in Entry, NEW s \in Nat, NEW t \in Nat, s < t
  PROVE  LET new == Pieces(e, s, t)
         IN /\ new \in Seq(Entry)
            /\ \A k \in DOMAIN new : Within(new[k], e)
            /\ Ordered(new)
            /\ \A x : (\E k \in DOMAIN new : x \in Bytes(new[k]))
                        <=> x \in Bytes(e) /\ ~ (s <= x /\ x < t)
<1> DEFINE stop == e.base + e.length
           head == [e EXCEPT !.length = s - e.base]
           tail == [e EXCEPT !.base = t, !.length = stop - t]
           new == Pieces(e, s, t)
<1>1. e.base \in Nat /\ e.length \in Nat /\ e.type \in Nat
  BY BytesIs
<1>2. CASE t <= e.base \/ stop <= s
  <2>1. new = <<e>>
    BY <1>2 DEF Pieces
  <2>2. new \in Seq(Entry) /\ DOMAIN new = {1} /\ new[1] = e
    BY <2>1
  <2>3. \A x \in Bytes(e) : ~ (s <= x /\ x < t)
    BY <1>1, <1>2, BytesIs
  <2> QED BY <1>1, <2>2, <2>3 DEF Ordered, Within
<1>3. CASE ~ (t <= e.base \/ stop <= s)
  <2>1. new = (IF e.base < s THEN <<head>> ELSE <<>>) \o (IF t < stop THEN <<tail>> ELSE <<>>)
    BY <1>3 DEF Pieces
  <2>2. e.base < s => /\ head \in Entry /\ head.base = e.base /\ head.length = s - e.base
                      /\ head.type = e.type /\ head.base + head.length = s
    BY <1>1 DEF Entry
  <2>3. t < stop => /\ tail \in Entry /\ tail.base = t /\ tail.length = stop - t
                    /\ tail.type = e.type /\ tail.base + tail.length = stop
    <3>1. stop \in Nat
      BY <1>1
    <3> HIDE DEF stop
    <3>2. \A n \in Nat : /\ [e EXCEPT !.base = t, !.length = n] \in Entry
                         /\ [e EXCEPT !.base = t, !.length = n].base = t
                         /\ [e EXCEPT !.base = t, !.length = n].length = n
                         /\ [e EXCEPT !.base = t, !.length = n].type = e.type
      BY DEF Entry
    <3>3. t < stop => stop - t \in Nat /\ t + (stop - t) = stop
      BY <3>1
    <3>4. t < stop => /\ tail \in Entry /\ tail.base = t /\ tail.length = stop - t
                      /\ tail.type = e.type
      BY <3>2, <3>3
    <3> HIDE DEF tail
    <3> QED BY <3>3, <3>4
  <2>4. stop = e.base + e.length /\ stop \in Nat
    BY <1>1
  <2> HIDE DEF head, tail, stop
  <2>5. ASSUME e.base < s
        PROVE  /\ Within(head, e)
               /\ \A x : x \in Bytes(head) <=> x \in Bytes(e) /\ x < s
    <3>1. \A x : x \in Bytes(head) <=> x \in Nat /\ head.base <= x /\ x < head.base + head.length
      BY <2>2, <2>5, BytesIs
    <3>2. \A x : x \in Bytes(e) <=> x \in Nat /\ e.base <= x /\ x < e.base + e.length
      BY BytesIs
    <3>3. s < stop
      BY <1>3, <2>4
    <3>4. Within(head, e)
      BY <1>1, <2>2, <2>4, <2>5, <3>3 DEF Within
    <3> QED BY <1>1, <2>2, <2>4, <2>5, <3>1, <3>2, <3>3, <3>4
  <2>6. ASSUME t < stop
        PROVE  /\ Within(tail, e)
               /\ \A x : x \in Bytes(tail) <=> x \in Bytes(e) /\ x >= t
    <3>1. \A x : x \in Bytes(tail) <=> x \in Nat /\ tail.base <= x /\ x < tail.base + tail.length
      BY <2>3, <2>6, BytesIs
    <3>2. \A x : x \in Bytes(e) <=> x \in Nat /\ e.base <= x /\ x < e.base + e.length
      BY BytesIs
    <3>3. e.base < t
      BY <1>1, <1>3
    <3>4. Within(tail, e)
      BY <1>1, <2>3, <2>4, <2>6, <3>3 DEF Within
    <3> QED BY <1>1, <2>3, <2>4, <2>6, <3>1, <3>2, <3>3, <3>4
  <2>7. \A x \in Bytes(e) : x \in Nat /\ e.base <= x /\ x < stop
    BY <2>4, BytesIs
  <2>9. CASE e.base < s /\ t < stop
    <3>1. new = <<head>> \o <<tail>>
      BY <2>1, <2>9
    <3> HIDE DEF new
    <3>2. /\ <<head>> \in Seq(Entry) /\ <<tail>> \in Seq(Entry)
          /\ Len(<<head>>) = 1 /\ Len(<<tail>>) = 1
      BY <2>2, <2>3, <2>9
    <3>3. new \in Seq(Entry) /\ DOMAIN new = {1, 2} /\ new[1] = head /\ new[2] = tail
      <4>1. /\ <<head>> \o <<tail>> \in Seq(Entry)
            /\ Len(<<head>> \o <<tail>>) = Len(<<head>>) + Len(<<tail>>)
            /\ \A i \in 1 .. Len(<<head>>) + Len(<<tail>>) :
                 (<<head>> \o <<tail>>)[i] = IF i <= Len(<<head>>) THEN <<head>>[i]
                                            ELSE <<tail>>[i - Len(<<head>>)]
        BY <3>2, ConcatProperties
      <4>2. new \in Seq(Entry) /\ Len(new) = 2
        BY <3>1, <3>2, <4>1
      <4>3. new[1] = <<head>>[1] /\ new[2] = <<tail>>[1]
        BY <3>1, <3>2, <4>1
      <4>4. DOMAIN new = {1, 2}
        BY <4>2
      <4> QED BY <4>2, <4>3, <4>4
    <3>4. Separate(head, tail)
      <4>1. head.base + head.length < tail.base
        BY <2>2, <2>3, <2>9
      <4>2. \A x \in Bytes(head) : x \in Nat /\ x < s
        BY <2>5, <2>7, <2>9
      <4>3. \A x \in Bytes(tail) : x \in Nat /\ x >= t
        BY <2>6, <2>7, <2>9
      <4> QED BY <4>1, <4>2, <4>3 DEF Separate
    <3> HIDE DEF new
    <3>5. Ordered(new)
      BY <3>3, <3>4 DEF Ordered
    <3>6. \A x : (\E k \in DOMAIN new : x \in Bytes(new[k])) <=> x \in Bytes(head) \/ x \in Bytes(tail)
      BY <3>3
    <3>7. \A x : x \in Bytes(head) \/ x \in Bytes(tail) <=> x \in Bytes(e) /\ ~ (s <= x /\ x < t)
      BY <2>5, <2>6, <2>7, <2>9
    <3>8. Within(head, e) /\ Within(tail, e)
      BY <2>5, <2>6, <2>9
    <3> QED BY <3>3, <3>5, <3>6, <3>7, <3>8 DEF new
  <2>10. CASE e.base < s /\ ~ (t < stop)
    <3>1. new = <<head>> \o <<>>
      BY <2>1, <2>10
    <3>2. <<head>> \o <<>> = <<head>>
      OBVIOUS
    <3> HIDE DEF new
    <3>3. new \in Seq(Entry) /\ DOMAIN new = {1} /\ new[1] = head
      BY <3>1, <3>2, <2>2, <2>10
    <3>4. \A x : x \in Bytes(head) <=> x \in Bytes(e) /\ ~ (s <= x /\ x < t)
      BY <2>4, <2>5, <2>7, <2>10
    <3>5. Ordered(new)
      BY <3>3 DEF Ordered
    <3> QED BY <2>5, <2>10, <3>3, <3>4, <3>5 DEF new
  <2>11. CASE ~ (e.base < s) /\ t < stop
    <3>1. new = <<>> \o <<tail>>
      BY <2>1, <2>11
    <3>2. <<>> \o <<tail>> = <<tail>>
      OBVIOUS
    <3> HIDE DEF new
    <3>3. new \in Seq(Entry) /\ DOMAIN new = {1} /\ new[1] = tail
      BY <3>1, <3>2, <2>3, <2>11
    <3>4. \A x : x \in Bytes(tail) <=> x \in Bytes(e) /\ ~ (s <= x /\ x < t)
      BY <1>1, <2>6, <2>7, <2>11
    <3>5. Ordered(new)
      BY <3>3 DEF Ordered
    <3> QED BY <2>6, <2>11, <3>3, <3>4, <3>5 DEF new
  <2>12. CASE ~ (e.base < s) /\ ~ (t < stop)
    <3>1. new = <<>> \o <<>>
      BY <2>1, <2>12
    <3>2. <<>> \o <<>> = <<>>
      OBVIOUS
    <3> HIDE DEF new
    <3>3. new \in Seq(Entry) /\ DOMAIN new = {}
      BY <3>1, <3>2
    <3>4. \A x \in Bytes(e) : s <= x /\ x < t
      BY <1>1, <2>4, <2>7, <2>12
    <3> QED BY <3>3, <3>4 DEF Ordered, new
  <2> QED BY <2>9, <2>10, <2>11, <2>12
<1> QED BY <1>2, <1>3

(* FlattenSeq's function.                                                  *)
IsFlat(g, ss, n) == g = [i \in 1 .. n |-> IF i = 1 THEN ss[i] ELSE g[i - 1] \o ss[i]]

LEMMA FlatExists ==
  ASSUME NEW ss, NEW n \in Nat
  PROVE  \E g : IsFlat(g, ss, n)
<1> DEFINE T == {j \in Nat : ~ \E g : IsFlat(g, ss, j)}
<1> SUFFICES ASSUME T # {} PROVE FALSE
  OBVIOUS
<1>1. PICK j \in T : \A i \in T : j <= i
  BY LeastNumber
<1>2. j \in Nat /\ ~ \E g : IsFlat(g, ss, j)
  OBVIOUS
<1>3. CASE j = 0
  <2> DEFINE g == [i \in 1 .. 0 |-> <<>>]
  <2>1. IsFlat(g, ss, 0)
    BY DEF IsFlat
  <2> QED BY <1>2, <1>3, <2>1
<1>4. CASE j # 0
  <2>1. j - 1 \in Nat /\ ~ (j <= j - 1)
    BY <1>2, <1>4
  <2>2. \E g : IsFlat(g, ss, j - 1)
    BY <1>1, <2>1
  <2>3. PICK g : IsFlat(g, ss, j - 1)
    BY <2>2
  <2> DEFINE v(i) == g[i - 1] \o ss[i]
             h == [i \in 1 .. j |-> IF i = j THEN (IF j = 1 THEN ss[j] ELSE v(j)) ELSE g[i]]
  <2>4. \A i \in 1 .. j - 1 : g[i] = IF i = 1 THEN ss[i] ELSE v(i)
    BY <2>3 DEF IsFlat
  <2> HIDE DEF v
  <2>5. \A i \in 1 .. j - 1 : h[i] = g[i] /\ i \in 1 .. j
    BY <1>2
  <2>6. \A i \in 1 .. j : i # 1 => i - 1 \in 1 .. j - 1
    BY <1>2
  <2>7. \A i \in 1 .. j : h[i] = IF i = 1 THEN ss[i] ELSE v(i)
    BY <1>2, <1>4, <2>4
  <2>8. \A i \in 1 .. j : i # 1 => v(i) = h[i - 1] \o ss[i]
    BY <2>5, <2>6 DEF v
  <2>9. h = [i \in 1 .. j |-> h[i]]
    OBVIOUS
  <2> HIDE DEF h
  <2>10. IsFlat(h, ss, j)
    BY <2>7, <2>8, <2>9 DEF IsFlat
  <2> QED BY <1>2, <2>10
<1> QED BY <1>3, <1>4

(* The sequences of ss one after the other: g[i] are the first i of them.  *)
Concatenates(g, ss, n) ==
  /\ g[0] = <<>>
  /\ \A i \in 1 .. n : g[i] = g[i - 1] \o ss[i]
  /\ FlattenSeq(ss) = g[n]

LEMMA FlattenIs ==
  ASSUME NEW S, NEW n \in Nat, NEW ss \in [1 .. n -> Seq(S)]
  PROVE  \E g : Concatenates(g, ss, n)
<1> DEFINE flat == CHOOSE h : IsFlat(h, ss, n)
           g == [i \in 0 .. n |-> IF i = 0 THEN <<>> ELSE flat[i]]
<1>1. Len(ss) = n
  <2>1. ss = [i \in 1 .. n |-> ss[i]]
    OBVIOUS
  <2>2. DOMAIN ss = 1 .. n /\ ss \in Seq(Seq(S))
    OBVIOUS
  <2> QED BY <2>2
<1>2. FlattenSeq(ss) = IF n = 0 THEN ss ELSE flat[n]
  BY <1>1 DEF FlattenSeq, IsFlat
<1>3. IsFlat(flat, ss, n)
  <2>1. \E h : IsFlat(h, ss, n)
    BY FlatExists
  <2> QED BY <2>1
<1> HIDE DEF flat
<1>4. \A i \in 1 .. n : flat[i] = IF i = 1 THEN ss[i] ELSE flat[i - 1] \o ss[i]
  BY <1>3 DEF IsFlat
<1>5. g[0] = <<>> /\ \A i \in 1 .. n : g[i] = flat[i]
  OBVIOUS
<1> HIDE DEF g
<1>6. ASSUME NEW i \in 1 .. n PROVE g[i] = g[i - 1] \o ss[i]
  <2>1. CASE i = 1
    <3>1. g[1] = ss[1] /\ ss[1] \in Seq(S)
      BY <1>4, <1>5, <2>1
    <3>2. <<>> \o ss[1] = ss[1]
      BY <3>1, ConcatEmptySeq
    <3> QED BY <1>5, <2>1, <3>1, <3>2
  <2>2. CASE i # 1
    <3>1. i - 1 \in 1 .. n
      BY <2>2
    <3> QED BY <1>4, <1>5, <2>2, <3>1
  <2> QED BY <2>1, <2>2
<1>7. FlattenSeq(ss) = g[n]
  <2>1. CASE n = 0
    <3>1. ss = <<>>
      BY <1>1, <2>1
    <3> QED BY <1>2, <1>5, <2>1, <3>1
  <2>2. CASE n # 0
    <3>1. n \in 1 .. n
      BY <2>2
    <3> QED BY <1>2, <1>5, <2>2, <3>1
  <2> QED BY <2>1, <2>2
<1>8. Concatenates(g, ss, n)
  BY <1>5, <1>6, <1>7 DEF Concatenates
<1> QED BY <1>8

(* Two ordered maps, all of whose entries are separate, one after the other*)
LEMMA OrderedConcat ==
  ASSUME NEW p \in Seq(Entry), NEW q \in Seq(Entry), Ordered(p), Ordered(q),
         \A k \in DOMAIN p, l \in DOMAIN q : Separate(p[k], q[l])
  PROVE  /\ p \o q \in Seq(Entry) /\ Ordered(p \o q)
         /\ \A k \in DOMAIN (p \o q) :
              \/ \E l \in DOMAIN p : (p \o q)[k] = p[l]
              \/ \E l \in DOMAIN q : (p \o q)[k] = q[l]
         /\ \A l \in DOMAIN p : \E k \in DOMAIN (p \o q) : (p \o q)[k] = p[l]
         /\ \A l \in DOMAIN q : \E k \in DOMAIN (p \o q) : (p \o q)[k] = q[l]
<1> DEFINE r == p \o q
           n == Len(p)
           m == Len(q)
<1>1. n \in Nat /\ m \in Nat /\ DOMAIN p = 1 .. n /\ DOMAIN q = 1 .. m
  OBVIOUS
<1>2. /\ r \in Seq(Entry) /\ Len(r) = n + m
      /\ \A i \in 1 .. n + m : r[i] = IF i <= n THEN p[i] ELSE q[i - n]
  BY ConcatProperties
<1>3. DOMAIN r = 1 .. n + m
  BY <1>2
<1> HIDE DEF r, n, m
<1>4. \A k \in DOMAIN r : \/ k \in 1 .. n /\ r[k] = p[k]
                          \/ k > n /\ k - n \in 1 .. m /\ r[k] = q[k - n]
  BY <1>1, <1>2, <1>3
<1>5. Ordered(r)
  <2> SUFFICES ASSUME NEW k \in DOMAIN r, NEW l \in DOMAIN r, k < l PROVE Separate(r[k], r[l])
    BY DEF Ordered
  <2>0. k \in Int /\ l \in Int
    BY <1>1, <1>3
  <2>1. CASE k \in 1 .. n /\ l \in 1 .. n
    <3>1. r[k] = p[k] /\ r[l] = p[l]
      BY <1>1, <1>4, <2>1
    <3> QED BY <1>1, <2>1, <3>1 DEF Ordered
  <2>2. CASE k \in 1 .. n /\ l > n
    <3>1. r[k] = p[k] /\ r[l] = q[l - n] /\ l - n \in 1 .. m
      BY <1>1, <1>4, <2>0, <2>2
    <3> QED BY <1>1, <2>2, <3>1
  <2>3. CASE k > n
    <3>1. l > n
      BY <1>1, <2>0, <2>3
    <3>2. r[k] = q[k - n] /\ r[l] = q[l - n] /\ k - n \in 1 .. m /\ l - n \in 1 .. m
      BY <1>1, <1>4, <2>0, <2>3, <3>1
    <3>3. k - n < l - n
      BY <1>1, <2>0
    <3> QED BY <1>1, <3>2, <3>3 DEF Ordered
  <2> QED BY <1>1, <1>3, <2>0, <2>1, <2>2, <2>3
<1>6. ASSUME NEW l \in DOMAIN p PROVE \E k \in DOMAIN r : r[k] = p[l]
  <2>1. l \in 1 .. n + m /\ r[l] = p[l]
    BY <1>1, <1>2
  <2> QED BY <1>3, <2>1
<1>7. ASSUME NEW l \in DOMAIN q PROVE \E k \in DOMAIN r : r[k] = q[l]
  <2>1. n + l \in 1 .. n + m /\ ~ (n + l <= n) /\ (n + l) - n = l
    BY <1>1
  <2>2. r[n + l] = q[l]
    BY <1>2, <2>1
  <2> QED BY <1>3, <2>1, <2>2
<1>8. \A k \in DOMAIN r : (\E l \in DOMAIN p : r[k] = p[l]) \/ (\E l \in DOMAIN q : r[k] = q[l])
  BY <1>1, <1>4
<1> QED BY <1>2, <1>5, <1>6, <1>7, <1>8 DEF r

(* bootstrap_del keeps the map in order and cuts the region out of it.     *)
LEMMA CutKeeps ==
  ASSUME NEW m, GoodMap(m), NEW s \in Nat, NEW t \in Nat, s < t
  PROVE  LET new == FlattenSeq([k \in DOMAIN m |-> Pieces(m[k], s, t)])
         IN /\ GoodMap(new)
            /\ \A type : BytesOf(new, type) = {x \in BytesOf(m, type) : ~ (s <= x /\ x < t)}
<1> DEFINE n == Len(m)
           ss == [k \in DOMAIN m |-> Pieces(m[k], s, t)]
           Cut(x) == s <= x /\ x < t
           Old(i, type, x) == \E j \in 1 .. i : m[j].type = type /\ x \in Bytes(m[j]) /\ ~Cut(x)
           New(w, type, x) == \E k \in DOMAIN w : w[k].type = type /\ x \in Bytes(w[k])
           Good(w, i) == /\ w \in Seq(Entry) /\ Ordered(w)
                         /\ \A k \in DOMAIN w : \E j \in 1 .. i : Within(w[k], m[j])
                         /\ \A type, x : New(w, type, x) <=> Old(i, type, x)
<1>1. /\ m \in Seq(Entry) /\ n \in Nat /\ DOMAIN m = 1 .. n
      /\ \A k \in 1 .. n : m[k] \in Entry
      /\ \A k, l \in 1 .. n : k < l => Separate(m[k], m[l])
  BY DEF GoodMap, Ordered
<1>2. ASSUME NEW k \in 1 .. n
      PROVE  /\ ss[k] \in Seq(Entry) /\ Ordered(ss[k])
             /\ \A j \in DOMAIN ss[k] : Within(ss[k][j], m[k])
             /\ \A x : (\E j \in DOMAIN ss[k] : x \in Bytes(ss[k][j])) <=> x \in Bytes(m[k]) /\ ~Cut(x)
  <2>1. ss[k] = Pieces(m[k], s, t) /\ m[k] \in Entry
    BY <1>1
  <2> HIDE DEF ss
  <2> QED BY <2>1, PiecesAre
<1>3. ss \in [1 .. n -> Seq(Entry)]
  <2>1. ss = [k \in 1 .. n |-> ss[k]]
    BY <1>1
  <2> HIDE DEF ss
  <2> QED BY <1>2, <2>1
<1> HIDE DEF ss, n
<1>4. PICK g : Concatenates(g, ss, n)
  <2> DEFINE S == Entry
  <2>1. ss \in [1 .. n -> Seq(S)] /\ n \in Nat
    BY <1>1, <1>3
  <2> HIDE DEF S
  <2> QED BY <2>1, FlattenIs
<1>5. Good(g[0], 0)
  <2>1. <<>> \in Seq(Entry) /\ DOMAIN <<>> = {} /\ 1 .. 0 = {}
    OBVIOUS
  <2> QED BY <1>4, <2>1 DEF Ordered, Concatenates
<1>6. ASSUME NEW i \in 1 .. n, Good(g[i - 1], i - 1) PROVE Good(g[i], i)
  <2> DEFINE p == g[i - 1]
             q == ss[i]
             r == p \o q
  <2>1. /\ p \in Seq(Entry) /\ Ordered(p)
        /\ \A k \in DOMAIN p : \E j \in 1 .. i - 1 : Within(p[k], m[j])
        /\ \A type, x : New(p, type, x) <=> Old(i - 1, type, x)
    BY <1>6
  <2>2. /\ q \in Seq(Entry) /\ Ordered(q)
        /\ \A k \in DOMAIN q : Within(q[k], m[i])
        /\ \A x : (\E k \in DOMAIN q : x \in Bytes(q[k])) <=> x \in Bytes(m[i]) /\ ~Cut(x)
    BY <1>2
  <2>3. g[i] = r
    BY <1>4 DEF Concatenates
  <2>4. /\ \A j \in 1 .. i - 1 : j \in 1 .. i /\ j \in 1 .. n /\ j < i
        /\ i \in 1 .. i
        /\ \A j \in 1 .. i : j = i \/ j \in 1 .. i - 1
    BY <1>1
  <2> HIDE DEF p, q
  <2>5. ASSUME NEW k \in DOMAIN p, NEW l \in DOMAIN q PROVE Separate(p[k], q[l])
    <3>1. PICK j \in 1 .. i - 1 : Within(p[k], m[j])
      BY <2>1
    <3>2. Separate(m[j], m[i]) /\ m[j] \in Entry /\ m[i] \in Entry
      BY <1>1, <2>4
    <3>3. p[k] \in Entry /\ q[l] \in Entry
      BY <2>1, <2>2, ElementOfSeq
    <3> QED BY <2>2, <3>1, <3>2, <3>3, SeparateParts
  <2>6. /\ r \in Seq(Entry) /\ Ordered(r)
        /\ \A k \in DOMAIN r : (\E l \in DOMAIN p : r[k] = p[l]) \/ (\E l \in DOMAIN q : r[k] = q[l])
        /\ \A l \in DOMAIN p : \E k \in DOMAIN r : r[k] = p[l]
        /\ \A l \in DOMAIN q : \E k \in DOMAIN r : r[k] = q[l]
    BY <2>1, <2>2, <2>5, OrderedConcat
  <2> HIDE DEF r
  <2>7. \A k \in DOMAIN r : \E j \in 1 .. i : Within(r[k], m[j])
    BY <2>1, <2>2, <2>4, <2>6
  <2>8. ASSUME NEW type, NEW x PROVE New(r, type, x) <=> Old(i, type, x)
    <3>1. New(r, type, x) <=> New(p, type, x) \/ New(q, type, x)
      BY <2>6
    <3>2. New(q, type, x) <=> m[i].type = type /\ x \in Bytes(m[i]) /\ ~Cut(x)
      <4>1. \A k \in DOMAIN q : q[k].type = m[i].type
        BY <2>2 DEF Within
      <4> HIDE DEF Cut
      <4> QED BY <2>2, <4>1
    <3>3. Old(i, type, x) <=> Old(i - 1, type, x) \/ (m[i].type = type /\ x \in Bytes(m[i]) /\ ~Cut(x))
      <4> HIDE DEF Cut
      <4> QED BY <2>4
    <3>4. New(p, type, x) <=> Old(i - 1, type, x)
      BY <2>1
    <3> HIDE DEF New, Old, Cut
    <3> QED BY <3>1, <3>2, <3>3, <3>4
  <2> QED BY <2>3, <2>6, <2>7, <2>8
<1> HIDE DEF Good
<1>7. Good(g[n], n)
  <2> DEFINE T == {i \in 0 .. n : ~Good(g[i], i)}
  <2> SUFFICES ASSUME T # {} PROVE FALSE
    BY <1>1
  <2>1. T \subseteq Nat
    OBVIOUS
  <2>2. PICK i \in T : \A j \in T : i <= j
    <3> HIDE DEF T
    <3> QED BY <2>1, LeastNumber
  <2>3. i \in 0 .. n /\ ~Good(g[i], i)
    OBVIOUS
  <2>4. i \in 1 .. n
    <3>1. i # 0
      BY <1>5, <2>3
    <3> QED BY <1>1, <2>3, <3>1
  <2>5. i - 1 \in 0 .. n /\ ~ (i <= i - 1)
    BY <1>1, <2>4
  <2>6. Good(g[i - 1], i - 1)
    <3>1. i - 1 \notin T
      <4> HIDE DEF T
      <4> QED BY <2>2, <2>5
    <3> QED BY <2>5, <3>1
  <2> QED BY <1>6, <2>3, <2>4, <2>6
<1> DEFINE new == FlattenSeq(ss)
<1>8. /\ new \in Seq(Entry) /\ Ordered(new)
      /\ \A k \in DOMAIN new : \E j \in 1 .. n : Within(new[k], m[j])
      /\ \A type, x : New(new, type, x) <=> Old(n, type, x)
  BY <1>4, <1>7 DEF Good, Concatenates
<1> HIDE DEF new
<1>9. ASSUME NEW k \in DOMAIN new PROVE new[k].base + new[k].length \in Memory
  <2>1. PICK j \in 1 .. n : Within(new[k], m[j])
    BY <1>8
  <2>2. new[k] \in Entry /\ m[j] \in Entry /\ m[j].base + m[j].length \in Memory
    BY <1>1, <1>8, ElementOfSeq DEF GoodMap
  <2>3. PICK top \in Nat : Memory = 0 .. top
    BY BootAssumption
  <2>4. new[k].base + new[k].length \in Nat
    BY <2>2, BytesIs
  <2> QED BY <2>1, <2>2, <2>3, <2>4 DEF Within
<1>10. GoodMap(new)
  BY <1>8, <1>9 DEF GoodMap
<1>11. ASSUME NEW type PROVE BytesOf(new, type) = {x \in BytesOf(m, type) : ~Cut(x)}
  <2>1. \A x : New(new, type, x) <=> Old(n, type, x)
    BY <1>8
  <2> HIDE DEF Cut
  <2> QED BY <1>1, <2>1 DEF BytesOf
<1> QED BY <1>10, <1>11 DEF new, ss

----------------------------------------------------------------------------
(* The boot: the inductive invariant.                                      *)

Cutting == {r \in Region : r.start < r.end}
NodesAt == IF nodes.start = 0 THEN {} ELSE Inside(nodes)

BootTypes ==
  /\ GoodMap(map)
  /\ todo \in Seq(Cutting)
  /\ pc \in {"purge", "alloc", "low", "high", "done"}
  /\ nodes_count \in Nat
  /\ nodes \in Region
  /\ purged \subseteq Nat
  /\ firmware \in FirmwareMaps

(* The map is what is left, and what is left has no BIOS in it.            *)
LeftInv ==
  /\ \A type : BytesOf(map, type) = BytesOf(firmware, type) \ (purged \cup NodesAt)
  /\ \/ 0 .. BIOS_SIZE - 1 \subseteq purged
     \/ pc = "purge" /\ todo # <<>> /\ Head(todo) = [start |-> 0, end |-> BIOS_SIZE]
  /\ pc \in {"purge", "alloc"} => nodes.start = 0

(* Every whole page of available memory has a node, and the nodes end where*)
(* an entry ends or before.                                                *)
EndsInv ==
  /\ pc # "purge" => \A k \in DOMAIN map :
       map[k].type = Available /\ map[k].length # 0 =>
         map[k].base + map[k].length < (nodes_count + 1) * PAGE_SIZE
  /\ nodes.start # 0 => \E k \in DOMAIN map : nodes.end <= map[k].base + map[k].length

(* How many entries p is a page of.                                        *)
Count(p, low) == Cardinality({k \in DOMAIN map : p \in PagesOf(map[k], low)})

FreesInv ==
  frees = [p \in Page |-> IF pc = "high" THEN Count(p, TRUE)
                          ELSE IF pc = "done" THEN Count(p, TRUE) + Count(p, FALSE)
                          ELSE 0]

BootInv == BootTypes /\ LeftInv /\ EndsInv /\ FreesInv

LEMMA FirmwareIs ==
  ASSUME NEW m \in FirmwareMaps
  PROVE  GoodMap(m)
BY BootAssumption DEF GoodMap, Ordered, Separate

(* A byte has one type.                                                    *)
LEMMA OneType ==
  ASSUME NEW m, GoodMap(m), NEW k \in DOMAIN m, NEW l \in DOMAIN m,
         NEW x, x \in Bytes(m[k]), x \in Bytes(m[l])
  PROVE  k = l
<1>1. k \in Nat /\ l \in Nat
  BY DEF GoodMap
<1>2. CASE k < l
  BY <1>2 DEF GoodMap, Ordered, Separate
<1>3. CASE l < k
  BY <1>3 DEF GoodMap, Ordered, Separate
<1> QED BY <1>1, <1>2, <1>3

LEMMA BootStarts == Init => BootInv
<1> SUFFICES ASSUME Init PROVE BootInv
  OBVIOUS
<1>1. PICK mods \in Modules : todo = <<[start |-> 0, end |-> BIOS_SIZE], Kernel, ModsArray>> \o mods
  BY DEF Init
<1> DEFINE bios == [start |-> 0, end |-> BIOS_SIZE]
<1>2. bios \in Cutting /\ Kernel \in Cutting /\ ModsArray \in Cutting
  <2>1. BIOS_SIZE \in Nat /\ 0 < BIOS_SIZE
    BY BootAssumption
  <2> QED BY <2>1, BootAssumption DEF Cutting, Region
<1>3. mods \in Seq(Cutting)
  <2>1. mods \in Seq(Region) /\ ToSet(mods) \in {ToSet(ms) : ms \in Modules}
    BY BootAssumption
  <2>2. \A r \in ToSet(mods) : r \in Cutting
    BY <2>1, BootAssumption DEF Cutting
  <2>3. \A k \in 1 .. Len(mods) : mods[k] \in Cutting
    BY <2>1, <2>2 DEF ToSet
  <2> QED BY <2>1, <2>3
<1> HIDE DEF bios
<1>4. <<bios, Kernel, ModsArray>> \in Seq(Cutting) /\ Len(<<bios, Kernel, ModsArray>>) = 3
  BY <1>2
<1>5. todo \in Seq(Cutting) /\ Len(todo) = 3 + Len(mods) /\ todo[1] = bios
  BY <1>1, <1>3, <1>4, ConcatProperties DEF bios
<1>6. todo # <<>> /\ Head(todo) = bios
  BY <1>3, <1>5
<1>7. GoodMap(map) /\ firmware \in FirmwareMaps /\ map = firmware
  BY FirmwareIs DEF Init
<1>8. pc = "purge" /\ nodes_count = 0 /\ nodes = [start |-> 0, end |-> 0] /\ purged = {}
      /\ frees = [p \in Page |-> 0]
  BY DEF Init
<1>9. BootTypes
  BY <1>5, <1>7, <1>8 DEF BootTypes, Region
<1>10. LeftInv
  BY <1>6, <1>7, <1>8 DEF LeftInv, NodesAt, bios
<1>11. EndsInv /\ FreesInv
  BY <1>8 DEF EndsInv, FreesInv
<1> QED BY <1>9, <1>10, <1>11 DEF BootInv

LEMMA PurgeKeeps == BootInv /\ Purge => BootInv'
<1> SUFFICES ASSUME BootInv, Purge PROVE BootInv'
  OBVIOUS
<1> DEFINE r == Head(todo)
           s == r.start
           t == r.end
           new == FlattenSeq([k \in DOMAIN map |-> Pieces(map[k], s, t)])
<1>1. GoodMap(map) /\ todo \in Seq(Cutting) /\ todo # <<>> /\ pc = "purge" /\ map' = new
      /\ todo' = Tail(todo) /\ purged' = purged \cup Inside(r)
      /\ UNCHANGED <<pc, nodes_count, nodes, frees, firmware>>
  BY DEF BootInv, BootTypes, Purge
<1>2. r \in Cutting /\ Tail(todo) \in Seq(Cutting)
  BY <1>1
<1>3. s \in Nat /\ t \in Nat /\ s < t /\ r = [start |-> s, end |-> t]
  BY <1>2 DEF Cutting, Region
<1> HIDE DEF r, s, t
<1>4. GoodMap(new) /\ \A type : BytesOf(new, type) = {x \in BytesOf(map, type) : ~ (s <= x /\ x < t)}
  BY <1>1, <1>3, CutKeeps
<1> HIDE DEF new
<1>5. Inside(r) \subseteq Nat /\ \A x : x \in Inside(r) <=> x \in Nat /\ s <= x /\ x < t
  BY <1>3, InsideIs
<1>6. BootTypes'
  BY <1>1, <1>2, <1>4, <1>5 DEF BootInv, BootTypes
<1>7. \A type : BytesOf(new, type) = BytesOf(map, type) \ Inside(r)
  <2>1. \A type : BytesOf(map, type) \subseteq Nat
    BY DEF BytesOf
  <2> QED BY <1>4, <1>5, <2>1
<1>8. LeftInv'
  <2>1. nodes.start = 0 /\ NodesAt = {} /\ NodesAt' = {}
    BY <1>1 DEF BootInv, LeftInv, NodesAt
  <2>2. \A type : BytesOf(map', type) = BytesOf(firmware', type) \ (purged' \cup NodesAt')
    BY <1>1, <1>7, <2>1 DEF BootInv, LeftInv
  <2>3. 0 .. BIOS_SIZE - 1 \subseteq purged'
    <3>1. CASE 0 .. BIOS_SIZE - 1 \subseteq purged
      BY <1>1, <3>1
    <3>2. CASE r = [start |-> 0, end |-> BIOS_SIZE]
      <4>1. Inside(r) = 0 .. BIOS_SIZE - 1
        BY <3>2 DEF Inside
      <4> QED BY <1>1, <4>1
    <3> QED BY <3>1, <3>2 DEF BootInv, LeftInv, r
  <2> QED BY <1>1, <2>1, <2>2, <2>3 DEF LeftInv
<1>9. EndsInv' /\ FreesInv'
  <2>1. nodes'.start = 0 /\ pc' = "purge"
    BY <1>1 DEF BootInv, LeftInv
  <2>2. frees' = [p \in Page |-> 0]
    BY <1>1 DEF BootInv, FreesInv
  <2> QED BY <2>1, <2>2 DEF EndsInv, FreesInv
<1> QED BY <1>6, <1>8, <1>9 DEF BootInv

(* Rounding down to pages.                                                 *)
LEMMA DivMod ==
  ASSUME NEW m \in Nat \ {0}, NEW x \in Nat
  PROVE  x \div m \in Nat /\ x % m \in 0 .. m - 1 /\ x = m * (x \div m) + (x % m)
OBVIOUS

LEMMA RoundedDown ==
  ASSUME NEW m \in Nat \ {0}, NEW x \in Nat
  PROVE  x < (x \div m + 1) * m
<1>1. x \div m \in Nat /\ x % m \in 0 .. m - 1 /\ x = m * (x \div m) + (x % m)
  BY DivMod
<1> DEFINE q == x \div m
<1>2. \A n \in Nat : (n + 1) * m = m * n + m /\ m * n \in Nat
  OBVIOUS
<1>3. x = m * q + (x % m) /\ q \in Nat
  BY <1>1
<1> HIDE DEF q
<1>4. (q + 1) * m = m * q + m /\ m * q \in Nat
  BY <1>2, <1>3
<1>5. x < (q + 1) * m
  BY <1>1, <1>3, <1>4
<1> QED BY <1>5 DEF q

LEMMA CountKeeps == BootInv /\ CountNodes => BootInv'
<1> SUFFICES ASSUME BootInv, CountNodes PROVE BootInv'
  OBVIOUS
<1> DEFINE K == {l \in DOMAIN map : map[l].type = Available /\ map[l].length # 0}
           end(k) == map[k].base + map[k].length
           s == [k \in DOMAIN map |-> end(k)]
           top == Max({0} \cup {s[k] : k \in K})
<1>1. /\ GoodMap(map) /\ pc = "purge" /\ todo = <<>> /\ pc' = "alloc"
      /\ UNCHANGED <<map, todo, nodes, frees, firmware, purged>>
  BY DEF BootInv, BootTypes, CountNodes
<1>2. map \in Seq(Entry) /\ \A k \in DOMAIN map : map[k] \in Entry
  BY <1>1, ElementOfSeq DEF GoodMap
<1>3. \A k \in DOMAIN map : end(k) \in Nat
  BY <1>2, BytesIs
<1>4. s \in Seq(Nat) /\ K \subseteq DOMAIN s
  <2>1. Len(map) \in Nat /\ DOMAIN map = 1 .. Len(map)
    BY <1>2
  <2> HIDE DEF end
  <2> QED BY <1>3, <2>1
<1>5. nodes_count' = top \div PAGE_SIZE
  <2>1. {end(k) : k \in K} = {s[k] : k \in K}
    OBVIOUS
  <2>2. nodes_count' = Max({0} \cup {end(k) : k \in K}) \div PAGE_SIZE
    BY DEF CountNodes
  <2> QED BY <2>1, <2>2
<1>6. top \in Nat /\ \A k \in K : end(k) <= top
  <2>1. top \in Nat /\ \A k \in K : s[k] <= top
    <3> HIDE DEF s, K
    <3> QED BY <1>4, MaxIs
  <2>2. \A k \in K : s[k] = end(k)
    OBVIOUS
  <2> HIDE DEF top, s, end
  <2> QED BY <2>1, <2>2
<1> HIDE DEF top
<1>7. PAGE_SIZE \in Nat \ {0}
  BY BootAssumption
<1>8. nodes_count' \in Nat /\ top < (nodes_count' + 1) * PAGE_SIZE
  <2>1. top \div PAGE_SIZE \in Nat
    BY <1>6, <1>7, DivMod
  <2>2. top < (top \div PAGE_SIZE + 1) * PAGE_SIZE
    BY <1>6, <1>7, RoundedDown
  <2> QED BY <1>5, <2>1, <2>2
<1>9. (nodes_count' + 1) * PAGE_SIZE \in Nat
  <2>1. \A a, b \in Nat : (a + 1) * b \in Nat
    OBVIOUS
  <2> QED BY <1>7, <1>8, <2>1
<1>10. \A k \in K : end(k) < (nodes_count' + 1) * PAGE_SIZE
  <2> TAKE k \in K
  <2> DEFINE limit == (nodes_count' + 1) * PAGE_SIZE
  <2>1. end(k) \in Nat /\ end(k) <= top /\ top < limit /\ limit \in Nat
    BY <1>3, <1>6, <1>8, <1>9
  <2> HIDE DEF limit, end, K
  <2>2. end(k) < limit
    BY <1>6, <2>1
  <2> QED BY <2>2 DEF limit
<1>11. BootTypes'
  BY <1>1, <1>8 DEF BootInv, BootTypes
<1>12. LeftInv'
  <2>1. 0 .. BIOS_SIZE - 1 \subseteq purged
    BY <1>1 DEF BootInv, LeftInv
  <2> QED BY <1>1, <2>1 DEF BootInv, LeftInv, NodesAt
<1>13. EndsInv'
  BY <1>1, <1>10 DEF BootInv, LeftInv, EndsInv
<1>14. FreesInv'
  BY <1>1 DEF BootInv, FreesInv
<1> QED BY <1>11, <1>12, <1>13, <1>14 DEF BootInv

(* bootstrap_alloc takes the beginning of an entry.                        *)
LEMMA AllocIs ==
  ASSUME NEW m, GoodMap(m), NEW k \in DOMAIN m, NEW size \in Nat, size <= m[k].length
  PROVE  LET new == [m EXCEPT ![k].base = @ + size, ![k].length = @ - size]
             from == m[k].base
         IN /\ GoodMap(new) /\ DOMAIN new = DOMAIN m
            /\ \A l \in DOMAIN m : l # k => new[l] = m[l]
            /\ new[k].base = from + size /\ new[k].length = m[k].length - size
            /\ new[k].type = m[k].type
            /\ new[k].base + new[k].length = from + m[k].length
            /\ \A x : x \in Bytes(m[k]) <=>
                 x \in Bytes(new[k]) \/ (x \in Nat /\ from <= x /\ x < from + size)
            /\ \A x : ~ (x \in Bytes(new[k]) /\ from <= x /\ x < from + size)
<1> DEFINE new == [m EXCEPT ![k].base = @ + size, ![k].length = @ - size]
           e == m[k]
           f == [e EXCEPT !.base = e.base + size, !.length = e.length - size]
<1>1. m \in Seq(Entry) /\ e \in Entry /\ DOMAIN m = 1 .. Len(m) /\ Len(m) \in Nat
  BY ElementOfSeq DEF GoodMap
<1>2. DOMAIN new = DOMAIN m /\ (\A l \in DOMAIN m : l # k => new[l] = m[l]) /\ new[k] = f
  BY <1>1 DEF Entry
<1>3. /\ e.base \in Nat /\ e.length \in Nat /\ e.base + size \in Nat /\ e.length - size \in Nat
      /\ e.base + size + (e.length - size) = e.base + e.length
  BY <1>1, BytesIs
<1>4. f \in Entry /\ f.base = e.base + size /\ f.length = e.length - size /\ f.type = e.type
  <2> HIDE DEF e
  <2>1. \A b, n \in Nat : /\ [e EXCEPT !.base = b, !.length = n] \in Entry
                          /\ [e EXCEPT !.base = b, !.length = n].base = b
                          /\ [e EXCEPT !.base = b, !.length = n].length = n
                          /\ [e EXCEPT !.base = b, !.length = n].type = e.type
    BY <1>1 DEF Entry
  <2> QED BY <1>3, <2>1
<1>5. new \in Seq(Entry)
  <2>1. new = [l \in 1 .. Len(m) |-> new[l]]
    BY <1>1
  <2>2. \A l \in 1 .. Len(m) : new[l] \in Entry
    <3> HIDE DEF new, f
    <3> QED BY <1>1, <1>2, <1>4, ElementOfSeq
  <2> HIDE DEF new
  <2> QED BY <1>1, <2>1, <2>2
<1> HIDE DEF new, f, e
<1>6. Within(f, e)
  BY <1>3, <1>4 DEF Within
<1>7. Ordered(new)
  <2> SUFFICES ASSUME NEW i \in DOMAIN new, NEW j \in DOMAIN new, i < j
               PROVE  Separate(new[i], new[j])
    BY DEF Ordered
  <2>1. Separate(m[i], m[j]) /\ m[i] \in Entry /\ m[j] \in Entry
    BY <1>1, <1>2, ElementOfSeq DEF GoodMap, Ordered
  <2>2. \A l \in DOMAIN m : Within(new[l], m[l])
    <3>1. \A l \in DOMAIN m : m[l] \in Entry
      BY <1>1, ElementOfSeq
    <3>2. \A l \in DOMAIN m : m[l].base \in Nat /\ m[l].base + m[l].length \in Nat
      BY <3>1 DEF Entry
    <3> QED BY <1>2, <1>6, <3>2 DEF Within, e
  <2>3. new[i] \in Entry /\ new[j] \in Entry
    BY <1>5, ElementOfSeq
  <2> QED BY <1>2, <2>1, <2>2, <2>3, SeparateParts
<1>8. \A l \in DOMAIN new : new[l].base + new[l].length \in Memory
  BY <1>2, <1>3, <1>4 DEF GoodMap, e
<1>9. GoodMap(new)
  BY <1>5, <1>7, <1>8 DEF GoodMap
<1>10. \A x : x \in Bytes(e) <=> x \in Nat /\ e.base <= x /\ x < e.base + e.length
  BY <1>1, BytesIs
<1>11. \A x : x \in Bytes(f) <=> x \in Nat /\ e.base + size <= x /\ x < e.base + e.length
  BY <1>3, <1>4, BytesIs
<1>12. size <= e.length
  BY DEF e
<1>13. \A x : x \in Bytes(e) <=> x \in Bytes(f) \/ (x \in Nat /\ e.base <= x /\ x < e.base + size)
  BY <1>3, <1>10, <1>11, <1>12
<1>14. \A x : ~ (x \in Bytes(f) /\ e.base <= x /\ x < e.base + size)
  BY <1>3, <1>11
<1> QED BY <1>2, <1>3, <1>4, <1>9, <1>13, <1>14 DEF new, e

LEMMA AllocKeeps == BootInv /\ AllocNodes => BootInv'
<1> SUFFICES ASSUME BootInv, AllocNodes PROVE BootInv'
  OBVIOUS
<1> DEFINE size == nodes_count * NODE_SIZE
           k == Min(Fits(size))
           from == map[k].base
<1>1. /\ GoodMap(map) /\ pc = "alloc" /\ pc' = "low" /\ nodes.start = 0
      /\ UNCHANGED <<todo, nodes_count, frees, firmware, purged>>
      /\ 0 .. BIOS_SIZE - 1 \subseteq purged
  BY DEF BootInv, BootTypes, LeftInv, AllocNodes
<1>2. size \in Nat
  <2>1. \A a, b \in Nat : a * b \in Nat
    OBVIOUS
  <2> QED BY <2>1, BootAssumption DEF BootInv, BootTypes
<1>3. FreesInv'
  BY <1>1 DEF BootInv, FreesInv
<1>4. ASSUME GoodMap(map'), nodes' \in Region PROVE BootTypes'
  BY <1>1, <1>4 DEF BootInv, BootTypes
<1>5. \A type : BytesOf(map, type) = BytesOf(firmware, type) \ purged
  BY <1>1 DEF BootInv, LeftInv, NodesAt
<1>6. CASE Fits(size) = {}
  <2>1. nodes' = [start |-> 0, end |-> size] /\ map' = map
    BY <1>6 DEF AllocNodes
  <2> HIDE DEF size
  <2>2. nodes' \in Region /\ nodes'.start = 0
    BY <1>2, <2>1 DEF Region
  <2>3. LeftInv'
    BY <1>1, <1>5, <2>1, <2>2 DEF LeftInv, NodesAt
  <2>4. EndsInv'
    BY <1>1, <2>1, <2>2 DEF BootInv, EndsInv
  <2> QED BY <1>1, <1>3, <1>4, <2>1, <2>2, <2>3, <2>4 DEF BootInv
<1>7. CASE Fits(size) # {}
  <2> HIDE DEF size
  <2>1. DOMAIN map = 1 .. Len(map) /\ Len(map) \in Nat /\ map \in Seq(Entry)
    BY <1>1 DEF GoodMap
  <2>2. Fits(size) \subseteq Nat
    BY <2>1 DEF Fits
  <2>3. k \in Fits(size)
    BY <1>7, <2>2, MinIs
  <2>4. k \in DOMAIN map /\ map[k].type = Available /\ size <= map[k].length
    <3>1. k \in DOMAIN map /\ map[k].type = Available /\ map[k].length >= size
      BY <2>3 DEF Fits
    <3>2. map[k] \in Entry
      BY <2>1, <3>1, ElementOfSeq
    <3> QED BY <1>2, <3>1, <3>2 DEF Entry
  <2>5. /\ nodes' = [start |-> from, end |-> from + size]
        /\ map' = [map EXCEPT ![k].base = @ + size, ![k].length = @ - size]
    BY <1>7 DEF AllocNodes, size
  <2> HIDE DEF k
  <2>6. map[k] \in Entry /\ from \in Nat /\ map[k].length \in Nat
    <3>1. map[k] \in Entry
      BY <2>1, <2>4, ElementOfSeq
    <3> QED BY <3>1 DEF Entry
  <2>7. /\ GoodMap(map') /\ DOMAIN map' = DOMAIN map
        /\ \A l \in DOMAIN map : l # k => map'[l] = map[l]
        /\ map'[k].length = map[k].length - size
        /\ map'[k].type = map[k].type
        /\ map'[k].base + map'[k].length = from + map[k].length
        /\ map'[k].base = from + size
        /\ \A x : x \in Bytes(map[k]) <=>
             x \in Bytes(map'[k]) \/ (x \in Nat /\ from <= x /\ x < from + size)
        /\ \A x : ~ (x \in Bytes(map'[k]) /\ from <= x /\ x < from + size)
    <3> DEFINE m == map
    <3>1. GoodMap(m) /\ k \in DOMAIN m /\ size <= m[k].length
      BY <1>1, <2>4
    <3> HIDE DEF m
    <3>2. LET new == [m EXCEPT ![k].base = @ + size, ![k].length = @ - size]
             start == m[k].base
         IN /\ GoodMap(new) /\ DOMAIN new = DOMAIN m
            /\ \A l \in DOMAIN m : l # k => new[l] = m[l]
            /\ new[k].base = start + size /\ new[k].length = m[k].length - size
            /\ new[k].type = m[k].type
            /\ new[k].base + new[k].length = start + m[k].length
            /\ \A x : x \in Bytes(m[k]) <=>
                 x \in Bytes(new[k]) \/ (x \in Nat /\ start <= x /\ x < start + size)
            /\ \A x : ~ (x \in Bytes(new[k]) /\ start <= x /\ x < start + size)
      BY <1>2, <3>1, AllocIs
    <3>3. map' = [m EXCEPT ![k].base = @ + size, ![k].length = @ - size]
      BY <2>5 DEF m
    <3>4. m = map /\ m[k].base = from
      BY DEF m
    <3> HIDE DEF from
    <3> QED BY <3>2, <3>3, <3>4
  <2> DEFINE Taken == Inside(nodes')
  <2>8. \A x : x \in Taken <=> x \in Nat /\ from <= x /\ x < from + size
    BY <1>2, <2>5, <2>6, InsideIs
  <2>9. nodes' \in Region
    BY <1>2, <2>5, <2>6 DEF Region
  <2>10. Taken \subseteq Bytes(map[k])
    BY <2>7, <2>8
  <2>11. NodesAt' = Taken
    <3>1. CASE nodes'.start # 0
      BY <3>1 DEF NodesAt
    <3>2. CASE nodes'.start = 0
      <4>1. from = 0
        BY <2>5, <3>2
      <4>2. 0 \notin Taken
        <5>1. 0 \in 0 .. BIOS_SIZE - 1
          BY BootAssumption
        <5>2. 0 \in purged
          BY <1>1, <5>1
        <5>3. 0 \notin BytesOf(map, Available)
          BY <1>5, <5>2
        <5>4. 0 \notin Bytes(map[k])
          BY <2>4, <5>3 DEF BytesOf
        <5> QED BY <2>10, <5>4
      <4>3. Taken = {}
        BY <1>2, <2>8, <4>1, <4>2
      <4> QED BY <3>2, <4>3 DEF NodesAt
    <3> QED BY <3>1, <3>2
  <2> HIDE DEF Taken
  <2>12. ASSUME NEW type PROVE BytesOf(map', type) = BytesOf(map, type) \ Taken
    <3>1. ASSUME NEW x \in BytesOf(map', type) PROVE x \in BytesOf(map, type) /\ x \notin Taken
      <4>1. PICK l \in DOMAIN map : map'[l].type = type /\ x \in Bytes(map'[l]) /\ x \in Nat
        BY <2>7, <3>1 DEF BytesOf
      <4>2. CASE l = k
        <5>1. x \in Bytes(map[k]) /\ x \notin Taken
          BY <2>7, <2>8, <4>1, <4>2
        <5> QED BY <2>7, <4>1, <4>2, <5>1 DEF BytesOf
      <4>3. CASE l # k
        <5>1. x \in Bytes(map[l]) /\ map[l].type = type
          BY <2>7, <4>1, <4>3
        <5>2. x \notin Bytes(map[k])
          BY <1>1, <2>4, <4>3, <5>1, OneType
        <5> QED BY <2>10, <4>1, <5>1, <5>2 DEF BytesOf
      <4> QED BY <4>2, <4>3
    <3>2. ASSUME NEW x \in BytesOf(map, type), x \notin Taken PROVE x \in BytesOf(map', type)
      <4>1. PICK l \in DOMAIN map : map[l].type = type /\ x \in Bytes(map[l]) /\ x \in Nat
        BY <3>2 DEF BytesOf
      <4>2. CASE l = k
        <5>1. x \in Bytes(map'[k])
          BY <2>7, <2>8, <3>2, <4>1, <4>2
        <5> QED BY <2>4, <2>7, <4>1, <4>2, <5>1 DEF BytesOf
      <4>3. CASE l # k
        BY <2>7, <4>1, <4>3 DEF BytesOf
      <4> QED BY <4>2, <4>3
    <3> QED BY <3>1, <3>2
  <2>13. LeftInv'
    <3>1. \A type : BytesOf(map', type) = BytesOf(firmware', type) \ (purged' \cup NodesAt')
      BY <1>1, <1>5, <2>11, <2>12
    <3> QED BY <1>1, <3>1 DEF LeftInv
  <2>14. EndsInv'
    <3> DEFINE limit == (nodes_count + 1) * PAGE_SIZE
    <3>1. \A l \in DOMAIN map : map[l].type = Available /\ map[l].length # 0 =>
            map[l].base + map[l].length < limit
      BY <1>1 DEF BootInv, EndsInv
    <3>2. ASSUME NEW l \in DOMAIN map', map'[l].type = Available, map'[l].length # 0
          PROVE  map'[l].base + map'[l].length < limit
      <4> HIDE DEF limit
      <4>1. CASE l = k
        <5>1. map[k].length # 0
          BY <1>2, <2>4, <2>6, <2>7, <3>2, <4>1
        <5> QED BY <2>4, <2>7, <3>1, <4>1, <5>1
      <4>2. CASE l # k
        BY <2>7, <3>1, <3>2, <4>2
      <4> QED BY <4>1, <4>2
    <3>3. nodes'.end <= map'[k].base + map'[k].length
      BY <1>2, <2>4, <2>5, <2>6, <2>7
    <3> QED BY <1>1, <2>4, <2>7, <3>2, <3>3 DEF EndsInv
  <2> QED BY <1>3, <1>4, <2>7, <2>9, <2>13, <2>14 DEF BootInv
<1> QED BY <1>6, <1>7

LEMMA InitKeeps ==
  ASSUME BootInv, InitLow \/ InitHigh
  PROVE  BootInv'
<1>1. /\ UNCHANGED <<map, todo, nodes_count, nodes, firmware, purged>>
      /\ pc' \in {"high", "done"} /\ pc # "purge" /\ pc' # "purge"
  BY DEF InitLow, InitHigh
<1>2. BootTypes'
  BY <1>1 DEF BootInv, BootTypes
<1>3. LeftInv' /\ EndsInv'
  <2>1. NodesAt' = NodesAt
    BY <1>1 DEF NodesAt
  <2> QED BY <1>1, <2>1 DEF BootInv, LeftInv, EndsInv
<1>4. FreesInv'
  <2>1. ASSUME NEW p, NEW low PROVE Count(p, low)' = Count(p, low)
    BY <1>1 DEF Count
  <2>2. \A p, low : Count(p, low) \in Nat
    <3> TAKE p, low
    <3>1. map \in Seq(Entry)
      BY DEF BootInv, BootTypes, GoodMap
    <3>2. IsFiniteSet(DOMAIN map)
      <4>1. DOMAIN map = 1 .. Len(map) /\ Len(map) \in Int /\ 1 \in Int
        BY <3>1
      <4> QED BY <4>1, FS_Interval
    <3>3. IsFiniteSet({k \in DOMAIN map : p \in PagesOf(map[k], low)})
      BY <3>2, FS_Subset
    <3> QED BY <3>3, FS_CardinalityType DEF Count
  <2>3. CASE InitLow
    <3>1. pc = "low" /\ pc' = "high" /\ frees' = [p \in Page |-> frees[p] + Count(p, TRUE)]
      BY <2>3 DEF InitLow, FreePages, Count
    <3>2. \A p \in Page : frees[p] = 0
      BY <3>1 DEF BootInv, FreesInv
    <3>3. \A p \in Page : frees[p] + Count(p, TRUE) = Count(p, TRUE)
      <4>1. \A p : Count(p, TRUE) \in Nat
        BY <2>2, Zenon
      <4>2. \A n \in Nat : 0 + n = n
        OBVIOUS
      <4> QED BY <3>2, <4>1, <4>2, Zenon
    <3>4. frees' = [p \in Page |-> Count(p, TRUE)]
      BY <3>1, <3>3, Zenon
    <3>5. \A p \in Page : Count(p, TRUE)' = Count(p, TRUE)
      BY <2>1, Zenon
    <3>6. frees' = [p \in Page |-> Count(p, TRUE)']
      BY <3>4, <3>5, Zenon
    <3> QED BY <3>1, <3>6 DEF FreesInv
  <2>4. CASE InitHigh
    <3>1. pc = "high" /\ pc' = "done" /\ frees' = [p \in Page |-> frees[p] + Count(p, FALSE)]
      BY <2>4 DEF InitHigh, FreePages, Count
    <3>2. \A p \in Page : frees[p] = Count(p, TRUE)
      BY <3>1 DEF BootInv, FreesInv
    <3> QED BY <2>1, <2>2, <3>1, <3>2 DEF FreesInv
  <2> QED BY <2>3, <2>4
<1> QED BY <1>2, <1>3, <1>4 DEF BootInv

LEMMA BootKeeps == BootInv /\ [Next]_vars => BootInv'
<1>1. CASE UNCHANGED vars
  <2>1. /\ UNCHANGED <<map, todo, pc, nodes_count, nodes, frees, firmware, purged>>
    BY <1>1 DEF vars
  <2> QED BY <2>1 DEF BootInv, BootTypes, LeftInv, EndsInv, FreesInv, NodesAt, Count
<1> QED BY <1>1, PurgeKeeps, CountKeeps, AllocKeeps, InitKeeps DEF Next

(* The inductive invariant of the boot's memory: the map's entries of each *)
(* type are what the firmware listed without what was cut out, in order    *)
(* and apart; the nodes are as many as the pages below the last available  *)
(* byte; a page was freed as often as it is a page of an entry             *)
(* (bootstrap_init_mmap, buddy_init, buddy_init_high).                     *)
THEOREM BootInvariant == Spec => []BootInv
BY BootStarts, BootKeeps, PTL DEF Spec

(* Paging frees and cuts nothing that buddy_init and buddy_init_high do not*)
(* (init_memory): it leaves the state of Bootstrap alone or makes one of   *)
(* its steps.                                                              *)
THEOREM PagingIsBoot == PagingSpec => Spec
<1>1. InitMemory => Init
  BY DEF InitMemory
<1>2. [PagingNext]_<<vars, paging>> => [Next]_vars
  BY DEF PagingNext, BuddyInit, PagingStart, MapBigPage, NoNewPage, PagingOn, BuddyInitHigh, Next
<1> QED BY <1>1, <1>2, PTL DEF PagingSpec, Spec

----------------------------------------------------------------------------
(* MapIsWhatIsLeft                                                         *)

LEMMA OfTypeIs ==
  ASSUME NEW m, GoodMap(m)
  PROVE  /\ OfType(m, TRUE) = BytesOf(m, Available)
         /\ \A x : x \in OfType(m, FALSE) <=> \E type : type # Available /\ x \in BytesOf(m, type)
<1>1. \A k \in DOMAIN m : Bytes(m[k]) \subseteq Nat
  <2>1. \A k \in DOMAIN m : m[k] \in Entry
    BY ElementOfSeq DEF GoodMap
  <2> QED BY <2>1, BytesIs
<1>2. \A x : x \in OfType(m, TRUE) <=> \E k \in DOMAIN m : m[k].type = Available /\ x \in Bytes(m[k])
  BY DEF OfType
<1>3. \A x : x \in OfType(m, FALSE) <=> \E k \in DOMAIN m : m[k].type # Available /\ x \in Bytes(m[k])
  BY DEF OfType
<1> QED BY <1>1, <1>2, <1>3 DEF BytesOf

LEMMA MapIsLeft == BootInv => MapIsWhatIsLeft
<1> SUFFICES ASSUME BootInv PROVE MapIsWhatIsLeft
  OBVIOUS
<1> DEFINE out == purged \cup NodesAt
<1>1. GoodMap(map) /\ GoodMap(firmware)
  BY FirmwareIs DEF BootInv, BootTypes
<1>2. \A type : BytesOf(map, type) = BytesOf(firmware, type) \ out
  BY DEF BootInv, LeftInv
<1> HIDE DEF out
<1>3. OfType(map, TRUE) = OfType(firmware, TRUE) \ out
  BY <1>1, <1>2, OfTypeIs
<1>4. OfType(map, FALSE) = OfType(firmware, FALSE) \ out
  <2>1. \A x : x \in OfType(map, FALSE) <=> \E type : type # Available /\ x \in BytesOf(map, type)
    BY <1>1, OfTypeIs
  <2>2. \A x : x \in OfType(firmware, FALSE) <=> \E type : type # Available /\ x \in BytesOf(firmware, type)
    BY <1>1, OfTypeIs
  <2> QED BY <1>2, <2>1, <2>2
<1>5. \A available \in BOOLEAN : OfType(map, available) = OfType(firmware, available) \ out
  BY <1>3, <1>4
<1>6. \A k, l \in DOMAIN map : k # l => Bytes(map[k]) \cap Bytes(map[l]) = {}
  BY <1>1, OneType
<1> QED BY <1>5, <1>6 DEF MapIsWhatIsLeft, out, NodesAt

(* MapIsWhatIsLeft, for any firmware's map and any regions to cut out      *)
(* (bootstrap_init_mmap, bootstrap_del, bootstrap_alloc).                  *)
THEOREM MapIsLeftAlways == PagingSpec => []MapIsWhatIsLeft
BY BootInvariant, PagingIsBoot, MapIsLeft, PTL

----------------------------------------------------------------------------
(* FreeMemoryFreed                                                         *)

(* p is a whole page of entry k of available memory.                       *)
PageIn(p, k) ==
  /\ map[k].type = Available /\ map[k].length # 0
  /\ map[k].base <= p * PAGE_SIZE
  /\ (p + 1) * PAGE_SIZE <= map[k].base + map[k].length

Holders(p) == {k \in DOMAIN map : PageIn(p, k)}

LEMMA PageBytesIs ==
  ASSUME NEW p \in Page
  PROVE  /\ p \in Nat /\ p * PAGE_SIZE \in Nat /\ (p + 1) * PAGE_SIZE \in Nat
         /\ p * PAGE_SIZE < (p + 1) * PAGE_SIZE
         /\ \A x : x \in PageBytes(p) <=> x \in Nat /\ p * PAGE_SIZE <= x /\ x < (p + 1) * PAGE_SIZE
<1>1. p \in Nat /\ PAGE_SIZE \in Nat /\ PAGE_SIZE > 0
  BY BootAssumption DEF Page
<1>2. \A a, b \in Nat : a * b \in Nat /\ (a + 1) * b = a * b + b
  OBVIOUS
<1> DEFINE a == p * PAGE_SIZE
           b == (p + 1) * PAGE_SIZE
<1>3. a \in Nat /\ b = a + PAGE_SIZE
  BY <1>1, <1>2
<1>4. PageBytes(p) = a .. b - 1
  BY DEF PageBytes
<1> HIDE DEF a, b
<1>5. b \in Nat /\ a < b /\ \A x : x \in PageBytes(p) <=> x \in Nat /\ a <= x /\ x < b
  BY <1>1, <1>3, <1>4
<1> QED BY <1>1, <1>3, <1>5 DEF a, b

LEMMA OneHolder ==
  ASSUME BootInv, NEW p \in Page
  PROVE  /\ \A k, l \in Holders(p) : k = l
         /\ \A k \in Holders(p) : PageBytes(p) \subseteq Bytes(map[k])
<1>1. GoodMap(map) /\ \A k \in DOMAIN map : map[k] \in Entry
  BY ElementOfSeq DEF BootInv, BootTypes, GoodMap
<1> DEFINE a == p * PAGE_SIZE
           b == (p + 1) * PAGE_SIZE
<1>2. a \in Nat /\ b \in Nat /\ a < b /\ \A x : x \in PageBytes(p) <=> x \in Nat /\ a <= x /\ x < b
  BY PageBytesIs
<1>3. \A k \in Holders(p) : k \in DOMAIN map /\ map[k].base <= a /\ b <= map[k].base + map[k].length
  BY DEF Holders, PageIn
<1> HIDE DEF a, b
<1>4. ASSUME NEW k \in Holders(p) PROVE PageBytes(p) \subseteq Bytes(map[k])
  <2>1. /\ map[k].base \in Nat /\ map[k].length \in Nat
        /\ \A x : x \in Bytes(map[k]) <=> x \in Nat /\ map[k].base <= x /\ x < map[k].base + map[k].length
    BY <1>1, <1>3, BytesIs
  <2> QED BY <1>2, <1>3, <2>1
<1>5. ASSUME NEW k \in Holders(p), NEW l \in Holders(p) PROVE k = l
  <2>1. a \in Bytes(map[k]) /\ a \in Bytes(map[l])
    BY <1>2, <1>4
  <2> QED BY <1>1, <1>3, <2>1, OneType
<1> QED BY <1>4, <1>5

Low(p) == p * PAGE_SIZE < BOOTMEM_SIZE

LEMMA CountIs ==
  ASSUME BootInv, NEW p \in Page
  PROVE  /\ Count(p, TRUE) = IF Low(p) /\ Holders(p) # {} THEN 1 ELSE 0
         /\ Count(p, FALSE) = IF ~Low(p) /\ Holders(p) # {} THEN 1 ELSE 0
<1>1. Cardinality({}) = 0 /\ \A k : Cardinality({k}) = 1
  BY FS_EmptySet, FS_Singleton
<1>2. Holders(p) = {} \/ \E k : Holders(p) = {k}
  BY OneHolder
<1>3. Cardinality(Holders(p)) = IF Holders(p) # {} THEN 1 ELSE 0
  BY <1>1, <1>2
<1>4. {k \in DOMAIN map : p \in PagesOf(map[k], TRUE)} = IF Low(p) THEN Holders(p) ELSE {}
  BY DEF PagesOf, Holders, PageIn, Low
<1>5. {k \in DOMAIN map : p \in PagesOf(map[k], FALSE)} = IF Low(p) THEN {} ELSE Holders(p)
  BY DEF PagesOf, Holders, PageIn, Low
<1> QED BY <1>1, <1>3, <1>4, <1>5 DEF Count

(* How often a page was freed.                                             *)
LEMMA FreesAre ==
  ASSUME BootInv, NEW p \in Page
  PROVE  frees[p] = IF Holders(p) # {} /\ (pc = "done" \/ (pc = "high" /\ Low(p))) THEN 1 ELSE 0
<1>1. frees[p] = IF pc = "high" THEN Count(p, TRUE)
                 ELSE IF pc = "done" THEN Count(p, TRUE) + Count(p, FALSE) ELSE 0
  BY DEF BootInv, FreesInv
<1>2. CASE pc = "high"
  BY <1>1, <1>2, CountIs
<1>3. CASE pc = "done"
  <2> DEFINE low == Count(p, TRUE)
             high == Count(p, FALSE)
  <2>1. frees[p] = low + high
    BY <1>1, <1>3
  <2>2. /\ low = IF Low(p) /\ Holders(p) # {} THEN 1 ELSE 0
        /\ high = IF ~Low(p) /\ Holders(p) # {} THEN 1 ELSE 0
    BY CountIs
  <2> HIDE DEF low, high
  <2>3. low + high = IF Holders(p) # {} THEN 1 ELSE 0
    BY <2>2
  <2> QED BY <1>3, <2>1, <2>3
<1> QED BY <1>1, <1>2, <1>3

LEMMA FreedAreFree == BootInv => FreedPagesAreFree
<1> SUFFICES ASSUME BootInv, NEW p \in Page, frees[p] > 0
             PROVE  /\ frees[p] = 1
                    /\ PageBytes(p) \subseteq OfType(firmware, TRUE) \ purged
                    /\ nodes.start # 0 => PageBytes(p) \cap Inside(nodes) = {}
                    /\ p \in 1 .. nodes_count - 1
                    /\ pc = "high" => p * PAGE_SIZE < BOOTMEM_SIZE
  BY DEF FreedPagesAreFree
<1>1. frees[p] = 1 /\ (pc = "high" \/ pc = "done") /\ (pc = "high" => Low(p))
  BY FreesAre
<1>2. Holders(p) # {}
  BY FreesAre
<1>3. PICK k \in DOMAIN map : PageIn(p, k) /\ PageBytes(p) \subseteq Bytes(map[k])
  BY <1>2, OneHolder DEF Holders
<1> DEFINE a == p * PAGE_SIZE
           b == (p + 1) * PAGE_SIZE
<1>4. p \in Nat /\ a \in Nat /\ b \in Nat /\ a < b /\ \A x : x \in PageBytes(p) <=> x \in Nat /\ a <= x /\ x < b
  BY PageBytesIs
<1>5. PageBytes(p) \subseteq BytesOf(map, Available)
  BY <1>3, <1>4 DEF PageIn, BytesOf
<1>6. BytesOf(map, Available) = BytesOf(firmware, Available) \ (purged \cup NodesAt)
  BY DEF BootInv, LeftInv
<1>7. OfType(firmware, TRUE) = BytesOf(firmware, Available)
  BY FirmwareIs, OfTypeIs DEF BootInv, BootTypes
<1>8. PageBytes(p) \subseteq OfType(firmware, TRUE) \ purged
  BY <1>5, <1>6, <1>7
<1>9. nodes.start # 0 => PageBytes(p) \cap Inside(nodes) = {}
  BY <1>5, <1>6 DEF NodesAt
<1>10. p # 0
  <2>1. 0 .. BIOS_SIZE - 1 \subseteq purged
    BY <1>1 DEF BootInv, LeftInv
  <2>2. 0 \in purged
    BY <2>1, BootAssumption
  <2>3. a # 0
    <3> HIDE DEF a, b
    <3>1. a \in PageBytes(p)
      BY <1>4
    <3> QED BY <1>8, <2>2, <3>1
  <2>4. p = 0 => a = 0
    BY BootAssumption
  <2> QED BY <2>3, <2>4
<1>11. p < nodes_count
  <2>1. /\ map[k].type = Available /\ map[k].length # 0 /\ b <= map[k].base + map[k].length
    BY <1>3 DEF PageIn
  <2>2. map[k].base + map[k].length < (nodes_count + 1) * PAGE_SIZE
    BY <1>1, <2>1 DEF BootInv, EndsInv
  <2>3. map[k].base + map[k].length \in Nat
    <3>1. map[k] \in Entry
      BY <1>3, ElementOfSeq DEF BootInv, BootTypes, GoodMap
    <3> QED BY <3>1, BytesIs
  <2>4. nodes_count \in Nat /\ PAGE_SIZE \in Nat
    BY BootAssumption DEF BootInv, BootTypes
  <2>5. \A i, j, s \in Nat : i * s < j * s => i < j
    OBVIOUS
  <2>6. \A i, s \in Nat : i * s \in Nat
    OBVIOUS
  <2> DEFINE n == nodes_count + 1
             q == p + 1
  <2>7. q \in Nat /\ n \in Nat
    BY <1>4, <2>4
  <2>8. q * PAGE_SIZE < n * PAGE_SIZE
    <3>1. n * PAGE_SIZE \in Nat
      BY <2>4, <2>6, <2>7
    <3> DEFINE c == n * PAGE_SIZE
    <3>2. b <= map[k].base + map[k].length /\ map[k].base + map[k].length < c /\ c \in Nat
      BY <2>1, <2>2, <3>1
    <3> HIDE DEF c, b
    <3>3. b < c
      BY <1>4, <2>3, <3>2
    <3> QED BY <3>3 DEF b, c
  <2> HIDE DEF q, n
  <2>9. q < n
    BY <2>4, <2>5, <2>7, <2>8
  <2> QED BY <1>4, <2>4, <2>9 DEF q, n
<1>12. p \in 1 .. nodes_count - 1
  <2>1. nodes_count \in Nat
    BY DEF BootInv, BootTypes
  <2> QED BY <1>4, <1>10, <1>11, <2>1
<1> QED BY <1>1, <1>8, <1>9, <1>12 DEF Low

LEMMA AllAreFreed == BootInv => NoPageForgotten
<1> SUFFICES ASSUME BootInv, pc = "done", NEW p \in Page,
                    PageBytes(p) \subseteq (OfType(firmware, TRUE) \ purged) \ NodesAt
             PROVE  frees[p] = 1
  BY DEF NoPageForgotten, NodesAt
<1> DEFINE a == p * PAGE_SIZE
           b == (p + 1) * PAGE_SIZE
           end(k) == map[k].base + map[k].length
<1>1. p \in Nat /\ a \in Nat /\ b \in Nat /\ a < b /\ \A x : x \in PageBytes(p) <=> x \in Nat /\ a <= x /\ x < b
  BY PageBytesIs
<1>2. PageBytes(p) \subseteq BytesOf(map, Available)
  <2>1. BytesOf(map, Available) = BytesOf(firmware, Available) \ (purged \cup NodesAt)
    BY DEF BootInv, LeftInv
  <2>2. OfType(firmware, TRUE) = BytesOf(firmware, Available)
    BY FirmwareIs, OfTypeIs DEF BootInv, BootTypes
  <2> QED BY <2>1, <2>2
<1>3. GoodMap(map) /\ \A k \in DOMAIN map : map[k] \in Entry
  BY ElementOfSeq DEF BootInv, BootTypes, GoodMap
<1>4. \A k \in DOMAIN map : /\ map[k].base \in Nat /\ map[k].length \in Nat /\ end(k) \in Nat
                            /\ \A x : x \in Bytes(map[k]) <=> x \in Nat /\ map[k].base <= x /\ x < end(k)
  BY <1>3, BytesIs
<1>5. PICK k \in DOMAIN map : map[k].type = Available /\ a \in Bytes(map[k])
  BY <1>1, <1>2 DEF BytesOf
<1> HIDE DEF a, b, end
<1>6. map[k].base <= a /\ a < end(k) /\ map[k].length # 0
  BY <1>4, <1>5 DEF end
<1>7. b <= end(k)
  <2> SUFFICES ASSUME end(k) < b PROVE FALSE
    BY <1>1, <1>4
  <2>1. end(k) \in PageBytes(p)
    BY <1>1, <1>4, <1>6
  <2>2. PICK l \in DOMAIN map : map[l].type = Available /\ end(k) \in Bytes(map[l])
    BY <1>2, <2>1 DEF BytesOf
  <2>3. map[l].base <= end(k) /\ end(k) < end(l)
    BY <1>4, <2>2
  <2>4. k \in Nat /\ l \in Nat
    BY <1>3 DEF GoodMap
  <2>5. \A i, j \in DOMAIN map : i < j /\ map[i].type = map[j].type => end(i) < map[j].base
    BY <1>3 DEF GoodMap, Ordered, Separate, end
  <2>6. k = l \/ end(k) < map[l].base \/ end(l) < map[k].base
    BY <1>5, <2>2, <2>4, <2>5
  <2> QED BY <1>1, <1>4, <1>6, <2>3, <2>6
<1>8. k \in Holders(p)
  BY <1>5, <1>6, <1>7 DEF Holders, PageIn, a, b, end
<1> QED BY <1>8, FreesAre

(* FreeMemoryFreed, for any firmware's map, regions and size of a page     *)
(* (__buddy_init_iterate in its three modes).                              *)
THEOREM FreeMemoryFreedAlways == PagingSpec => []FreeMemoryFreed
<1>1. BootInv => FreeMemoryFreed
  BY FreedAreFree, AllAreFreed DEF FreeMemoryFreed
<1> QED BY <1>1, BootInvariant, PagingIsBoot, PTL

----------------------------------------------------------------------------
(* TablesApart                                                             *)

Index == 0 .. PTE_COUNT - 1

(* The tables that point to tables.                                        *)
Above(tbl, top) == {t \in DOMAIN tbl : t = top \/ \E i \in Index : tbl[top][i] = t}

(* The tables are a tree under top: each other table has one pointer, from *)
(* a table above.                                                          *)
TreeOf(tbl, top) ==
  /\ top \in DOMAIN tbl /\ DOMAIN tbl \subseteq Page
  /\ \A t \in DOMAIN tbl : tbl[t] \in [Index -> Int]
  /\ \A t \in Above(tbl, top), i \in Index :
       tbl[t][i] = Absent \/ tbl[t][i] \in DOMAIN tbl \ {top}
  /\ \A t, u \in Above(tbl, top), i, j \in Index :
       tbl[t][i] # Absent /\ tbl[t][i] = tbl[u][j] => t = u /\ i = j
  /\ \A q \in DOMAIN tbl \ {top} : \E t \in Above(tbl, top), i \in Index : tbl[t][i] = q

(* The big page that the indices i, j and k lead to.                       *)
Big(tbl, top, i, j, k) ==
  LET up == tbl[top][i]
      down == IF up = Absent THEN Absent ELSE tbl[up][j]
  IN IF down = Absent THEN Absent ELSE tbl[down][k]

LEMMA EmptyIs == Empty \in [Index -> Int] /\ \A i \in Index : Empty[i] = Absent
BY DEF Empty, Index, Absent

LEMMA PagesAreNumbers == Page \subseteq Nat /\ Absent \notin Page
BY BootAssumption DEF Page, Absent

(* What making a table does to the tables.                                 *)
Made(tbl, t, i, p) == [WithTable(tbl, p) EXCEPT ![t][i] = p]

IsMade(new, tbl, t, i, p) ==
  /\ DOMAIN new = DOMAIN tbl \cup {p}
  /\ new[p] = Empty
  /\ \A u \in DOMAIN tbl : u # t => new[u] = tbl[u]
  /\ new[t] = [tbl[t] EXCEPT ![i] = p]

LEMMA NewTableIs ==
  ASSUME NEW tbl, NEW t, NEW i, NEW p,
         t \in DOMAIN tbl, tbl[t] \in [Index -> Int], i \in Index, p \notin DOMAIN tbl
  PROVE  IsMade(Made(tbl, t, i, p), tbl, t, i, p)
<1> DEFINE mid == WithTable(tbl, p)
<1>1. mid = [x \in {p} \cup DOMAIN tbl |-> IF x = p THEN Empty ELSE tbl[x]]
  BY DEF WithTable
<1>2. DOMAIN mid = DOMAIN tbl \cup {p} /\ mid[p] = Empty /\ (\A u \in DOMAIN tbl : mid[u] = tbl[u])
      /\ mid = [x \in DOMAIN mid |-> mid[x]]
  BY <1>1
<1> HIDE DEF mid
<1>3. [mid EXCEPT ![t][i] = p] = [mid EXCEPT ![t] = [mid[t] EXCEPT ![i] = p]]
  BY <1>2
<1> QED BY <1>2, <1>3 DEF mid, Made, IsMade

(* A new table, pointed to by an entry that was absent, keeps the tree and *)
(* what is mapped.                                                         *)
LEMMA NewTableKeeps ==
  ASSUME NEW tbl, NEW top, TreeOf(tbl, top), NEW t \in Above(tbl, top), NEW i \in Index,
         tbl[t][i] = Absent, NEW p \in Page \ DOMAIN tbl
  PROVE  LET new == Made(tbl, t, i, p)
         IN /\ TreeOf(new, top) /\ DOMAIN new = DOMAIN tbl \cup {p}
            /\ new[t][i] = p /\ p # top
            /\ p \in Above(new, top) <=> t = top
            /\ \A a, b, c \in Index : Big(new, top, a, b, c) = Big(tbl, top, a, b, c)
<1> DEFINE new == Made(tbl, t, i, p)
           A == Above(tbl, top)
<1>1. /\ top \in DOMAIN tbl /\ DOMAIN tbl \subseteq Page
      /\ \A u \in DOMAIN tbl : tbl[u] \in [Index -> Int]
      /\ t \in DOMAIN tbl /\ p \in Nat /\ p # Absent /\ Absent \notin DOMAIN tbl
  BY PagesAreNumbers DEF TreeOf, Above
<1>2. /\ DOMAIN new = DOMAIN tbl \cup {p}
      /\ new[p] = Empty
      /\ \A u \in DOMAIN tbl : u # t => new[u] = tbl[u]
      /\ new[t] = [tbl[t] EXCEPT ![i] = p]
  <2>1. p \notin DOMAIN tbl /\ t \in DOMAIN tbl /\ tbl[t] \in [Index -> Int]
    BY <1>1
  <2>2. IsMade(new, tbl, t, i, p)
    BY <2>1, NewTableIs
  <2> HIDE DEF new
  <2> QED BY <2>2 DEF IsMade
<1> HIDE DEF new
<1>3. new[t][i] = p /\ new[t] \in [Index -> Int] /\ \A j \in Index : j # i => new[t][j] = tbl[t][j]
  BY <1>1, <1>2
<1>4. \A u \in DOMAIN new : new[u] \in [Index -> Int]
  BY <1>1, <1>2, <1>3, EmptyIs
<1>5. \A u \in A, j \in Index : tbl[u][j] = Absent \/ tbl[u][j] \in DOMAIN tbl \ {top}
  BY DEF TreeOf
<1>6. \A u, w \in A, j, k \in Index :
        tbl[u][j] # Absent /\ tbl[u][j] = tbl[w][k] => u = w /\ j = k
  BY DEF TreeOf
<1>7. top \in A /\ A \subseteq DOMAIN tbl /\ \A j \in Index : tbl[top][j] # Absent => tbl[top][j] \in A
  BY <1>1, <1>5 DEF Above
<1>8. \A u \in DOMAIN tbl, j \in Index :
        new[u][j] = IF u = t /\ j = i THEN p ELSE tbl[u][j]
  BY <1>2, <1>3
<1>9. \A j \in Index : new[p][j] = Absent
  BY <1>2, EmptyIs
<1> HIDE DEF A
<1>10. Above(new, top) = IF t = top THEN A \cup {p} ELSE A
  <2>1. \A x : x \in Above(new, top) <=>
          x \in DOMAIN tbl \cup {p} /\ (x = top \/ \E j \in Index : new[top][j] = x)
    BY <1>2 DEF Above
  <2>2. \A x : x \in A <=> x \in DOMAIN tbl /\ (x = top \/ \E j \in Index : tbl[top][j] = x)
    BY DEF A, Above
  <2>3. CASE t = top
    <3>1. \A j \in Index : new[top][j] = IF j = i THEN p ELSE tbl[top][j]
      BY <1>1, <1>8, <2>3
    <3>2. tbl[top][i] = Absent
      BY <2>3
    <3> QED BY <1>1, <2>1, <2>2, <2>3, <3>1, <3>2
  <2>4. CASE t # top
    <3>1. \A j \in Index : new[top][j] = tbl[top][j]
      BY <1>1, <1>8, <2>4
    <3>2. \A j \in Index : new[top][j] # p
      BY <1>1, <1>5, <1>7, <3>1
    <3>3. \A x : (\E j \in Index : new[top][j] = x) <=> \E j \in Index : tbl[top][j] = x
      BY <3>1
    <3>4. \A x : x \in Above(new, top) <=> x \in A
      BY <1>1, <2>1, <2>2, <3>2, <3>3
    <3> QED BY <2>4, <3>4
  <2> QED BY <2>3, <2>4
<1>11. \A u \in Above(new, top) : u \in A \/ u = p
  BY <1>10
<1>12. \A u \in Above(new, top), j \in Index :
         new[u][j] = Absent \/ new[u][j] \in DOMAIN new \ {top}
  <2> TAKE u \in Above(new, top), j \in Index
  <2>1. CASE u = p
    BY <1>9, <2>1
  <2>2. CASE u \in A
    BY <1>1, <1>2, <1>5, <1>7, <1>8, <2>2
  <2> QED BY <1>11, <2>1, <2>2
<1>13. \A u, w \in Above(new, top), j, k \in Index :
         new[u][j] # Absent /\ new[u][j] = new[w][k] => u = w /\ j = k
  <2> SUFFICES ASSUME NEW u \in Above(new, top), NEW w \in Above(new, top),
                      NEW j \in Index, NEW k \in Index,
                      new[u][j] # Absent, new[u][j] = new[w][k]
               PROVE  u = w /\ j = k
    OBVIOUS
  <2>1. u \in A /\ w \in A
    BY <1>9, <1>11
  <2>2. /\ new[u][j] = IF u = t /\ j = i THEN p ELSE tbl[u][j]
        /\ new[w][k] = IF w = t /\ k = i THEN p ELSE tbl[w][k]
    BY <1>7, <1>8, <2>1
  <2>3. tbl[u][j] # p /\ tbl[w][k] # p
    BY <1>1, <1>5, <2>1
  <2>4. tbl[u][j] # Absent /\ tbl[u][j] = tbl[w][k] => u = w /\ j = k
    BY <1>6, <2>1
  <2> QED BY <1>1, <2>2, <2>3, <2>4
<1>14. \A q \in DOMAIN new \ {top} : \E u \in Above(new, top), j \in Index : new[u][j] = q
  <2> TAKE q \in DOMAIN new \ {top}
  <2>1. CASE q = p
    BY <1>3, <1>10, <2>1 DEF A
  <2>2. CASE q # p
    <3>1. PICK u \in A, j \in Index : tbl[u][j] = q
      BY <1>2, <2>2 DEF TreeOf, A
    <3>2. ~ (u = t /\ j = i)
      BY <1>1, <1>2, <2>2, <3>1
    <3> QED BY <1>7, <1>8, <1>10, <3>1, <3>2
  <2> QED BY <2>1, <2>2
<1>15. TreeOf(new, top)
  BY <1>1, <1>2, <1>4, <1>12, <1>13, <1>14 DEF TreeOf
<1>16. ASSUME NEW a \in Index, NEW b \in Index, NEW c \in Index
       PROVE  Big(new, top, a, b, c) = Big(tbl, top, a, b, c)
  <2> DEFINE up == tbl[top][a]
             down == IF up = Absent THEN Absent ELSE tbl[up][b]
             newup == new[top][a]
             newdown == IF newup = Absent THEN Absent ELSE new[newup][b]
  <2>1. Big(tbl, top, a, b, c) = IF down = Absent THEN Absent ELSE tbl[down][c]
    BY DEF Big
  <2>2. Big(new, top, a, b, c) = IF newdown = Absent THEN Absent ELSE new[newdown][c]
    BY DEF Big
  <2>3. up = Absent \/ (up \in A /\ up # top)
    BY <1>5, <1>7
  <2>4. newup = IF top = t /\ a = i THEN p ELSE up
    BY <1>1, <1>8
  <2>5. up # Absent => down = tbl[up][b] /\ (down = Absent \/ down \in DOMAIN tbl \ {top})
    BY <1>5, <2>3
  <2>6. CASE top = t /\ a = i
    <3>1. up = Absent /\ newup = p
      BY <2>4, <2>6
    <3>2. down = Absent /\ newdown = Absent
      BY <1>1, <1>9, <3>1
    <3> QED BY <2>1, <2>2, <3>2
  <2>7. CASE ~ (top = t /\ a = i) /\ up = Absent
    <3>1. down = Absent /\ newdown = Absent
      BY <2>4, <2>7
    <3> QED BY <2>1, <2>2, <3>1
  <2>8. CASE ~ (top = t /\ a = i) /\ up # Absent
    <3>1. up \in A /\ up \in DOMAIN tbl /\ newup = up /\ newdown = new[up][b]
      BY <1>7, <2>3, <2>4, <2>8
    <3>2. CASE up = t /\ b = i
      <4>1. down = Absent /\ newdown = p
        BY <1>8, <2>5, <2>8, <3>1, <3>2
      <4> QED BY <1>1, <1>9, <2>1, <2>2, <4>1
    <3>3. CASE ~ (up = t /\ b = i)
      <4>1. newdown = down
        BY <1>8, <2>5, <2>8, <3>1, <3>3
      <4>2. ASSUME down # Absent PROVE new[down][c] = tbl[down][c]
        <5>1. down \in DOMAIN tbl /\ down = tbl[up][b]
          BY <2>5, <2>8, <4>2
        <5>2. ASSUME down = t PROVE FALSE
          <6>1. t # top
            BY <2>5, <2>8, <4>2, <5>2
          <6>2. PICK j \in Index : tbl[top][j] = t
            BY <6>1 DEF Above
          <6>3. tbl[top][j] # Absent /\ tbl[top][j] = tbl[up][b]
            BY <4>2, <5>1, <5>2, <6>2
          <6>4. top = up
            BY <1>6, <1>7, <3>1, <6>3
          <6> QED BY <2>3, <2>8, <6>4
        <5> QED BY <1>2, <5>1, <5>2
      <4> QED BY <2>1, <2>2, <4>1, <4>2
    <3> QED BY <3>2, <3>3
  <2> QED BY <2>6, <2>7, <2>8
<1>17. p # top /\ (p \in Above(new, top) <=> t = top)
  BY <1>1, <1>7, <1>10
<1> QED BY <1>2, <1>3, <1>15, <1>16, <1>17 DEF new

(* What a step down to the table q does, by entry i of t.                  *)
Deeper(new, q, tbl, top, t, i) ==
  /\ TreeOf(new, top)
  /\ DOMAIN tbl \subseteq DOMAIN new /\ DOMAIN new \subseteq DOMAIN tbl \cup NewPages(tbl)
  /\ q \in DOMAIN new \ {top} /\ new[t][i] = q
  /\ q \in Above(new, top) <=> t = top
  /\ \A u \in Above(tbl, top), j \in Index : tbl[u][j] # Absent => new[u][j] = tbl[u][j]
  /\ \A a, b, c \in Index : Big(new, top, a, b, c) = Big(tbl, top, a, b, c)

LEMMA NextTableKeeps ==
  ASSUME NEW tbl, NEW top, TreeOf(tbl, top), NEW t \in Above(tbl, top), NEW i \in Index,
         NEW up \in NextTable(tbl, t, i)
  PROVE  Deeper(up[1], up[2], tbl, top, t, i)
<1>1. CASE tbl[t][i] # Absent
  <2> DEFINE q == tbl[t][i]
  <2>1. up = <<tbl, q>>
    BY <1>1 DEF NextTable
  <2>2. q \in DOMAIN tbl \ {top}
    BY <1>1 DEF TreeOf
  <2>3. q \in Above(tbl, top) <=> t = top
    <3>1. t = top => q \in Above(tbl, top)
      BY <2>2 DEF Above
    <3>2. ASSUME q \in Above(tbl, top) PROVE t = top
      <4>1. PICK j \in Index : tbl[top][j] = q
        BY <2>2, <3>2 DEF Above
      <4>2. top \in Above(tbl, top)
        BY DEF TreeOf, Above
      <4> QED BY <1>1, <4>1, <4>2 DEF TreeOf
    <3> QED BY <3>1, <3>2
  <2> QED BY <2>1, <2>2, <2>3 DEF Deeper
<1>2. CASE tbl[t][i] = Absent
  <2>1. PICK p \in NewPages(tbl) : up = <<Made(tbl, t, i, p), p>>
    BY <1>2 DEF NextTable, Made
  <2>2. p \in Page \ DOMAIN tbl
    BY DEF NewPages
  <2> DEFINE new == Made(tbl, t, i, p)
  <2>3. /\ TreeOf(new, top) /\ DOMAIN new = DOMAIN tbl \cup {p}
        /\ new[t][i] = p /\ p # top
        /\ p \in Above(new, top) <=> t = top
        /\ \A a, b, c \in Index : Big(new, top, a, b, c) = Big(tbl, top, a, b, c)
    BY <1>2, <2>2, NewTableKeeps
  <2>4. IsMade(new, tbl, t, i, p)
    <3>1. t \in DOMAIN tbl /\ tbl[t] \in [Index -> Int] /\ p \notin DOMAIN tbl
      BY <2>2 DEF TreeOf, Above
    <3> QED BY <3>1, NewTableIs
  <2> HIDE DEF new
  <2>5. \A u \in Above(tbl, top), j \in Index : tbl[u][j] # Absent => new[u][j] = tbl[u][j]
    <3>1. Above(tbl, top) \subseteq DOMAIN tbl /\ tbl[t] \in [Index -> Int]
      BY DEF Above, TreeOf
    <3> QED BY <1>2, <2>4, <3>1 DEF IsMade
  <2>6. up[1] = new /\ up[2] = p
    BY <2>1 DEF new
  <2> QED BY <2>3, <2>5, <2>6 DEF Deeper
<1> QED BY <1>1, <1>2

(* A write to an entry of a last table maps one big page.                  *)
OneBigPage(new, tbl, top, i, j, k, x) ==
  /\ TreeOf(new, top) /\ DOMAIN new = DOMAIN tbl
  /\ \A a, b, c \in Index :
       Big(new, top, a, b, c) = IF a = i /\ b = j /\ c = k THEN x ELSE Big(tbl, top, a, b, c)

LEMMA BigPageKeeps ==
  ASSUME NEW tbl, NEW top, TreeOf(tbl, top), NEW t, NEW q \in DOMAIN tbl \ {top},
         NEW i \in Index, NEW j \in Index, NEW k \in Index,
         tbl[top][i] = t, t # Absent, tbl[t][j] = q, q \notin Above(tbl, top), NEW x \in Nat
  PROVE  OneBigPage([tbl EXCEPT ![q][k] = x], tbl, top, i, j, k, x)
<1> DEFINE new == [tbl EXCEPT ![q][k] = x]
           A == Above(tbl, top)
<1>1. /\ top \in DOMAIN tbl /\ DOMAIN tbl \subseteq Page
      /\ \A u \in DOMAIN tbl : tbl[u] \in [Index -> Int]
      /\ q # Absent
  BY PagesAreNumbers DEF TreeOf
<1>2. /\ DOMAIN new = DOMAIN tbl
      /\ \A u \in DOMAIN tbl : u # q => new[u] = tbl[u]
      /\ new[q] = [tbl[q] EXCEPT ![k] = x]
  <2>1. tbl[q] \in [Index -> Int]
    BY <1>1
  <2> QED BY <2>1
<1> HIDE DEF new
<1>3. new[q] \in [Index -> Int] /\ \A c \in Index : new[q][c] = IF c = k THEN x ELSE tbl[q][c]
  BY <1>1, <1>2
<1>4. \A u \in A, a \in Index : tbl[u][a] = Absent \/ tbl[u][a] \in DOMAIN tbl \ {top}
  BY DEF TreeOf
<1>5. \A u, w \in A, a, b \in Index : tbl[u][a] # Absent /\ tbl[u][a] = tbl[w][b] => u = w /\ a = b
  BY DEF TreeOf
<1>6. top \in A /\ A \subseteq DOMAIN tbl /\ t \in A
      /\ \A a \in Index : tbl[top][a] # Absent => tbl[top][a] \in A
  BY <1>1, <1>4 DEF Above
<1>7. \A u \in A : new[u] = tbl[u]
  BY <1>2, <1>6
<1>8. Above(new, top) = A
  BY <1>2, <1>6, <1>7 DEF Above, A
<1> HIDE DEF A
<1>9. TreeOf(new, top)
  <2>1. \A u \in DOMAIN new : new[u] \in [Index -> Int]
    BY <1>1, <1>2, <1>3
  <2>2. \A u \in A, a \in Index : new[u][a] = Absent \/ new[u][a] \in DOMAIN new \ {top}
    BY <1>2, <1>4, <1>7
  <2>3. \A u, w \in A, a, b \in Index : new[u][a] # Absent /\ new[u][a] = new[w][b] => u = w /\ a = b
    BY <1>5, <1>7
  <2>4. \A z \in DOMAIN new \ {top} : \E u \in A, a \in Index : new[u][a] = z
    <3>1. \A z \in DOMAIN tbl \ {top} : \E u \in A, a \in Index : tbl[u][a] = z
      BY DEF TreeOf, A
    <3> QED BY <1>2, <1>7, <3>1
  <2> QED BY <1>1, <1>2, <1>8, <2>1, <2>2, <2>3, <2>4 DEF TreeOf
<1>10. ASSUME NEW a \in Index, NEW b \in Index, NEW c \in Index
       PROVE  Big(new, top, a, b, c) = IF a = i /\ b = j /\ c = k THEN x ELSE Big(tbl, top, a, b, c)
  <2> DEFINE up == tbl[top][a]
             down == IF up = Absent THEN Absent ELSE tbl[up][b]
  <2>1. Big(tbl, top, a, b, c) = IF down = Absent THEN Absent ELSE tbl[down][c]
    BY DEF Big
  <2>2. Big(new, top, a, b, c) = IF down = Absent THEN Absent ELSE new[down][c]
    BY <1>6, <1>7 DEF Big
  <2>3. down = Absent \/ (up \in A /\ down = tbl[up][b] /\ down \in DOMAIN tbl /\ up = tbl[top][a])
    BY <1>4, <1>6
  <2>4. a = i /\ b = j => down = q
    OBVIOUS
  <2>5. down = q => a = i /\ b = j
    <3> HAVE down = q
    <3>1. up \in A /\ tbl[up][b] = tbl[t][j] /\ tbl[up][b] # Absent
      BY <1>1, <2>3
    <3>2. up = t /\ b = j
      BY <1>5, <1>6, <3>1
    <3>3. a = i
      BY <1>5, <1>6, <3>2
    <3> QED BY <3>2, <3>3
  <2> HIDE DEF down
  <2>6. CASE down = Absent
    BY <1>1, <2>1, <2>2, <2>4, <2>6
  <2>7. CASE down = q
    BY <1>1, <1>3, <2>1, <2>2, <2>5, <2>7
  <2>8. CASE down # Absent /\ down # q
    <3>1. new[down] = tbl[down]
      BY <1>2, <2>3, <2>8
    <3> QED BY <2>1, <2>2, <2>4, <2>8, <3>1
  <2> QED BY <2>6, <2>7, <2>8
<1> QED BY <1>2, <1>9, <1>10 DEF new, OneBigPage

----------------------------------------------------------------------------
(* Big pages and their indices.                                            *)

LEMMA Products ==
  ASSUME NEW a \in Nat, NEW b \in Nat
  PROVE  /\ a * b \in Nat /\ a * b = b * a
         /\ \A c \in Nat : (a + c) * b = a * b + c * b
         /\ \A c \in Nat : (a * b) * c = a * (b * c)
         /\ \A c \in Nat : a <= c => a * b <= c * b
         /\ \A c \in Nat : a < c /\ b > 0 => a * b + b <= c * b
OBVIOUS

LEMMA DivUnique ==
  ASSUME NEW m \in Nat \ {0}, NEW x \in Nat, NEW s \in Nat, NEW r \in Nat, r < m, x = s * m + r
  PROVE  x \div m = s /\ x % m = r
<1> DEFINE q == x \div m
           t == x % m
<1>1. q \in Nat /\ t \in Nat /\ t < m /\ x = m * q + t
  <2>1. x \div m \in Nat /\ x % m \in 0 .. m - 1 /\ x = m * (x \div m) + (x % m)
    BY DivMod, Zenon
  <2>2. \A y \in 0 .. m - 1 : y \in Nat /\ y < m
    OBVIOUS
  <2> QED BY <2>1, <2>2, Zenon
<1> HIDE DEF q, t
<1>2. q * m \in Nat /\ s * m \in Nat /\ x = q * m + t
  BY <1>1, Products
<1>3. ~ (q < s)
  <2> SUFFICES ASSUME q < s PROVE FALSE
    OBVIOUS
  <2>1. q * m + m <= s * m
    BY <1>1, Products
  <2> DEFINE y == q * m
             z == s * m
  <2>2. y \in Nat /\ z \in Nat /\ y + m <= z /\ x = y + t /\ x = z + r
    BY <1>2, <2>1
  <2> HIDE DEF y, z
  <2> QED BY <1>1, <2>2
<1>4. ~ (s < q)
  <2> SUFFICES ASSUME s < q PROVE FALSE
    OBVIOUS
  <2>1. s * m + m <= q * m
    BY <1>1, Products
  <2> DEFINE y == q * m
             z == s * m
  <2>2. y \in Nat /\ z \in Nat /\ z + m <= y /\ x = y + t /\ x = z + r
    BY <1>2, <2>1
  <2> HIDE DEF y, z
  <2> QED BY <1>1, <2>2
<1>5. q = s
  BY <1>1, <1>3, <1>4
<1>6. t = r
  <2> DEFINE y == s * m
  <2>1. y \in Nat /\ x = y + t /\ x = y + r
    BY <1>2, <1>5
  <2> HIDE DEF y
  <2> QED BY <1>1, <2>1
<1> QED BY <1>5, <1>6 DEF q, t

LEMMA DivDiv ==
  ASSUME NEW a \in Nat \ {0}, NEW b \in Nat \ {0}, NEW x \in Nat
  PROVE  a * b \in Nat \ {0} /\ (x \div a) \div b = x \div (a * b)
<1> DEFINE q == x \div a
           r == x % a
           s == q \div b
           u == q % b
           m == a * b
<1>1. q \in Nat /\ r \in Nat /\ r < a /\ x = a * q + r
  BY DivMod
<1>2. s \in Nat /\ u \in Nat /\ u < b /\ q = b * s + u
  <2> HIDE DEF q
  <2>1. q \div b \in Nat /\ q % b \in 0 .. b - 1 /\ q = b * (q \div b) + (q % b)
    BY <1>1, DivMod, Zenon
  <2>2. \A y \in 0 .. b - 1 : y \in Nat /\ y < b
    OBVIOUS
  <2> QED BY <2>1, <2>2, Zenon
<1> HIDE DEF q, r, s, u
<1>3. m \in Nat /\ m # 0 /\ b * s \in Nat /\ a * u \in Nat /\ u * a \in Nat /\ a * u = u * a
  BY <1>2, Products
<1>4. a * q = a * (b * s) + a * u
  <2>1. (b * s + u) * a = (b * s) * a + u * a
    BY <1>2, <1>3, Products
  <2>2. (b * s + u) * a = a * q /\ (b * s) * a = a * (b * s)
    BY <1>1, <1>2, <1>3, Products
  <2> QED BY <1>3, <2>1, <2>2
<1>5. a * (b * s) = s * m /\ s * m \in Nat
  <2>1. (a * b) * s = a * (b * s)
    BY <1>2, Products
  <2>2. m * s = s * m /\ s * m \in Nat
    <3> HIDE DEF m
    <3> QED BY <1>2, <1>3, Products
  <2> QED BY <2>1, <2>2
<1>6. u * a + a <= b * a /\ b * a = m
  BY <1>2, Products
<1> HIDE DEF m
<1>7. x = s * m + (a * u + r) /\ a * u + r \in Nat /\ a * u + r < m
  <2> DEFINE y == s * m
             z == a * u
  <2>1. y \in Nat /\ z \in Nat /\ a * q = y + z
    BY <1>3, <1>4, <1>5
  <2>2. x = y + z + r
    BY <1>1, <2>1
  <2>3. z + a <= m
    BY <1>3, <1>6
  <2> HIDE DEF y, z
  <2>4. x = y + (z + r) /\ z + r \in Nat /\ z + r < m
    BY <1>1, <1>3, <2>1, <2>2, <2>3
  <2> QED BY <2>4 DEF y, z
<1>8. x \div m = s
  BY <1>2, <1>3, <1>7, DivUnique
<1> QED BY <1>3, <1>8 DEF q, s, m

LEMMA DivBound ==
  ASSUME NEW m \in Nat \ {0}, NEW n \in Nat, NEW x \in Nat
  PROVE  x < n * m <=> x \div m < n
<1> DEFINE q == x \div m
<1>1. q \in Nat /\ x % m \in Nat /\ x % m < m /\ x = m * q + (x % m)
  BY DivMod
<1> HIDE DEF q
<1>2. q * m \in Nat /\ n * m \in Nat /\ q * m = m * q
  BY <1>1, Products
<1>3. n <= q => n * m <= q * m
  BY <1>1, Products
<1>4. q < n => q * m + m <= n * m
  BY <1>1, Products
<1> DEFINE y == q * m
           z == n * m
<1>5. y \in Nat /\ z \in Nat /\ x = y + (x % m) /\ (n <= q => z <= y) /\ (q < n => y + m <= z)
  BY <1>1, <1>2, <1>3, <1>4
<1> HIDE DEF y, z
<1>6. x < z <=> q < n
  BY <1>1, <1>5
<1> QED BY <1>6 DEF q, z

LEMMA Multiple ==
  ASSUME NEW m \in Nat \ {0}, NEW x \in Nat, x % m = 0
  PROVE  x \div m \in Nat /\ x = (x \div m) * m
<1>1. x \div m \in Nat /\ x = m * (x \div m) + (x % m)
  BY DivMod, Zenon
<1>2. m * (x \div m) \in Nat /\ m * (x \div m) = (x \div m) * m
  BY <1>1, Products, Zenon
<1>3. x = m * (x \div m)
  BY <1>1, <1>2
<1> QED BY <1>1, <1>2, <1>3, Zenon

(* Virtual memory in big pages, and where the two windows begin.           *)
Frames       == PTE_COUNT * PTE_COUNT * PTE_COUNT
HighFrame    == Frames \div 2
KernelFrames == KERNEL_SIZE \div BIG_PAGE_SIZE
KernelFrame  == Frames - KernelFrames

LEMMA LayoutSizes ==
  /\ BIG_PAGE_SIZE \in Nat \ {0} /\ PTE_COUNT \in Nat \ {0} /\ Frames \in Nat
  /\ PTE_COUNT * PTE_COUNT \in Nat \ {0}
  /\ HighFrame \in Nat /\ HighFrame < Frames /\ Frames = 2 * HighFrame
  /\ KernelFrames \in Nat \ {0} /\ KERNEL_SIZE = KernelFrames * BIG_PAGE_SIZE
<1> DEFINE P == PTE_COUNT
           B == BIG_PAGE_SIZE
<1>1. B \in Nat \ {0} /\ P \in Nat \ {0} /\ P % 2 = 0 /\ KERNEL_SIZE \in Nat \ {0}
      /\ KERNEL_SIZE % B = 0
  BY PagingAssumption
<1>2. KernelFrames \in Nat /\ KERNEL_SIZE = KernelFrames * B
  BY <1>1, Multiple DEF KernelFrames
<1>3. KernelFrames # 0
  <2>1. 0 * B = 0
    BY <1>1
  <2> QED BY <1>1, <1>2, <2>1
<1>4. P * P \in Nat \ {0} /\ Frames \in Nat \ {0}
  <2>1. \A a, b \in Nat \ {0} : a * b \in Nat \ {0}
    OBVIOUS
  <2> HIDE DEF P
  <2>2. P * P \in Nat \ {0}
    BY <1>1, <2>1
  <2>3. (P * P) * P \in Nat \ {0}
    BY <1>1, <2>1, <2>2
  <2> QED BY <2>2, <2>3 DEF Frames, P
<1>5. Frames = 2 * HighFrame /\ HighFrame \in Nat /\ HighFrame < Frames
  <2> DEFINE h == P \div 2
             y == (P * P) * h
  <2>1. h \in Nat /\ P = h * 2
    <3> HIDE DEF P
    <3>1. 2 \in Nat \ {0} /\ P \in Nat
      BY <1>1
    <3> QED BY <1>1, <3>1, Multiple
  <2> HIDE DEF h
  <2>2. y \in Nat /\ (P * P) * (h * 2) = y * 2
    <3> DEFINE q == P * P
    <3>1. q \in Nat
      BY <1>4
    <3> HIDE DEF q
    <3>2. q * h \in Nat /\ (q * h) * 2 = q * (h * 2)
      BY <2>1, <3>1, Products
    <3> QED BY <3>2 DEF q
  <2>3. Frames = (P * P) * (h * 2)
    BY <2>1 DEF Frames
  <2> HIDE DEF y
  <2>4. Frames = y * 2 + 0 /\ Frames = 2 * y
    BY <2>2, <2>3
  <2>5. 2 \in Nat \ {0} /\ 0 \in Nat /\ 0 < 2
    OBVIOUS
  <2>6. Frames \div 2 = y
    BY <1>4, <2>2, <2>4, <2>5, DivUnique
  <2>7. y < Frames
    BY <1>4, <2>2, <2>4
  <2> QED BY <2>2, <2>4, <2>6, <2>7 DEF HighFrame
<1> QED BY <1>1, <1>2, <1>3, <1>4, <1>5

LEMMA Layout ==
  /\ HIGH_BASE = HighFrame * BIG_PAGE_SIZE
  /\ KernelFrame \in Nat /\ KERNEL_BASE = KernelFrame * BIG_PAGE_SIZE
  /\ HighFrame <= KernelFrame /\ KernelFrame + KernelFrames = Frames
  /\ \A x \in Memory : x \in Nat /\ x + HighFrame * BIG_PAGE_SIZE <= KernelFrame * BIG_PAGE_SIZE
<1> DEFINE B == BIG_PAGE_SIZE
           all == Frames * B
           high == HighFrame * B
           kernel == KernelFrames * B
<1>1. B \in Nat \ {0} /\ Frames \in Nat /\ HighFrame \in Nat /\ KernelFrames \in Nat \ {0}
      /\ Frames = 2 * HighFrame /\ KERNEL_SIZE = KernelFrames * B
  BY LayoutSizes
<1>2. BIG_PAGE_SIZE * PTE_COUNT * PTE_COUNT * PTE_COUNT = Frames * B
  <2> DEFINE P == PTE_COUNT
             q == P * P
  <2>1. P \in Nat /\ q \in Nat /\ B \in Nat
    BY LayoutSizes
  <2> HIDE DEF B, P
  <2>2. (B * P) * P = B * q /\ B * P \in Nat
    BY <2>1, Products DEF q
  <2> HIDE DEF q
  <2>3. (B * q) * P = B * (q * P) /\ q * P \in Nat
    BY <2>1, Products
  <2>4. B * (q * P) = (q * P) * B
    BY <2>1, <2>3, Products
  <2>5. ((B * P) * P) * P = (q * P) * B
    BY <2>2, <2>3, <2>4
  <2> QED BY <2>5 DEF P, B, q, Frames
<1>3. all \in Nat /\ high \in Nat /\ kernel \in Nat
  BY <1>1, Products
<1>4. all = high * 2 + 0
  <2> HIDE DEF B
  <2>1. (2 * HighFrame) * B = 2 * (HighFrame * B)
    BY <1>1, Products
  <2> QED BY <1>1, <1>3, <2>1
<1>5. HIGH_BASE = high
  <2>1. HIGH_BASE = all \div 2
    BY <1>2 DEF HIGH_BASE
  <2>2. 2 \in Nat \ {0} /\ 0 \in Nat /\ 0 < 2
    OBVIOUS
  <2> HIDE DEF all, high
  <2>3. all \div 2 = high
    BY <1>3, <1>4, <2>2, DivUnique
  <2> QED BY <2>1, <2>3
<1>6. KERNEL_BASE = all - kernel
  BY <1>1, <1>2 DEF KERNEL_BASE
<1>7. \A x \in Memory : x \in Nat /\ x + high <= all - kernel
  <2>1. \A x \in Memory : x \in Nat
    BY BootAssumption
  <2>2. \A x \in Memory : x + HIGH_BASE <= KERNEL_BASE
    BY PagingAssumption
  <2> HIDE DEF high, all, kernel
  <2> QED BY <1>5, <1>6, <2>1, <2>2
<1>8. 0 \in Memory
  BY BootAssumption
<1>9. kernel <= all /\ high <= all - kernel
  <2> HIDE DEF high, all, kernel
  <2>1. 0 + high <= all - kernel
    BY <1>7, <1>8
  <2> QED BY <1>3, <2>1
<1>10. KernelFrames <= Frames
  <2> SUFFICES ASSUME Frames < KernelFrames PROVE FALSE
    BY <1>1
  <2>1. all + B <= kernel
    <3> HIDE DEF B
    <3> QED BY <1>1, Products
  <2> HIDE DEF all, kernel, high
  <2> QED BY <1>1, <1>3, <1>9, <2>1
<1>11. KernelFrame \in Nat /\ KernelFrame + KernelFrames = Frames
  BY <1>1, <1>10 DEF KernelFrame
<1> DEFINE base == KernelFrame * B
<1>12. base + kernel = all /\ base \in Nat
  <2> HIDE DEF B
  <2>1. (KernelFrame + KernelFrames) * B = KernelFrame * B + KernelFrames * B
    BY <1>1, <1>11, Products
  <2>2. KernelFrame * B \in Nat
    BY <1>1, <1>11, Products
  <2> QED BY <1>11, <2>1, <2>2
<1>13. base = all - kernel
  <2> HIDE DEF base, all, kernel
  <2> QED BY <1>3, <1>12
<1>14. HighFrame <= KernelFrame
  <2> SUFFICES ASSUME KernelFrame < HighFrame PROVE FALSE
    BY <1>1, <1>11
  <2>1. base + B <= high
    <3> HIDE DEF B
    <3> QED BY <1>1, <1>11, Products
  <2>2. high <= base
    BY <1>9, <1>13
  <2> HIDE DEF base, high
  <2> QED BY <1>1, <1>3, <1>12, <2>1, <2>2
<1> QED BY <1>5, <1>6, <1>7, <1>11, <1>13, <1>14

(* The entries that a big page's number leads through.                     *)
FrameI(f) == ((f \div PTE_COUNT) \div PTE_COUNT) % PTE_COUNT
FrameJ(f) == (f \div PTE_COUNT) % PTE_COUNT
FrameK(f) == f % PTE_COUNT

LEMMA FrameIndices ==
  ASSUME NEW f \in Nat
  PROVE  FrameI(f) \in Index /\ FrameJ(f) \in Index /\ FrameK(f) \in Index
<1>1. PTE_COUNT \in Nat \ {0}
  BY LayoutSizes
<1>2. \A x \in Nat : x \div PTE_COUNT \in Nat /\ x % PTE_COUNT \in Index
  BY <1>1, DivMod DEF Index
<1>3. f \div PTE_COUNT \in Nat /\ (f \div PTE_COUNT) \div PTE_COUNT \in Nat
  BY <1>2
<1> QED BY <1>2, <1>3 DEF FrameI, FrameJ, FrameK

LEMMA AddressIndices ==
  ASSUME NEW v \in Nat
  PROVE  LET f == v \div BIG_PAGE_SIZE
         IN f \in Nat /\ pml4_i(v) = FrameI(f) /\ pml3_i(v) = FrameJ(f) /\ pml2_i(v) = FrameK(f)
<1> DEFINE P == PTE_COUNT
           B == BIG_PAGE_SIZE
           f == v \div B
<1>1. B \in Nat \ {0} /\ P \in Nat \ {0}
  BY LayoutSizes
<1>2. f \in Nat
  BY <1>1, DivMod, Zenon
<1> HIDE DEF P, B
<1>3. B * P \in Nat \ {0} /\ f \div P = v \div (B * P)
  BY <1>1, DivDiv
<1>4. (v \div (B * P)) \div P = v \div ((B * P) * P)
  <2> DEFINE m == B * P
  <2>1. m \in Nat \ {0}
    BY <1>3
  <2> HIDE DEF m
  <2>2. (v \div m) \div P = v \div (m * P)
    BY <1>1, <2>1, DivDiv
  <2> QED BY <2>2 DEF m
<1>5. (f \div P) \div P = v \div ((B * P) * P)
  BY <1>3, <1>4
<1> QED BY <1>2, <1>3, <1>5 DEF pml4_i, pml3_i, pml2_i, FrameI, FrameJ, FrameK, P, B

LEMMA FramesDiffer ==
  ASSUME NEW f \in 0 .. Frames - 1, NEW g \in 0 .. Frames - 1,
         FrameI(f) = FrameI(g), FrameJ(f) = FrameJ(g), FrameK(f) = FrameK(g)
  PROVE  f = g
<1> DEFINE P == PTE_COUNT
           h == f \div P
           k == g \div P
<1>1. P \in Nat \ {0} /\ P * P \in Nat \ {0} /\ Frames \in Nat /\ f \in Nat /\ g \in Nat
      /\ f < Frames /\ g < Frames
  BY LayoutSizes
<1>2. \A x \in Nat : x \div P \in Nat /\ x % P \in 0 .. P - 1 /\ x = P * (x \div P) + (x % P)
  <2> HIDE DEF P
  <2> QED BY <1>1, DivMod, Zenon
<1>3. h \in Nat /\ k \in Nat
  BY <1>1, <1>2
<1>4. \A x \in Nat : x < Frames => (x \div P) \div P < P
  <2> TAKE x \in Nat
  <2> HAVE x < Frames
  <2> DEFINE q == P * P
  <2>1. q \in Nat \ {0} /\ x < q * P /\ (x \div P) \div P = x \div q
    <3>1. x < q * P
      BY DEF Frames
    <3>2. (x \div P) \div P = x \div q
      <4> HIDE DEF P
      <4> QED BY <1>1, DivDiv
    <3> QED BY <1>1, <3>1, <3>2
  <2> HIDE DEF q, P
  <2>2. q * P = P * q
    BY <1>1, <2>1, Products
  <2>3. x < P * q
    BY <2>1, <2>2
  <2>4. x \div q < P
    BY <1>1, <2>1, <2>3, DivBound
  <2> QED BY <2>1, <2>4
<1>5. h \div P < P /\ k \div P < P
  BY <1>1, <1>4
<1>6. (h \div P) % P = (k \div P) % P /\ h % P = k % P /\ f % P = g % P
  BY DEF FrameI, FrameJ, FrameK
<1> HIDE DEF h, k, P
<1>7. \A x \in Nat : x < P => x % P = x
  <2> TAKE x \in Nat
  <2> HAVE x < P
  <2>1. 0 * P = 0
    BY <1>1
  <2>2. x = 0 * P + x /\ 0 \in Nat
    BY <1>1, <2>1
  <2> QED BY <1>1, <2>2, DivUnique
<1>8. h \div P \in Nat /\ k \div P \in Nat
  BY <1>2, <1>3
<1>9. h \div P = k \div P
  <2>1. (h \div P) % P = h \div P /\ (k \div P) % P = k \div P
    BY <1>5, <1>7, <1>8
  <2> QED BY <1>6, <2>1
<1>10. h = k
  <2>1. h = P * (h \div P) + (h % P) /\ k = P * (k \div P) + (k % P)
    BY <1>2, <1>3
  <2> QED BY <1>6, <1>9, <2>1, Zenon
<1>11. f = P * h + (f % P) /\ g = P * k + (g % P)
  BY <1>1, <1>2 DEF h, k
<1> QED BY <1>6, <1>10, <1>11, Zenon

----------------------------------------------------------------------------
(* The state of paging.                                                    *)

StageInv ==
  /\ stage \in {"boot", "build", "on", "broken"}
  /\ stage = "boot" => pc # "done"
  /\ stage \in {"build", "broken"} => pc = "high"
  /\ stage = "on" => pc \in {"high", "done"}

TreeInv ==
  \/ stage \in {"boot", "broken"} /\ tables = <<>>
  \/ stage # "boot" /\ TreeOf(tables, pml4) /\ \A q \in DOMAIN tables : Low(q) /\ Holders(q) # {}

(* The big page that number f leads to.                                    *)
BigAt(f) == Big(tables, pml4, FrameI(f), FrameJ(f), FrameK(f))

(* What number f leads to when the first hi big pages of high memory and   *)
(* the first ki of the kernel are mapped.                                  *)
Shown(f, hi, ki) ==
  IF KernelFrame <= f /\ f < KernelFrame + ki THEN (f - KernelFrame) * BIG_PAGE_SIZE
  ELSE IF HighFrame <= f /\ f < HighFrame + hi THEN (f - HighFrame) * BIG_PAGE_SIZE
  ELSE Absent

HighLeft(size, hi) ==
  [virt |-> (HighFrame + hi) * BIG_PAGE_SIZE, length |-> size - hi * BIG_PAGE_SIZE,
   phys |-> hi * BIG_PAGE_SIZE]
KernelLeft(ki) ==
  [virt |-> (KernelFrame + ki) * BIG_PAGE_SIZE, length |-> KERNEL_SIZE - ki * BIG_PAGE_SIZE,
   phys |-> ki * BIG_PAGE_SIZE]

HighDone(size, hi) ==
  /\ hi >= 1 /\ size <= hi * BIG_PAGE_SIZE
  /\ hi = 1 \/ (hi - 1) * BIG_PAGE_SIZE < size

(* The calls of paging_build_region that are left then.                    *)
Progress(left, size, hi, ki) ==
  \/ /\ left = <<HighLeft(size, hi), KernelLeft(0)>> /\ ki = 0
     /\ hi = 0 \/ hi * BIG_PAGE_SIZE < size
  \/ left = <<KernelLeft(ki)>> /\ HighDone(size, hi) /\ ki < KernelFrames
  \/ left = <<>> /\ HighDone(size, hi) /\ ki = KernelFrames

WindowInv ==
  stage \in {"build", "on"} =>
    /\ mapped \in Memory
    /\ \A k \in DOMAIN map : map[k].base + map[k].length <= mapped
    /\ stage = "on" => regions = <<>>
    /\ \E hi, ki \in Nat : /\ Progress(regions, mapped, hi, ki)
                           /\ \A f \in 0 .. Frames - 1 : BigAt(f) = Shown(f, hi, ki)

PagingInv == StageInv /\ TreeInv /\ WindowInv

LEMMA PagingStarts == InitMemory => PagingInv
BY DEF InitMemory, Init, PagingInv, StageInv, TreeInv, WindowInv

(* What the write of a big page's entry x, for number g, does.             *)
MapsTo(new, g, x) ==
  /\ TreeOf(new, pml4)
  /\ \A q \in DOMAIN new : q \in DOMAIN tables \/ frees[q] > 0
  /\ \A f \in 0 .. Frames - 1 :
       Big(new, pml4, FrameI(f), FrameJ(f), FrameK(f)) = IF f = g THEN x ELSE BigAt(f)

LEMMA MapKeeps ==
  ASSUME TreeOf(tables, pml4), NEW g \in 0 .. Frames - 1, NEW v \in Nat, v \div BIG_PAGE_SIZE = g,
         NEW last \in LastTable(v), NEW x \in Nat
  PROVE  MapsTo([last[1] EXCEPT ![last[2]][pml2_i(v)] = x], g, x)
<1> DEFINE i == FrameI(g)
           j == FrameJ(g)
           k == FrameK(g)
<1>1. g \in Nat /\ \A f \in 0 .. Frames - 1 : f \in Nat
  BY LayoutSizes
<1>2. i \in Index /\ j \in Index /\ k \in Index
  BY <1>1, FrameIndices
<1>3. pml4_i(v) = i /\ pml3_i(v) = j /\ pml2_i(v) = k
  BY AddressIndices
<1> HIDE DEF i, j, k
<1>4. PICK up \in NextTable(tables, pml4, i) : last \in NextTable(up[1], up[2], j)
  BY <1>3 DEF LastTable
<1>5. pml4 \in Above(tables, pml4)
  BY DEF TreeOf, Above
<1>6. Deeper(up[1], up[2], tables, pml4, pml4, i)
  BY <1>2, <1>5, NextTableKeeps
<1> DEFINE mid == up[1]
           t == up[2]
           new == last[1]
           q == last[2]
<1>7. TreeOf(mid, pml4) /\ t \in Above(mid, pml4) /\ t # pml4 /\ mid[pml4][i] = t
      /\ DOMAIN tables \subseteq DOMAIN mid /\ DOMAIN mid \subseteq DOMAIN tables \cup NewPages(tables)
      /\ \A a, b, c \in Index : Big(mid, pml4, a, b, c) = Big(tables, pml4, a, b, c)
  BY <1>6 DEF Deeper
<1>8. Deeper(new, q, mid, pml4, t, j)
  <2> HIDE DEF mid, t
  <2>1. last \in NextTable(mid, t, j)
    BY <1>4 DEF mid, t
  <2> QED BY <1>2, <1>7, <2>1, NextTableKeeps
<1> HIDE DEF mid, t, new, q
<1>9. /\ TreeOf(new, pml4) /\ q \in DOMAIN new \ {pml4} /\ new[t][j] = q /\ q \notin Above(new, pml4)
      /\ DOMAIN mid \subseteq DOMAIN new /\ DOMAIN new \subseteq DOMAIN mid \cup NewPages(mid)
      /\ \A u \in Above(mid, pml4), a \in Index : mid[u][a] # Absent => new[u][a] = mid[u][a]
      /\ \A a, b, c \in Index : Big(new, pml4, a, b, c) = Big(mid, pml4, a, b, c)
  BY <1>7, <1>8 DEF Deeper
<1>10. t # Absent /\ new[pml4][i] = t
  <2>1. pml4 \in Above(mid, pml4) /\ t \in Page
    BY <1>7 DEF TreeOf, Above
  <2>2. t # Absent
    BY <2>1, PagesAreNumbers
  <2> QED BY <1>2, <1>7, <1>9, <2>1, <2>2
<1> DEFINE final == [new EXCEPT ![q][k] = x]
<1>11. TreeOf(final, pml4) /\ DOMAIN final = DOMAIN new
       /\ \A a, b, c \in Index :
            Big(final, pml4, a, b, c) =
              IF a = i /\ b = j /\ c = k THEN x ELSE Big(new, pml4, a, b, c)
  <2>1. OneBigPage(final, new, pml4, i, j, k, x)
    BY <1>2, <1>9, <1>10, BigPageKeeps
  <2> HIDE DEF final
  <2> QED BY <2>1 DEF OneBigPage
<1> HIDE DEF final
<1>12. \A p \in DOMAIN final : p \in DOMAIN tables \/ frees[p] > 0
  BY <1>7, <1>9, <1>11 DEF NewPages
<1>13. ASSUME NEW f \in 0 .. Frames - 1
       PROVE  Big(final, pml4, FrameI(f), FrameJ(f), FrameK(f)) = IF f = g THEN x ELSE BigAt(f)
  <2> DEFINE a == FrameI(f)
             b == FrameJ(f)
             c == FrameK(f)
  <2>1. a \in Index /\ b \in Index /\ c \in Index
    BY <1>1, FrameIndices
  <2>2. BigAt(f) = Big(tables, pml4, a, b, c)
    BY DEF BigAt
  <2>3. a = i /\ b = j /\ c = k <=> f = g
    <3>1. ASSUME FrameI(f) = FrameI(g), FrameJ(f) = FrameJ(g), FrameK(f) = FrameK(g) PROVE f = g
      BY <3>1, FramesDiffer
    <3> QED BY <3>1, Zenon DEF i, j, k
  <2> HIDE DEF a, b, c
  <2>4. Big(final, pml4, a, b, c) = IF f = g THEN x ELSE BigAt(f)
    <3>1. Big(mid, pml4, a, b, c) = BigAt(f)
      BY <1>7, <2>1, <2>2, Zenon
    <3>2. Big(new, pml4, a, b, c) = Big(mid, pml4, a, b, c)
      <4>1. \A d, e, h \in Index : Big(new, pml4, d, e, h) = Big(mid, pml4, d, e, h)
        BY <1>8 DEF Deeper
      <4> QED BY <2>1, <4>1, Zenon
    <3>3. Big(final, pml4, a, b, c) =
            IF a = i /\ b = j /\ c = k THEN x ELSE Big(new, pml4, a, b, c)
      BY <1>11, <2>1, Zenon
    <3> QED BY <2>3, <3>1, <3>2, <3>3
  <2> QED BY <2>4 DEF a, b, c
<1>14. MapsTo(final, g, x)
  BY <1>11, <1>12, <1>13 DEF MapsTo
<1> QED BY <1>3, <1>14 DEF final, new, q

LEMMA ShownSteps ==
  ASSUME NEW f \in Nat, NEW hi \in Nat, NEW ki \in Nat
  PROVE  /\ Shown(f, 0, 0) = Absent
         /\ Shown(f, hi + 1, 0) = IF f = HighFrame + hi THEN hi * BIG_PAGE_SIZE ELSE Shown(f, hi, 0)
         /\ Shown(f, hi, ki + 1) = IF f = KernelFrame + ki THEN ki * BIG_PAGE_SIZE
                                   ELSE Shown(f, hi, ki)
<1>1. HighFrame \in Nat /\ KernelFrame \in Nat
  BY LayoutSizes, Layout
<1>2. Shown(f, 0, 0) = Absent
  BY <1>1 DEF Shown
<1>3. f = HighFrame + hi => f - HighFrame = hi /\ ~ (f < HighFrame + hi) /\ f < HighFrame + (hi + 1)
                            /\ HighFrame <= f
  BY <1>1
<1>4. f # HighFrame + hi => (HighFrame <= f /\ f < HighFrame + (hi + 1) <=> HighFrame <= f /\ f < HighFrame + hi)
  BY <1>1
<1>5. ~ (KernelFrame <= f /\ f < KernelFrame + 0)
  BY <1>1
<1>6. Shown(f, hi + 1, 0) = IF f = HighFrame + hi THEN hi * BIG_PAGE_SIZE ELSE Shown(f, hi, 0)
  BY <1>3, <1>4, <1>5, Zenon DEF Shown
<1>7. f = KernelFrame + ki => f - KernelFrame = ki /\ f < KernelFrame + (ki + 1) /\ KernelFrame <= f
  BY <1>1
<1>8. f # KernelFrame + ki =>
        (KernelFrame <= f /\ f < KernelFrame + (ki + 1) <=> KernelFrame <= f /\ f < KernelFrame + ki)
  BY <1>1
<1>9. Shown(f, hi, ki + 1) = IF f = KernelFrame + ki THEN ki * BIG_PAGE_SIZE ELSE Shown(f, hi, ki)
  BY <1>7, <1>8, Zenon DEF Shown
<1> QED BY <1>2, <1>6, <1>9

(* The regions after one more big page of r, the first of left.            *)
Advanced(left) ==
  LET r == Head(left)
      rest == [virt   |-> r.virt + BIG_PAGE_SIZE,
               length |-> r.length - BIG_PAGE_SIZE,
               phys   |-> r.phys + BIG_PAGE_SIZE]
  IN IF r.length <= BIG_PAGE_SIZE THEN Tail(left) ELSE <<rest>> \o Tail(left)

LEMMA Successor ==
  ASSUME NEW n \in Nat
  PROVE  /\ n * BIG_PAGE_SIZE \in Nat /\ (n + 1) * BIG_PAGE_SIZE = n * BIG_PAGE_SIZE + BIG_PAGE_SIZE
         /\ BIG_PAGE_SIZE \in Nat \ {0} /\ 1 * BIG_PAGE_SIZE = BIG_PAGE_SIZE /\ 0 * BIG_PAGE_SIZE = 0
<1>1. BIG_PAGE_SIZE \in Nat \ {0}
  BY LayoutSizes
<1>2. (n + 1) * BIG_PAGE_SIZE = n * BIG_PAGE_SIZE + 1 * BIG_PAGE_SIZE /\ n * BIG_PAGE_SIZE \in Nat
  BY <1>1, Products
<1>3. 1 * BIG_PAGE_SIZE = BIG_PAGE_SIZE /\ 0 * BIG_PAGE_SIZE = 0
  BY <1>1
<1> QED BY <1>1, <1>2, <1>3

LEMMA HighAdvances ==
  ASSUME NEW size \in Memory, NEW hi \in Nat, NEW left,
         left = <<HighLeft(size, hi), KernelLeft(0)>>, hi = 0 \/ hi * BIG_PAGE_SIZE < size
  PROVE  Progress(Advanced(left), size, hi + 1, 0)
<1> DEFINE B == BIG_PAGE_SIZE
           done == hi * B
           next == (hi + 1) * B
           r == HighLeft(size, hi)
<1>1. done \in Nat /\ next = done + B /\ B \in Nat \ {0} /\ size \in Nat
      /\ (HighFrame + (hi + 1)) * B = (HighFrame + hi) * B + B /\ 1 * B = B
  <2>1. HighFrame + hi \in Nat /\ HighFrame + (hi + 1) = (HighFrame + hi) + 1
    BY LayoutSizes
  <2> QED BY <2>1, Successor, Layout
<1>2. Head(left) = r /\ Tail(left) = <<KernelLeft(0)>>
  OBVIOUS
<1>3. r.virt = (HighFrame + hi) * B /\ r.length = size - done /\ r.phys = done
  BY DEF HighLeft
<1>4. hi + 1 \in Nat /\ hi + 1 >= 1 /\ (hi + 1) - 1 = hi /\ (hi + 1 = 1 \/ done < size)
  OBVIOUS
<1>5. 0 < KernelFrames
  BY LayoutSizes
<1> HIDE DEF B, done, next, r
<1>6. CASE r.length <= B
  <2>1. Advanced(left) = <<KernelLeft(0)>>
    BY <1>2, <1>6 DEF Advanced, B
  <2>2. size <= next
    BY <1>1, <1>3, <1>6
  <2>3. HighDone(size, hi + 1)
    BY <1>4, <2>2 DEF HighDone, done, next, B
  <2> QED BY <1>5, <2>1, <2>3 DEF Progress
<1>7. CASE ~ (r.length <= B)
  <2> DEFINE rest == [virt |-> r.virt + B, length |-> r.length - B, phys |-> r.phys + B]
  <2>1. Advanced(left) = <<rest>> \o <<KernelLeft(0)>>
    BY <1>2, <1>7 DEF Advanced, B
  <2>2. r.virt + B = (HighFrame + (hi + 1)) * B /\ r.length - B = size - next /\ r.phys + B = next
    BY <1>1, <1>3
  <2>3. rest = HighLeft(size, hi + 1)
    BY <2>2 DEF HighLeft, B, next
  <2> HIDE DEF rest
  <2>4. Advanced(left) = <<HighLeft(size, hi + 1), KernelLeft(0)>>
    BY <2>1, <2>3
  <2>5. next < size
    BY <1>1, <1>3, <1>7
  <2> QED BY <2>4, <2>5 DEF Progress, next, B
<1> QED BY <1>6, <1>7

LEMMA KernelAdvances ==
  ASSUME NEW size \in Memory, NEW hi \in Nat, NEW ki \in Nat, NEW left,
         left = <<KernelLeft(ki)>>, HighDone(size, hi), ki < KernelFrames
  PROVE  Progress(Advanced(left), size, hi, ki + 1)
<1> DEFINE B == BIG_PAGE_SIZE
           done == ki * B
           next == (ki + 1) * B
           all == KernelFrames * B
           r == KernelLeft(ki)
<1>1. done \in Nat /\ next = done + B /\ B \in Nat \ {0} /\ all \in Nat /\ KERNEL_SIZE = all
      /\ (KernelFrame + (ki + 1)) * B = (KernelFrame + ki) * B + B /\ KernelFrames \in Nat
  <2>1. KernelFrame + ki \in Nat /\ KernelFrame + (ki + 1) = (KernelFrame + ki) + 1
    BY Layout
  <2> QED BY <2>1, Successor, LayoutSizes
<1>2. Head(left) = r /\ Tail(left) = <<>>
  OBVIOUS
<1>3. r.virt = (KernelFrame + ki) * B /\ r.length = all - done /\ r.phys = done
  BY <1>1 DEF KernelLeft
<1>4. ki + 1 < KernelFrames => next + B <= all
  <2> HIDE DEF B
  <2> QED BY <1>1, Products
<1>5. ki + 1 = KernelFrames => next = all
  OBVIOUS
<1> HIDE DEF B, done, next, all, r
<1>6. CASE r.length <= B
  <2>1. Advanced(left) = <<>>
    BY <1>2, <1>6 DEF Advanced, B
  <2>2. ki + 1 = KernelFrames
    BY <1>1, <1>3, <1>4, <1>6
  <2> QED BY <2>1, <2>2 DEF Progress
<1>7. CASE ~ (r.length <= B)
  <2> DEFINE rest == [virt |-> r.virt + B, length |-> r.length - B, phys |-> r.phys + B]
  <2>1. Advanced(left) = <<rest>> \o <<>>
    BY <1>2, <1>7 DEF Advanced, B
  <2>2. r.virt + B = (KernelFrame + (ki + 1)) * B /\ r.length - B = KERNEL_SIZE - next /\ r.phys + B = next
    BY <1>1, <1>3
  <2>3. rest = KernelLeft(ki + 1)
    BY <2>2 DEF KernelLeft, B, next
  <2> HIDE DEF rest
  <2>4. Advanced(left) = <<KernelLeft(ki + 1)>>
    BY <2>1, <2>3
  <2>5. ki + 1 < KernelFrames
    BY <1>1, <1>3, <1>5, <1>7
  <2> QED BY <2>4, <2>5 DEF Progress
<1> QED BY <1>6, <1>7

(* The first region left begins with a big page that is in the tables.     *)
LEMMA NextBigPage ==
  ASSUME NEW size \in Memory, NEW hi \in Nat, NEW ki \in Nat, NEW left,
         Progress(left, size, hi, ki), left # <<>>
  PROVE  LET r == Head(left)
             g == IF Len(left) = 2 THEN HighFrame + hi ELSE KernelFrame + ki
         IN /\ g \in 0 .. Frames - 1 /\ r.virt = g * BIG_PAGE_SIZE
            /\ r.phys = (IF Len(left) = 2 THEN hi ELSE ki) * BIG_PAGE_SIZE
<1> DEFINE B == BIG_PAGE_SIZE
<1>1. HighFrame \in Nat /\ KernelFrame \in Nat /\ Frames \in Nat /\ HighFrame < Frames
      /\ KernelFrame + KernelFrames = Frames /\ KernelFrames \in Nat \ {0} /\ B \in Nat \ {0}
  BY LayoutSizes, Layout
<1>2. CASE left = <<HighLeft(size, hi), KernelLeft(0)>> /\ (hi = 0 \/ hi * B < size)
  <2>1. Head(left) = HighLeft(size, hi) /\ Len(left) = 2
    BY <1>2
  <2>2. HighFrame + hi < Frames
    <3>1. CASE hi = 0
      BY <1>1, <3>1
    <3>2. CASE hi * B < size
      <4> DEFINE g == HighFrame + hi
                 x == hi * B
                 y == HighFrame * B
                 z == KernelFrame * B
      <4>1. x \in Nat /\ y \in Nat /\ z \in Nat /\ g * B = y + x /\ x < size
        <5> HIDE DEF B
        <5> QED BY <1>1, <3>2, Products
      <4>2. size \in Nat /\ size + y <= z
        BY Layout
      <4>3. KernelFrame <= g => z <= g * B
        <5>1. g \in Nat
          BY <1>1
        <5> HIDE DEF B, g
        <5> QED BY <1>1, <5>1, Products
      <4> HIDE DEF x, y, z, B
      <4>4. g < KernelFrame
        BY <1>1, <4>1, <4>2, <4>3
      <4> QED BY <1>1, <4>4
    <3> QED BY <1>2, <3>1, <3>2
  <2> QED BY <1>1, <2>1, <2>2 DEF HighLeft
<1>3. CASE left = <<KernelLeft(ki)>> /\ ki < KernelFrames
  <2>1. Head(left) = KernelLeft(ki) /\ Len(left) = 1
    BY <1>3
  <2> QED BY <1>1, <1>3, <2>1 DEF KernelLeft
<1> QED BY <1>2, <1>3 DEF Progress

LEMMA BootIsLeft ==
  ASSUME UNCHANGED vars
  PROVE  /\ map' = map /\ pc' = pc /\ frees' = frees
         /\ \A q : Holders(q)' = Holders(q)
BY DEF vars, Holders, PageIn

LEMMA MapBigPageKeeps ==
  ASSUME BootInv, PagingInv, MapBigPage
  PROVE  PagingInv'
<1> DEFINE r == Head(regions)
<1>1. /\ stage = "build" /\ regions # <<>> /\ regions' = Advanced(regions)
      /\ UNCHANGED vars /\ stage' = stage /\ pml4' = pml4 /\ mapped' = mapped
  BY DEF MapBigPage, Advanced
<1>2. PICK last \in LastTable(r.virt) : tables' = [last[1] EXCEPT ![last[2]][pml2_i(r.virt)] = r.phys]
  BY DEF MapBigPage
<1>3. pc = "high" /\ TreeOf(tables, pml4) /\ \A q \in DOMAIN tables : Low(q) /\ Holders(q) # {}
  BY <1>1 DEF PagingInv, StageInv, TreeInv
<1>4. /\ mapped \in Memory
      /\ \A k \in DOMAIN map : map[k].base + map[k].length <= mapped
  BY <1>1 DEF PagingInv, WindowInv
<1>5. PICK hi \in Nat, ki \in Nat :
        Progress(regions, mapped, hi, ki) /\ \A f \in 0 .. Frames - 1 : BigAt(f) = Shown(f, hi, ki)
  BY <1>1 DEF PagingInv, WindowInv
<1> DEFINE two == Len(regions) = 2
           n == IF two THEN hi ELSE ki
           g == IF two THEN HighFrame + hi ELSE KernelFrame + ki
<1>6. g \in 0 .. Frames - 1 /\ r.virt = g * BIG_PAGE_SIZE /\ r.phys = n * BIG_PAGE_SIZE
  BY <1>1, <1>4, <1>5, NextBigPage
<1>7. Frames \in Nat /\ g \in Nat
  BY <1>6, LayoutSizes
<1>8. r.virt \in Nat /\ r.virt \div BIG_PAGE_SIZE = g /\ r.phys \in Nat
  <2> HIDE DEF g, n
  <2>1. n \in Nat
    BY DEF n
  <2>2. g * BIG_PAGE_SIZE \in Nat /\ n * BIG_PAGE_SIZE \in Nat /\ BIG_PAGE_SIZE \in Nat \ {0}
    BY <1>7, <2>1, Successor
  <2>3. g * BIG_PAGE_SIZE = g * BIG_PAGE_SIZE + 0 /\ 0 \in Nat /\ 0 < BIG_PAGE_SIZE
    BY <2>2
  <2>4. (g * BIG_PAGE_SIZE) \div BIG_PAGE_SIZE = g
    BY <1>7, <2>2, <2>3, DivUnique
  <2> QED BY <1>6, <2>2, <2>4
<1> HIDE DEF g, n, r
<1>9. MapsTo(tables', g, r.phys)
  BY <1>2, <1>3, <1>6, <1>8, MapKeeps
<1>10. TreeOf(tables', pml4') /\ \A q \in DOMAIN tables' : q \in DOMAIN tables \/ frees[q] > 0
  BY <1>1, <1>9 DEF MapsTo
<1>11. \A q \in DOMAIN tables' : Low(q) /\ Holders(q)' # {}
  <2> TAKE q \in DOMAIN tables'
  <2>1. Holders(q)' = Holders(q)
    BY <1>1, BootIsLeft
  <2>2. ASSUME frees[q] > 0 PROVE Low(q) /\ Holders(q) # {}
    <3>1. q \in Page
      BY <1>10 DEF TreeOf
    <3> QED BY <1>3, <2>2, <3>1, FreesAre
  <2> QED BY <1>3, <1>10, <2>1, <2>2
<1>12. TreeInv'
  BY <1>1, <1>10, <1>11 DEF TreeInv, Low
<1>13. StageInv'
  BY <1>1, <1>3, BootIsLeft DEF StageInv
<1>14. \E a, b \in Nat : Progress(regions', mapped, a, b) /\ \A f \in 0 .. Frames - 1 : BigAt(f)' = Shown(f, a, b)
  <2>1. \A f \in 0 .. Frames - 1 : f \in Nat /\ BigAt(f)' = IF f = g THEN n * BIG_PAGE_SIZE ELSE Shown(f, hi, ki)
    <3> TAKE f \in 0 .. Frames - 1
    <3>1. BigAt(f)' = Big(tables', pml4, FrameI(f), FrameJ(f), FrameK(f))
      BY <1>1 DEF BigAt
    <3>2. BigAt(f)' = IF f = g THEN r.phys ELSE BigAt(f)
      BY <1>9, <3>1 DEF MapsTo
    <3> QED BY <1>5, <1>6, <1>7, <3>2
  <2>2. CASE two
    <3>1. regions = <<HighLeft(mapped, hi), KernelLeft(0)>> /\ ki = 0 /\ (hi = 0 \/ hi * BIG_PAGE_SIZE < mapped)
      BY <1>5, <2>2 DEF Progress
    <3>2. Progress(regions', mapped, hi + 1, 0)
      BY <1>1, <1>4, <3>1, HighAdvances
    <3>3. ASSUME NEW f \in 0 .. Frames - 1 PROVE BigAt(f)' = Shown(f, hi + 1, 0)
      <4>1. f \in Nat /\ BigAt(f)' = IF f = HighFrame + hi THEN hi * BIG_PAGE_SIZE ELSE Shown(f, hi, 0)
        BY <2>1, <2>2, <3>1 DEF g, n
      <4>2. Shown(f, hi + 1, 0) = IF f = HighFrame + hi THEN hi * BIG_PAGE_SIZE ELSE Shown(f, hi, 0)
        BY <4>1, ShownSteps
      <4> QED BY <4>1, <4>2
    <3>4. hi + 1 \in Nat /\ 0 \in Nat
      OBVIOUS
    <3> QED BY <3>2, <3>3, <3>4
  <2>3. CASE ~two
    <3>1. regions = <<KernelLeft(ki)>> /\ HighDone(mapped, hi) /\ ki < KernelFrames
      BY <1>1, <1>5, <2>3 DEF Progress
    <3>2. Progress(regions', mapped, hi, ki + 1)
      BY <1>1, <1>4, <3>1, KernelAdvances
    <3>3. ASSUME NEW f \in 0 .. Frames - 1 PROVE BigAt(f)' = Shown(f, hi, ki + 1)
      <4>1. f \in Nat /\ BigAt(f)' = IF f = KernelFrame + ki THEN ki * BIG_PAGE_SIZE ELSE Shown(f, hi, ki)
        BY <2>1, <2>3 DEF g, n
      <4>2. Shown(f, hi, ki + 1) = IF f = KernelFrame + ki THEN ki * BIG_PAGE_SIZE ELSE Shown(f, hi, ki)
        BY <4>1, ShownSteps
      <4> QED BY <4>1, <4>2
    <3>4. ki + 1 \in Nat
      OBVIOUS
    <3> QED BY <3>2, <3>3, <3>4
  <2> QED BY <2>2, <2>3
<1>15. WindowInv'
  <2>1. map' = map
    BY <1>1, BootIsLeft
  <2> QED BY <1>1, <1>4, <1>14, <2>1 DEF WindowInv
<1> QED BY <1>12, <1>13, <1>15 DEF PagingInv

LEMMA PagingStartKeeps ==
  ASSUME BootInv, PagingInv, PagingStart
  PROVE  PagingInv'
<1> DEFINE ends == {map[k].base + map[k].length : k \in DOMAIN map}
           top == Max({0} \cup ends)
<1>1. /\ pc = "high" /\ stage = "boot" /\ stage' = "build" /\ mapped' = top /\ UNCHANGED vars
      /\ regions' = <<[virt |-> HIGH_BASE, length |-> top, phys |-> 0],
                      [virt |-> KERNEL_BASE, length |-> KERNEL_SIZE, phys |-> 0]>>
  BY DEF PagingStart
<1>2. PICK p \in NewPages(tables) : pml4' = p /\ tables' = WithTable(tables, p)
  BY DEF PagingStart
<1>3. tables = <<>>
  BY <1>1 DEF PagingInv, TreeInv
<1>4. DOMAIN tables' = {p} /\ tables'[p] = Empty /\ p \in Page /\ frees[p] > 0
  <2>1. DOMAIN tables = {}
    BY <1>3
  <2>2. tables' = [q \in {p} |-> Empty]
    BY <1>2, <2>1 DEF WithTable
  <2> QED BY <2>2 DEF NewPages
<1>5. Empty \in [Index -> Int] /\ \A i \in Index : Empty[i] = Absent
  BY EmptyIs
<1>6. Above(tables', p) = {p}
  BY <1>4 DEF Above
<1>7. TreeOf(tables', p)
  BY <1>4, <1>5, <1>6 DEF TreeOf
<1>8. \A f \in Nat : BigAt(f)' = Absent
  <2> TAKE f \in Nat
  <2>1. tables'[p][FrameI(f)] = Absent
    BY <1>4, <1>5, FrameIndices
  <2> QED BY <1>2, <2>1 DEF BigAt, Big
<1>9. Low(p) /\ Holders(p) # {}
  BY <1>1, <1>4, FreesAre
<1>10. TreeInv'
  <2>1. Holders(p)' = Holders(p)
    BY <1>1, BootIsLeft
  <2> QED BY <1>1, <1>2, <1>4, <1>7, <1>9, <2>1 DEF TreeInv, Low
<1>11. StageInv'
  BY <1>1, BootIsLeft DEF StageInv
<1>12. top \in Memory /\ \A k \in DOMAIN map : map[k].base + map[k].length <= top
  <2> DEFINE end(k) == map[k].base + map[k].length
             s == [k \in DOMAIN map |-> end(k)]
             K == DOMAIN map
  <2>1. map \in Seq(Entry) /\ DOMAIN map = 1 .. Len(map) /\ Len(map) \in Nat
        /\ \A k \in DOMAIN map : end(k) \in Memory
    BY DEF BootInv, BootTypes, GoodMap
  <2>2. Memory \subseteq Nat /\ 0 \in Memory
    BY BootAssumption
  <2>3. s \in Seq(Nat) /\ K \subseteq DOMAIN s
    <3>1. \A k \in DOMAIN map : end(k) \in Nat
      BY <2>1, <2>2
    <3>2. Len(map) \in Nat /\ DOMAIN map = 1 .. Len(map)
      BY <2>1
    <3> HIDE DEF end
    <3> QED BY <3>1, <3>2
  <2>4. ends = {s[k] : k \in K}
    OBVIOUS
  <2> DEFINE T == {0} \cup {s[k] : k \in K}
  <2>5. Max(T) \in T /\ \A k \in K : s[k] <= Max(T)
    <3> HIDE DEF s, K
    <3> QED BY <2>3, MaxIs
  <2>6. T \subseteq Memory
    BY <2>1, <2>2
  <2>7. top = Max(T)
    BY <2>4
  <2>8. \A k \in DOMAIN map : s[k] = map[k].base + map[k].length
    OBVIOUS
  <2> HIDE DEF T, s, top, end
  <2> QED BY <2>5, <2>6, <2>7, <2>8
<1> HIDE DEF top
<1>13. regions' = <<HighLeft(top, 0), KernelLeft(0)>>
  <2>1. top \in Nat /\ 0 * BIG_PAGE_SIZE = 0 /\ HighFrame + 0 = HighFrame /\ KernelFrame + 0 = KernelFrame
    <3>1. top \in Nat
      BY <1>12, BootAssumption
    <3>2. 0 \in Nat /\ 0 * BIG_PAGE_SIZE = 0
      BY Successor
    <3>3. HighFrame \in Nat /\ KernelFrame \in Nat
      BY LayoutSizes, Layout
    <3> QED BY <3>1, <3>2, <3>3
  <2>2. top - 0 = top /\ KERNEL_SIZE - 0 = KERNEL_SIZE
    BY <2>1, PagingAssumption
  <2>3. HIGH_BASE = HighFrame * BIG_PAGE_SIZE /\ KERNEL_BASE = KernelFrame * BIG_PAGE_SIZE
    BY Layout
  <2> QED BY <1>1, <2>1, <2>2, <2>3, Zenon DEF HighLeft, KernelLeft
<1>14. Progress(regions', mapped', 0, 0)
  BY <1>1, <1>13 DEF Progress
<1>15. \A f \in 0 .. Frames - 1 : BigAt(f)' = Shown(f, 0, 0)
  <2>1. \A f \in 0 .. Frames - 1 : f \in Nat
    BY LayoutSizes
  <2> QED BY <1>8, <2>1, ShownSteps
<1>16. WindowInv'
  <2>1. \E hi, ki \in Nat : Progress(regions', mapped', hi, ki) /\ \A f \in 0 .. Frames - 1 : BigAt(f)' = Shown(f, hi, ki)
    BY <1>14, <1>15
  <2>2. map' = map
    BY <1>1, BootIsLeft
  <2> QED BY <1>1, <1>12, <2>1, <2>2 DEF WindowInv
<1> QED BY <1>10, <1>11, <1>16 DEF PagingInv

LEMMA OtherStepsKeep ==
  ASSUME BootInv, PagingInv, BuddyInit \/ NoNewPage \/ PagingOn \/ BuddyInitHigh
  PROVE  PagingInv'
<1>1. CASE BuddyInit
  <2>1. pc \in {"purge", "alloc", "low"} /\ pc' # "done" /\ UNCHANGED paging
    BY <1>1 DEF BuddyInit, Purge, CountNodes, AllocNodes, InitLow
  <2>2. stage = "boot" /\ tables = <<>> /\ stage' = "boot" /\ tables' = <<>>
    BY <2>1 DEF PagingInv, StageInv, TreeInv, paging
  <2> QED BY <2>1, <2>2 DEF PagingInv, StageInv, TreeInv, WindowInv
<1>2. CASE NoNewPage
  <2>1. stage' = "broken" /\ stage \in {"boot", "build"} /\ pc = "high" /\ tables' = tables /\ pml4' = pml4
        /\ UNCHANGED vars
    BY <1>2 DEF NoNewPage, PagingInv, StageInv
  <2>2. \A q : Holders(q)' = Holders(q)
    BY <2>1, BootIsLeft
  <2>3. TreeInv'
    BY <2>1, <2>2 DEF PagingInv, TreeInv, Low
  <2>4. pc' = pc
    BY <2>1, BootIsLeft
  <2> QED BY <2>1, <2>3, <2>4 DEF PagingInv, StageInv, WindowInv
<1>3. CASE PagingOn \/ BuddyInitHigh
  <2>1. /\ stage \in {"build", "on"} /\ stage' = "on" /\ pc = "high" /\ pc' \in {"high", "done"}
        /\ tables' = tables /\ pml4' = pml4 /\ mapped' = mapped /\ regions' = regions /\ map' = map
        /\ stage = "build" => regions = <<>>
    BY <1>3 DEF PagingOn, BuddyInitHigh, InitHigh, vars, paging, PagingInv, StageInv
  <2>2. \A q : Holders(q)' = Holders(q)
    BY <2>1 DEF Holders, PageIn
  <2>3. TreeInv'
    BY <2>1, <2>2 DEF PagingInv, TreeInv, Low
  <2>4. WindowInv'
    BY <2>1 DEF PagingInv, WindowInv, BigAt
  <2> QED BY <2>1, <2>3, <2>4 DEF PagingInv, StageInv
<1> QED BY <1>1, <1>2, <1>3

LEMMA PagingKeeps == BootInv /\ PagingInv /\ [PagingNext]_<<vars, paging>> => PagingInv'
<1> SUFFICES ASSUME BootInv, PagingInv, [PagingNext]_<<vars, paging>> PROVE PagingInv'
  OBVIOUS
<1>1. CASE UNCHANGED <<vars, paging>>
  <2>1. \A q : Holders(q)' = Holders(q)
    BY <1>1, BootIsLeft
  <2>2. map' = map /\ pc' = pc /\ UNCHANGED paging
    BY <1>1, BootIsLeft
  <2>3. \A f : BigAt(f)' = BigAt(f)
    BY <2>2 DEF BigAt, paging
  <2>4. StageInv' /\ TreeInv'
    BY <2>1, <2>2 DEF PagingInv, StageInv, TreeInv, Low, paging
  <2>5. WindowInv'
    BY <2>2, <2>3 DEF PagingInv, WindowInv, paging
  <2> QED BY <2>4, <2>5 DEF PagingInv
<1>2. CASE PagingNext
  BY <1>2, MapBigPageKeeps, PagingStartKeeps, OtherStepsKeep DEF PagingNext
<1> QED BY <1>1, <1>2

(* The inductive invariant of paging.c: the tables are a tree on freed low *)
(* pages, and what they map so far is the beginning of the two windows.    *)
THEOREM PagingInvariant == PagingSpec => []PagingInv
<1>1. PagingSpec => []BootInv
  BY BootInvariant, PagingIsBoot, PTL
<1>2. BootInv /\ PagingInv /\ [PagingNext]_<<vars, paging>> => PagingInv'
  BY PagingKeeps
<1> QED BY <1>1, <1>2, PagingStarts, PTL DEF PagingSpec

LEMMA TreeIsApart == BootInv /\ PagingInv => TablesApart
<1> SUFFICES ASSUME BootInv, PagingInv PROVE TablesApart
  OBVIOUS
<1> DEFINE above == {t \in DOMAIN tables :
                       t = pml4 \/ \E i \in DOMAIN Empty : tables[pml4][i] = t}
           pointers(q) == {e \in above \X DOMAIN Empty : tables[e[1]][e[2]] = q}
<1>1. DOMAIN Empty = Index
  BY DEF Empty, Index
<1>2. above = Above(tables, pml4)
  BY <1>1 DEF Above
<1>3. CASE tables = <<>>
  <2>1. DOMAIN tables = {}
    BY <1>3
  <2> QED BY <1>3, <2>1 DEF TablesApart
<1>4. CASE TreeOf(tables, pml4) /\ stage # "boot" /\ \A q \in DOMAIN tables : Low(q) /\ Holders(q) # {}
  <2> HIDE DEF above
  <2>1. /\ pml4 \in DOMAIN tables /\ DOMAIN tables \subseteq Page
        /\ \A t \in above, i \in Index : tables[t][i] = Absent \/ tables[t][i] \in DOMAIN tables \ {pml4}
        /\ \A t, u \in above, i, j \in Index :
             tables[t][i] # Absent /\ tables[t][i] = tables[u][j] => t = u /\ i = j
        /\ \A q \in DOMAIN tables \ {pml4} : \E t \in above, i \in Index : tables[t][i] = q
    BY <1>2, <1>4 DEF TreeOf
  <2>2. \A q \in DOMAIN tables : q # Absent
    BY <2>1, PagesAreNumbers
  <2>3. \A q \in DOMAIN tables : frees[q] = 1 /\ q * PAGE_SIZE < BOOTMEM_SIZE
    <3> TAKE q \in DOMAIN tables
    <3>1. q \in Page /\ Low(q) /\ Holders(q) # {}
      BY <1>4, <2>1
    <3>2. pc \in {"high", "done"}
      BY <1>4 DEF PagingInv, StageInv
    <3> QED BY <3>1, <3>2, FreesAre DEF Low
  <2>4. \A q \in DOMAIN tables \ {pml4} : Cardinality(pointers(q)) = 1
    <3> TAKE q \in DOMAIN tables \ {pml4}
    <3>1. PICK t \in above, i \in Index : tables[t][i] = q
      BY <2>1
    <3>2. ASSUME NEW e \in pointers(q) PROVE e = <<t, i>>
      <4>1. PICK u \in above, j \in Index : e = <<u, j>> /\ tables[u][j] = q
        BY <1>1, <3>2
      <4>2. u = t /\ j = i
        BY <2>1, <2>2, <3>1, <4>1
      <4> QED BY <4>1, <4>2
    <3>3. <<t, i>> \in pointers(q)
      BY <1>1, <3>1
    <3>4. pointers(q) = {<<t, i>>}
      BY <3>2, <3>3
    <3> HIDE DEF pointers
    <3> QED BY <3>4, FS_Singleton
  <2>5. pointers(pml4) = {}
    <3> SUFFICES ASSUME NEW e \in pointers(pml4) PROVE FALSE
      OBVIOUS
    <3>1. PICK u \in above, j \in Index : tables[u][j] = pml4
      BY <1>1
    <3> QED BY <2>1, <2>2, <3>1
  <2> QED BY <2>3, <2>4, <2>5 DEF TablesApart, above
<1> QED BY <1>3, <1>4 DEF PagingInv, TreeInv

(* TablesApart, for any sizes of tables and pages and whichever free pages *)
(* the buddy allocator gives (paging_build, paging_build_region).          *)
THEOREM TablesApartAlways == PagingSpec => []TablesApart
BY BootInvariant, PagingIsBoot, PagingInvariant, TreeIsApart, PTL

----------------------------------------------------------------------------
(* WindowsMapped                                                           *)

LEMMA TranslateIs ==
  ASSUME NEW v \in Nat
  PROVE  Translate(v) = IF BigAt(v \div BIG_PAGE_SIZE) = Absent THEN Absent
                        ELSE BigAt(v \div BIG_PAGE_SIZE) + (v % BIG_PAGE_SIZE)
<1> DEFINE f == v \div BIG_PAGE_SIZE
<1>1. pml4_i(v) = FrameI(f) /\ pml3_i(v) = FrameJ(f) /\ pml2_i(v) = FrameK(f)
  BY AddressIndices
<1> HIDE DEF f
<1> DEFINE up == tables[pml4][FrameI(f)]
           down == IF up = Absent THEN Absent ELSE tables[up][FrameJ(f)]
           big == IF down = Absent THEN Absent ELSE tables[down][FrameK(f)]
<1>2. BigAt(f) = big
  BY DEF BigAt, Big
<1>3. Translate(v) = IF big = Absent THEN Absent ELSE big + (v % BIG_PAGE_SIZE)
  BY <1>1 DEF Translate
<1> QED BY <1>2, <1>3 DEF f

(* What is mapped when the regions are done.                               *)
Windows(hi) ==
  /\ HighDone(mapped, hi)
  /\ \A f \in 0 .. Frames - 1 : BigAt(f) = Shown(f, hi, KernelFrames)

LEMMA OnMeansWindows ==
  ASSUME PagingInv, stage = "on"
  PROVE  /\ mapped \in Memory /\ \A k \in DOMAIN map : map[k].base + map[k].length <= mapped
         /\ \E hi \in Nat : Windows(hi)
BY DEF PagingInv, WindowInv, Progress, Windows

(* A virtual address in a window, as a number and an offset.               *)
LEMMA WindowAddress ==
  ASSUME NEW first \in Nat, NEW x \in Nat
  PROVE  LET n == x \div BIG_PAGE_SIZE
             v == first * BIG_PAGE_SIZE + x
         IN /\ v \in Nat /\ n \in Nat /\ v \div BIG_PAGE_SIZE = first + n
            /\ v % BIG_PAGE_SIZE = x % BIG_PAGE_SIZE
            /\ n * BIG_PAGE_SIZE \in Nat /\ x = n * BIG_PAGE_SIZE + (x % BIG_PAGE_SIZE)
<1> DEFINE B == BIG_PAGE_SIZE
           n == x \div B
           r == x % B
           v == first * B + x
<1>1. B \in Nat \ {0}
  BY LayoutSizes
<1>2. n \in Nat /\ r \in 0 .. B - 1 /\ x = B * n + r
  BY <1>1, DivMod, Zenon
<1> HIDE DEF B, n, r
<1>3. n * B \in Nat /\ n * B = B * n /\ first * B \in Nat /\ (first + n) * B = first * B + n * B
  BY <1>1, <1>2, Products
<1>4. x = n * B + r
  BY <1>2, <1>3
<1> DEFINE y == n * B
           z == first * B
           w == (first + n) * B
<1>5. y \in Nat /\ z \in Nat /\ w = z + y /\ x = y + r /\ v = z + x
  BY <1>3, <1>4
<1> HIDE DEF y, z, w, v
<1>6. v \in Nat /\ v = w + r /\ r \in Nat /\ r < B /\ first + n \in Nat
  BY <1>1, <1>2, <1>5
<1>7. v \div B = first + n /\ v % B = r
  <2>1. v = (first + n) * B + r
    BY <1>6 DEF w
  <2> QED BY <1>1, <1>6, <2>1, DivUnique
<1> QED BY <1>2, <1>3, <1>4, <1>6, <1>7 DEF v, r, n, B

LEMMA HighPageMapped ==
  ASSUME PagingInv, stage = "on", NEW x \in Nat, (x \div BIG_PAGE_SIZE) * BIG_PAGE_SIZE < mapped
  PROVE  Translate(HIGH_BASE + x) = x
<1>1. PICK hi \in Nat : Windows(hi)
  BY OnMeansWindows
<1> DEFINE B == BIG_PAGE_SIZE
           n == x \div B
           f == HighFrame + n
           v == HighFrame * B + x
<1>2. mapped \in Nat /\ mapped + HighFrame * B <= KernelFrame * B
  BY OnMeansWindows, Layout
<1>3. HighFrame \in Nat /\ KernelFrame \in Nat /\ Frames \in Nat /\ KernelFrame <= Frames
      /\ B \in Nat \ {0} /\ KernelFrames \in Nat
  BY LayoutSizes, Layout
<1>4. HIGH_BASE + x = v
  BY Layout
<1>5. /\ v \in Nat /\ n \in Nat /\ v \div B = f /\ v % B = x % B
      /\ n * B \in Nat /\ x = n * B + (x % B) /\ x % B \in Nat
  <2>1. /\ v \in Nat /\ n \in Nat /\ v \div B = f /\ v % B = x % B
        /\ n * B \in Nat /\ x = n * B + (x % B)
    BY <1>3, WindowAddress
  <2>2. x % B \in 0 .. B - 1
    BY <1>3, DivMod, Zenon
  <2>3. \A y \in 0 .. B - 1 : y \in Nat
    BY <1>3
  <2> QED BY <2>1, <2>2, <2>3, Zenon
<1>6. n < hi
  <2>1. mapped <= hi * B /\ hi * B \in Nat
    BY <1>1, Successor DEF Windows, HighDone
  <2> DEFINE y == hi * B
             z == n * B
  <2>2. hi <= n => y <= z
    <3> HIDE DEF B, n
    <3> QED BY <1>3, <1>5, Products
  <2>3. z < mapped /\ mapped <= y /\ y \in Nat /\ z \in Nat
    BY <1>2, <1>5, <2>1
  <2> HIDE DEF y, z, n
  <2> QED BY <1>2, <1>5, <2>2, <2>3
<1>7. n * B < mapped
  OBVIOUS
<1> HIDE DEF B, n, v
<1>8. f < KernelFrame
  <2> DEFINE y == n * B
             z == HighFrame * B
             w == KernelFrame * B
  <2>1. y \in Nat /\ z \in Nat /\ w \in Nat /\ f * B = z + y /\ f \in Nat
    BY <1>3, <1>5, Products
  <2>2. KernelFrame <= f => w <= f * B
    <3> HIDE DEF f
    <3> QED BY <1>3, <2>1, Products
  <2>3. y < mapped /\ mapped + z <= w
    BY <1>2, <1>7
  <2> HIDE DEF y, z, w, f
  <2> QED BY <1>2, <1>3, <2>1, <2>2, <2>3
<1>9. f \in 0 .. Frames - 1 /\ HighFrame <= f /\ f < HighFrame + hi /\ ~ (KernelFrame <= f) /\ f - HighFrame = n
  BY <1>3, <1>5, <1>6, <1>8
<1> HIDE DEF f
<1>10. BigAt(f) = n * B /\ n * B # Absent
  <2>1. Shown(f, hi, KernelFrames) = n * B
    BY <1>9, Zenon DEF Shown, B
  <2> QED BY <1>1, <1>5, <1>9, <2>1 DEF Windows, Absent
<1>11. Translate(v) = n * B + (x % B)
  <2>1. Translate(v) = IF BigAt(v \div B) = Absent THEN Absent ELSE BigAt(v \div B) + (v % B)
    BY <1>5, TranslateIs DEF B
  <2> QED BY <1>5, <1>10, <2>1
<1> QED BY <1>4, <1>5, <1>11

LEMMA HighMapped ==
  ASSUME PagingInv, stage = "on", NEW x \in Nat, x < mapped
  PROVE  Translate(HIGH_BASE + x) = x
<1> DEFINE y == (x \div BIG_PAGE_SIZE) * BIG_PAGE_SIZE
           r == x % BIG_PAGE_SIZE
<1>1. y \in Nat /\ x = y + r
  BY LayoutSizes, WindowAddress
<1>2. r \in Nat
  <2>1. BIG_PAGE_SIZE \in Nat \ {0} /\ r \in 0 .. BIG_PAGE_SIZE - 1
    BY LayoutSizes, DivMod, Zenon
  <2> HIDE DEF r
  <2> QED BY <2>1
<1>3. mapped \in Nat
  BY OnMeansWindows, Layout
<1>4. y < mapped
  <2> HIDE DEF y, r
  <2> QED BY <1>1, <1>2, <1>3
<1> QED BY <1>4, HighPageMapped

LEMMA KernelMapped ==
  ASSUME PagingInv, stage = "on", NEW x \in Nat, x < KERNEL_SIZE
  PROVE  Translate(KERNEL_BASE + x) = x
<1>1. PICK hi \in Nat : Windows(hi)
  BY OnMeansWindows
<1> DEFINE B == BIG_PAGE_SIZE
           n == x \div B
           f == KernelFrame + n
           v == KernelFrame * B + x
<1>2. KernelFrame \in Nat /\ Frames \in Nat /\ KernelFrame + KernelFrames = Frames
      /\ B \in Nat \ {0} /\ KernelFrames \in Nat /\ KERNEL_SIZE = KernelFrames * B
  BY LayoutSizes, Layout
<1>3. KERNEL_BASE + x = v
  BY Layout
<1>4. /\ v \in Nat /\ n \in Nat /\ v \div B = f /\ v % B = x % B
      /\ n * B \in Nat /\ x = n * B + (x % B) /\ x % B \in Nat
  <2>1. /\ v \in Nat /\ n \in Nat /\ v \div B = f /\ v % B = x % B
        /\ n * B \in Nat /\ x = n * B + (x % B)
    BY <1>2, WindowAddress
  <2>2. x % B \in 0 .. B - 1
    BY <1>2, DivMod, Zenon
  <2>3. \A y \in 0 .. B - 1 : y \in Nat
    BY <1>2
  <2> QED BY <2>1, <2>2, <2>3, Zenon
<1>5. n < KernelFrames
  <2> DEFINE y == KernelFrames * B
  <2>1. x < y
    BY <1>2
  <2> HIDE DEF B
  <2> QED BY <1>2, <2>1, DivBound
<1> HIDE DEF B, n, v
<1>6. f \in 0 .. Frames - 1 /\ KernelFrame <= f /\ f < KernelFrame + KernelFrames /\ f - KernelFrame = n
  BY <1>2, <1>4, <1>5
<1> HIDE DEF f
<1>7. BigAt(f) = n * B /\ n * B # Absent
  <2>1. Shown(f, hi, KernelFrames) = n * B
    BY <1>6, Zenon DEF Shown, B
  <2> QED BY <1>1, <1>4, <1>6, <2>1 DEF Windows, Absent
<1>8. Translate(v) = n * B + (x % B)
  <2>1. Translate(v) = IF BigAt(v \div B) = Absent THEN Absent ELSE BigAt(v \div B) + (v % B)
    BY <1>4, TranslateIs DEF B
  <2> QED BY <1>4, <1>7, <2>1
<1> QED BY <1>3, <1>4, <1>8

LEMMA UsedMapped == BootInv /\ PagingInv => UsedIsMapped
<1> SUFFICES ASSUME BootInv, PagingInv, stage = "on"
             PROVE  /\ \A k \in DOMAIN map : \A x \in Bytes(map[k]) : Translate(HIGH_BASE + x) = x
                    /\ nodes.start # 0 => \A x \in Inside(nodes) : Translate(HIGH_BASE + x) = x
                    /\ \A x \in purged : Below(x) => Translate(HIGH_BASE + x) = x
                    /\ \A x \in Inside(Kernel) : Translate(KERNEL_BASE + x) = x
  BY DEF UsedIsMapped
<1>1. mapped \in Nat /\ \A k \in DOMAIN map : map[k].base + map[k].length <= mapped
  BY OnMeansWindows, Layout
<1>2. \A k \in DOMAIN map : map[k] \in Entry
  BY ElementOfSeq DEF BootInv, BootTypes, GoodMap
<1>3. ASSUME NEW k \in DOMAIN map, NEW x \in Bytes(map[k]) PROVE Translate(HIGH_BASE + x) = x
  <2>1. x \in Nat /\ x < map[k].base + map[k].length /\ map[k].base + map[k].length \in Nat
    BY <1>2, BytesIs
  <2>2. x < mapped
    BY <1>1, <2>1
  <2> QED BY <2>1, <2>2, HighMapped
<1>4. ASSUME nodes.start # 0, NEW x \in Inside(nodes) PROVE Translate(HIGH_BASE + x) = x
  <2>1. nodes \in Region
    BY DEF BootInv, BootTypes
  <2>2. x \in Nat /\ x < nodes.end /\ nodes.end \in Nat
    BY <2>1 DEF Region, Inside
  <2>3. PICK k \in DOMAIN map : nodes.end <= map[k].base + map[k].length
    BY <1>4 DEF BootInv, EndsInv
  <2>4. map[k].base + map[k].length \in Nat
    BY <1>2, BytesIs
  <2>5. x < mapped
    BY <1>1, <2>2, <2>3, <2>4
  <2> QED BY <2>2, <2>5, HighMapped
<1>5. ASSUME NEW x \in Inside(Kernel) PROVE Translate(KERNEL_BASE + x) = x
  <2>1. Kernel \in Region
    BY BootAssumption
  <2>2. x \in Nat /\ x < Kernel.end /\ Kernel.end \in Nat
    BY <2>1 DEF Region, Inside
  <2>3. x < KERNEL_SIZE
    BY <2>2, PagingAssumption
  <2> QED BY <2>2, <2>3, KernelMapped
<1>6. ASSUME NEW x \in purged, Below(x) PROVE Translate(HIGH_BASE + x) = x
  <2> DEFINE y == (x \div BIG_PAGE_SIZE) * BIG_PAGE_SIZE
  <2>1. x \in Nat
    BY DEF BootInv, BootTypes
  <2>2. PICK k \in DOMAIN map : y < map[k].base + map[k].length
    BY <1>6 DEF Below
  <2>3. map[k].base + map[k].length \in Nat
    BY <1>2, BytesIs
  <2>4. y \in Nat
    BY <2>1, LayoutSizes, WindowAddress
  <2>5. y < mapped
    <3> HIDE DEF y
    <3> QED BY <1>1, <2>2, <2>3, <2>4
  <2> QED BY <2>1, <2>5, HighPageMapped
<1> QED BY <1>3, <1>4, <1>5, <1>6

LEMMA NothingElseMapped == PagingInv => OnlyWindowsMapped
<1> SUFFICES ASSUME PagingInv, stage = "on",
                    NEW k \in 0 .. PTE_COUNT * PTE_COUNT * PTE_COUNT - 1, NEW v, v = k * BIG_PAGE_SIZE
             PROVE  Translate(v) =
                      IF v >= KERNEL_BASE THEN v - KERNEL_BASE
                      ELSE IF v >= HIGH_BASE /\ (v - HIGH_BASE < mapped \/ v = HIGH_BASE)
                      THEN v - HIGH_BASE ELSE Absent
  BY DEF OnlyWindowsMapped
<1>1. PICK hi \in Nat : Windows(hi)
  BY OnMeansWindows
<1> DEFINE B == BIG_PAGE_SIZE
           high == HighFrame * B
           kernel == KernelFrame * B
<1>2. HighFrame \in Nat /\ KernelFrame \in Nat /\ Frames \in Nat /\ KernelFrame + KernelFrames = Frames
      /\ B \in Nat \ {0} /\ KernelFrames \in Nat /\ HighFrame <= KernelFrame
      /\ HIGH_BASE = high /\ KERNEL_BASE = kernel
  BY LayoutSizes, Layout
<1>3. k \in 0 .. Frames - 1 /\ k \in Nat /\ k < Frames
  BY <1>2 DEF Frames
<1>4. v \in Nat /\ v \div B = k /\ v % B = 0
  <2> DEFINE y == k * B
  <2>1. y \in Nat /\ y = k * B + 0 /\ 0 \in Nat /\ 0 < B
    BY <1>2, <1>3, Products
  <2>2. y \div B = k /\ y % B = 0
    <3> HIDE DEF y
    <3> QED BY <1>2, <1>3, <2>1, DivUnique
  <2> QED BY <2>1, <2>2
<1>5. Translate(v) = BigAt(k)
  <2>1. Translate(v) = IF BigAt(k) = Absent THEN Absent ELSE BigAt(k) + 0
    BY <1>4, TranslateIs
  <2>2. BigAt(k) = Shown(k, hi, KernelFrames)
    BY <1>1, <1>3 DEF Windows
  <2>3. BigAt(k) = Absent \/ BigAt(k) \in Nat
    <3>1. KernelFrame <= k => (k - KernelFrame) * B \in Nat
      <4> DEFINE d == k - KernelFrame
      <4>1. KernelFrame <= k => d \in Nat
        BY <1>2, <1>3
      <4> HIDE DEF d, B
      <4>2. KernelFrame <= k => d * B \in Nat
        BY <1>2, <4>1, Products
      <4> QED BY <4>2 DEF d
    <3>2. HighFrame <= k => (k - HighFrame) * B \in Nat
      <4> DEFINE d == k - HighFrame
      <4>1. HighFrame <= k => d \in Nat
        BY <1>2, <1>3
      <4> HIDE DEF d, B
      <4>2. HighFrame <= k => d * B \in Nat
        BY <1>2, <4>1, Products
      <4> QED BY <4>2 DEF d
    <3> QED BY <2>2, <3>1, <3>2, Zenon DEF Shown
  <2> QED BY <2>1, <2>3
<1>6. BigAt(k) = Shown(k, hi, KernelFrames)
  BY <1>1, <1>3 DEF Windows
(* How the numbers compare the addresses do.                               *)
<1>7. ASSUME NEW a \in Nat
      PROVE  /\ a * B \in Nat
             /\ a <= k <=> v >= a * B
             /\ a <= k => k - a \in Nat /\ (k - a) * B = v - a * B
  <2> HIDE DEF B
  <2>1. v = k * B
    BY DEF B
  <2>2. a * B \in Nat /\ (a <= k => a * B <= k * B) /\ (k < a => k * B + B <= a * B)
    BY <1>2, <1>3, Products
  <2>3. a <= k <=> v >= a * B
    <3> DEFINE y == a * B
    <3>1. y \in Nat /\ (a <= k => y <= v) /\ (k < a => v + B <= y)
      BY <2>1, <2>2
    <3> HIDE DEF y
    <3>2. a <= k <=> v >= y
      BY <1>2, <1>3, <1>4, <3>1
    <3> QED BY <3>2 DEF y
  <2>4. ASSUME a <= k PROVE k - a \in Nat /\ (k - a) * B = v - a * B
    <3> DEFINE d == k - a
    <3>1. d \in Nat /\ d + a = k
      BY <1>3, <2>4
    <3> HIDE DEF d
    <3>2. d * B \in Nat /\ (d + a) * B = d * B + a * B
      BY <1>2, <3>1, Products
    <3> DEFINE y == d * B
               z == a * B
    <3>3. y \in Nat /\ z \in Nat /\ v = y + z
      BY <2>1, <2>2, <3>1, <3>2
    <3> HIDE DEF y, z
    <3>4. y = v - z
      BY <1>4, <3>3
    <3> QED BY <3>1, <3>4 DEF d, y, z
  <2> QED BY <2>2, <2>3, <2>4
<1>8. CASE KernelFrame <= k
  <2>1. v >= KERNEL_BASE /\ (k - KernelFrame) * B = v - KERNEL_BASE
    BY <1>2, <1>7, <1>8
  <2>2. k < KernelFrame + KernelFrames
    BY <1>2, <1>3
  <2>3. Shown(k, hi, KernelFrames) = (k - KernelFrame) * B
    BY <1>8, <2>2, Zenon DEF Shown
  <2> QED BY <1>5, <1>6, <2>1, <2>3, Zenon
<1>9. CASE ~ (KernelFrame <= k)
  <2>1. ~ (v >= KERNEL_BASE)
    BY <1>2, <1>7, <1>9
  <2>2. CASE ~ (HighFrame <= k)
    <3>1. ~ (v >= HIGH_BASE)
      BY <1>2, <1>7, <2>2
    <3>2. Shown(k, hi, KernelFrames) = Absent
      BY <1>9, <2>2, Zenon DEF Shown
    <3> QED BY <1>5, <1>6, <2>1, <3>1, <3>2, Zenon
  <2>3. CASE HighFrame <= k
    <3> DEFINE d == k - HighFrame
    <3>1. v >= HIGH_BASE /\ d \in Nat /\ d * B = v - HIGH_BASE
      BY <1>2, <1>7, <2>3
    <3>2. d < hi <=> d * B < mapped \/ d = 0
      <4>1. mapped \in Nat /\ HighDone(mapped, hi)
        BY <1>1, OnMeansWindows, Layout DEF Windows
      <4>2. hi >= 1 /\ mapped <= hi * B /\ (hi = 1 \/ (hi - 1) * B < mapped)
        BY <4>1 DEF HighDone
      <4> HIDE DEF d, B
      <4>3. d * B \in Nat /\ hi * B \in Nat /\ (hi <= d => hi * B <= d * B)
        BY <1>2, <3>1, Products
      <4>4. CASE hi = 1
        <5>1. d < hi => d = 0
          BY <3>1, <4>4
        <5>2. d * B < mapped => d < hi
          <6> DEFINE y == d * B
                     z == hi * B
          <6>1. y \in Nat /\ z \in Nat /\ mapped <= z /\ (hi <= d => z <= y)
            BY <4>2, <4>3
          <6> HIDE DEF y, z
          <6>2. y < mapped => d < hi
            BY <3>1, <4>1, <6>1
          <6> QED BY <6>2 DEF y
        <5> QED BY <4>4, <5>1, <5>2
      <4>5. CASE (hi - 1) * B < mapped
        <5> DEFINE e == hi - 1
        <5>1. e \in Nat /\ e * B < mapped
          BY <4>2, <4>5
        <5> HIDE DEF e
        <5>2. e * B \in Nat /\ (d <= e => d * B <= e * B)
          BY <1>2, <3>1, <5>1, Products
        <5> DEFINE x == e * B
                   y == d * B
                   z == hi * B
        <5>3. /\ x \in Nat /\ y \in Nat /\ z \in Nat /\ mapped <= z /\ x < mapped
              /\ (hi <= d => z <= y) /\ (d <= e => y <= x)
          BY <4>2, <4>3, <5>1, <5>2
        <5> HIDE DEF x, y, z
        <5>4. d < hi <=> y < mapped \/ d = 0
          BY <3>1, <4>1, <4>2, <5>3 DEF e
        <5> QED BY <5>4 DEF y
      <4> QED BY <4>2, <4>4, <4>5
    <3>3. d = 0 <=> v = HIGH_BASE
      <4>1. d = 0 => d * B = 0
        BY <1>2
      <4>2. d # 0 => d * B # 0
        <5> HIDE DEF d, B
        <5>1. 0 < d => 0 * B + B <= d * B
          BY <1>2, <3>1, Products
        <5>2. 0 * B = 0
          BY <1>2
        <5> QED BY <1>2, <3>1, <5>1, <5>2
      <4>3. HIGH_BASE \in Nat
        BY <1>2, <1>7
      <4> HIDE DEF d, B
      <4> QED BY <1>4, <3>1, <4>1, <4>2, <4>3
    <3>4. k < HighFrame + hi <=> d < hi
      BY <1>2, <1>3
    <3>5. Shown(k, hi, KernelFrames) = IF k < HighFrame + hi THEN d * B ELSE Absent
      BY <1>9, <2>3, Zenon DEF Shown
    <3> HIDE DEF d
    <3> QED BY <1>5, <1>6, <2>1, <3>1, <3>2, <3>3, <3>4, <3>5, Zenon
  <2> QED BY <2>2, <2>3
<1> QED BY <1>8, <1>9

(* WindowsMapped, for any sizes of memory, big pages and tables: what the  *)
(* map lists, the nodes and the kernel are reached, and what was cut out   *)
(* below the end of what the map lists; nothing outside the windows is     *)
(* (paging_build and its two calls of paging_build_region).                *)
THEOREM WindowsMappedAlways == PagingSpec => []WindowsMapped
<1>1. BootInv /\ PagingInv => WindowsMapped
  BY UsedMapped, NothingElseMapped DEF WindowsMapped
<1> QED BY <1>1, BootInvariant, PagingIsBoot, PagingInvariant, PTL
==============================================================================
