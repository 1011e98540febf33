---------------------------- MODULE Slab_proofs ----------------------------
(***************************************************************************)
(* Proofs about the slab allocators: that the objects of a page do not     *)
(* overlap, that each is in one place, that slab_free finds the allocator  *)
(* an object came from, and that no page is taken before it is needed, for *)
(* any number of threads and allocators, any pages and sizes of objects.   *)
(***************************************************************************)
EXTENDS Slab, TLAPS, SequenceTheorems, FiniteSetTheorems, WellFoundedInduction

(* The objects that allocator a has on page p, and those not in use.       *)
ObjectSet(a, p) == ToSet(Objects(a, p))
Available(p)    == ToSet(free[p])

Locked == {"scan", "new", "carve", "add", "unlock", "return"}

SlabTypes ==
  /\ memory \subseteq Page /\ elsewhere \subseteq Page /\ memory \cap elsewhere = {}
  /\ slabs \in [Allocator -> Seq(Page)]
  /\ free \in [Page -> Seq(Nat)]
  /\ page_descr \in [Page -> Allocator \cup {None}]
  /\ lock \in [Allocator -> Thread \cup {None}]
  /\ pc \in [Thread -> {"idle", "free", "finit"} \cup Locked]
  /\ alloc \in [Thread -> Allocator \cup {None}]
  /\ ptr \in [Thread -> Nat]
  /\ page \in [Thread -> Page \cup {0}]
  /\ objects \subseteq Nat \X Allocator

(* Where a thread is says which allocator it is in, whether it has locked  *)
(* it, and whether it carries an object or a page; who takes an allocator  *)
(* down is alone with it.                                                  *)
Calls(t) ==
  /\ pc[t] = "idle" <=> alloc[t] = None
  /\ pc[t] \in Locked => lock[alloc[t]] = t
  /\ ptr[t] # 0 => pc[t] \in {"unlock", "free", "return"}
  /\ pc[t] \in {"free", "return"} => ptr[t] # 0
  /\ page[t] # 0 <=> pc[t] \in {"carve", "add"}
  /\ pc[t] # "idle" => slabs[alloc[t]] # <<>>
  /\ pc[t] = "finit" => /\ \A u \in Thread : alloc[u] = alloc[t] => u = t
                        /\ \A o \in objects : o[2] # alloc[t]

CallsInv ==
  /\ \A t \in Thread : Calls(t)
  /\ \A a \in Allocator : lock[a] # None => alloc[lock[a]] = a /\ pc[lock[a]] \in Locked

(* A page belongs to one list of slabs, to a thread that makes a slab of   *)
(* it, or to the page allocator and its other users.                       *)
PagesInv ==
  /\ \A a \in Allocator : IsInjective(slabs[a])
  /\ \A a \in Allocator : \A p \in Pages(a) : page_descr[p] = a /\ p \notin memory \cup elsewhere
  /\ \A t \in Thread : page[t] # 0 =>
       /\ page[t] \notin memory \cup elsewhere
       /\ \A a \in Allocator : page[t] \notin Pages(a)
       /\ \A u \in Thread : page[u] = page[t] => u = t

(* An object is on the list of its page, with a caller or with a thread,   *)
(* and on no two of them.                                                  *)
ObjectsInv ==
  /\ \A a \in Allocator : \A p \in Pages(a) :
       /\ IsInjective(free[p]) /\ Available(p) \subseteq ObjectSet(a, p)
       /\ \A x \in ObjectSet(a, p) :
            x \in Available(p) \/ <<x, a>> \in objects \/ \E t \in Thread : ptr[t] = x
  /\ \A t \in Thread : pc[t] = "add" =>
       free[page[t]] = Objects(alloc[t], page[t]) /\ page_descr[page[t]] = alloc[t]
  /\ \A o \in objects :
       /\ PageOf(o[1]) \in Pages(o[2]) /\ o[1] \in ObjectSet(o[2], PageOf(o[1]))
       /\ o[1] \notin Available(PageOf(o[1]))
       /\ \A t \in Thread : ptr[t] # o[1]
  /\ \A t \in Thread : ptr[t] # 0 =>
       /\ PageOf(ptr[t]) \in Pages(alloc[t]) /\ ptr[t] \in ObjectSet(alloc[t], PageOf(ptr[t]))
       /\ ptr[t] \notin Available(PageOf(ptr[t]))
       /\ \A u \in Thread : ptr[u] = ptr[t] => u = t

SlabInv == SlabTypes /\ CallsInv /\ PagesInv /\ ObjectsInv /\ GrowsOnlyWhenFull

----------------------------------------------------------------------------
(* Arithmetic: products, quotients and remainders.                         *)

LEMMA TimesPositive ==
  ASSUME NEW m \in Nat \ {0}, NEW e \in Int, e >= 1
  PROVE  m * e >= m /\ m * e \in Int
OBVIOUS

LEMMA TimesNegative ==
  ASSUME NEW m \in Nat \ {0}, NEW e \in Int, e <= -1
  PROVE  m * e <= -m /\ m * e \in Int
OBVIOUS

LEMMA DivMod ==
  ASSUME NEW m \in Nat \ {0}, NEW x \in Int
  PROVE  x \div m \in Int /\ x % m \in 0 .. m - 1 /\ x = m * (x \div m) + (x % m)
OBVIOUS

LEMMA DivIs ==
  ASSUME NEW m \in Nat \ {0}, NEW q \in Int, NEW r \in 0 .. m - 1
  PROVE  (m * q + r) \div m = q /\ (m * q + r) % m = r
<1>1. m * q \in Int
  OBVIOUS
<1> DEFINE x == m * q + r
           d == x \div m
           e == q - d
<1>2. x \in Int
  BY <1>1
<1> HIDE DEF x
<1>3. d \in Int /\ x % m \in 0 .. m - 1 /\ x = m * d + (x % m)
  BY <1>2, DivMod
<1>4. e \in Int /\ m * e = (x % m) - r
  <2>1. m * (q - d) = m * q - m * d
    BY <1>3
  <2> QED BY <2>1, <1>3 DEF x
<1>5. ~ (e >= 1)
  <2>1. e >= 1 => m * e >= m
    BY <1>4, TimesPositive
  <2> QED BY <2>1, <1>3, <1>4
<1>6. ~ (e <= -1)
  <2>1. e <= -1 => m * e <= -m
    BY <1>4, TimesNegative
  <2> QED BY <2>1, <1>3, <1>4
<1>7. e = 0
  <2>1. e \in Int
    BY <1>4
  <2> HIDE DEF e
  <2> QED BY <2>1, <1>5, <1>6
<1>8. q = d
  <2>1. d \in Int
    BY <1>3
  <2> HIDE DEF d
  <2> QED BY <2>1, <1>7
<1>9. m * q + r = m * q + (x % m) /\ x % m \in Int
  <2> HIDE DEF d, e
  <2> QED BY <1>1, <1>3, <1>8 DEF x
<1> QED BY <1>1, <1>8, <1>9 DEF x

----------------------------------------------------------------------------
(* slab_small_new: where it puts the objects.                              *)

LEMMA ConstantsAre ==
  ASSUME NEW a \in Allocator
  PROVE  /\ PAGE_SIZE \in Nat \ {0} /\ NODE \in Nat \ {0} /\ SLAB \in Nat \ {0}
         /\ obj_size[a] \in Nat \ {0} /\ obj_align[a] \in Nat \ {0}
         /\ NODE % obj_align[a] = 0 /\ PAGE_SIZE % obj_align[a] = 0
         /\ SLAB + 2 * (NODE + obj_size[a] + obj_align[a]) <= PAGE_SIZE
<1>1. /\ obj_size[a] \in 1 .. PAGE_SIZE \div 8 /\ PAGE_SIZE \in Nat
      /\ obj_align[a] \in Nat \ {0}
      /\ NODE % obj_align[a] = 0 /\ PAGE_SIZE % obj_align[a] = 0
      /\ SLAB + 2 * (NODE + obj_size[a] + obj_align[a]) <= PAGE_SIZE
  BY SlabAssumption
<1>2. obj_size[a] \in Nat \ {0}
  BY <1>1
<1> QED BY <1>1, <1>2, SlabAssumption

(* The distance of two objects, and how many there are.                    *)
Shift(a) ==
  ((NODE + obj_size[a] + obj_align[a] - 1) \div obj_align[a]) * obj_align[a]
Room(a) == (PAGE_SIZE - SLAB) \div Shift(a)
Object(a, p, k) == p * PAGE_SIZE + (Room(a) - k) * Shift(a) + NODE

LEMMA ObjectsIs ==
  ASSUME NEW a, NEW p
  PROVE  Objects(a, p) = [k \in 1 .. Room(a) |-> Object(a, p, k)]
BY DEF Objects, Shift, Room, Object

LEMMA ShiftIs ==
  ASSUME NEW a \in Allocator
  PROVE  /\ Shift(a) \in Nat \ {0} /\ Room(a) \in Nat \ {0}
         /\ Shift(a) >= NODE + obj_size[a]
         /\ Shift(a) * Room(a) <= PAGE_SIZE - SLAB
         /\ \E d \in Int : Shift(a) = obj_align[a] * d
<1> DEFINE m == obj_align[a]
           need == NODE + obj_size[a]
           d == (need + m - 1) \div m
<1>1. /\ PAGE_SIZE \in Nat /\ SLAB \in Nat /\ need \in Nat \ {0} /\ m \in Nat \ {0}
      /\ SLAB + 2 * (need + m) <= PAGE_SIZE
  BY ConstantsAre
<1>2. Shift(a) = d * m
  BY DEF Shift
<1> HIDE DEF need, m
<1>3. d \in Int /\ need + m - 1 >= m * d /\ need + m - 1 <= m * d + m - 1
  <2>1. need + m - 1 \in Int
    BY <1>1
  <2>2. /\ d \in Int /\ (need + m - 1) % m \in 0 .. m - 1
        /\ need + m - 1 = m * d + ((need + m - 1) % m)
    BY <1>1, <2>1, DivMod
  <2> QED BY <1>1, <2>2
<1>4. /\ Shift(a) = m * d /\ Shift(a) \in Nat \ {0} /\ Shift(a) >= need
      /\ Shift(a) <= need + m - 1
  <2> HIDE DEF d
  <2>1. m * d \in Int /\ d * m = m * d
    BY <1>1, <1>3
  <2> QED BY <1>1, <1>2, <1>3, <2>1
<1> DEFINE s == Shift(a)
           l == Room(a)
<1>5. /\ l \in Int /\ s * l <= PAGE_SIZE - SLAB /\ PAGE_SIZE - SLAB <= s * l + s - 1
      /\ s * l \in Int
  <2>1. PAGE_SIZE - SLAB \in Int
    BY <1>1
  <2>2. /\ l \in Int /\ (PAGE_SIZE - SLAB) % s \in 0 .. s - 1
        /\ PAGE_SIZE - SLAB = s * l + ((PAGE_SIZE - SLAB) % s)
    BY <1>4, <2>1, DivMod DEF Room
  <2>3. s * l \in Int
    BY <1>4, <2>2
  <2> QED BY <1>1, <1>4, <2>2, <2>3
<1>6. l >= 1
  <2>1. CASE l = 0
    <3>1. s * l = 0
      BY <2>1, <1>4
    <3> QED BY <3>1, <1>1, <1>4, <1>5
  <2>2. CASE l <= -1
    <3>1. s * l <= -s
      BY <2>2, <1>4, <1>5, TimesNegative
    <3> QED BY <3>1, <1>1, <1>4, <1>5
  <2> QED BY <2>1, <2>2, <1>5
<1>7. \E e \in Int : Shift(a) = m * e
  BY <1>3, <1>4
<1> QED BY <1>4, <1>5, <1>6, <1>7 DEF need, m

(* An object begins behind its node, in front of the struct slab, aligned. *)
LEMMA ObjectIs ==
  ASSUME NEW a \in Allocator, NEW p \in Page, NEW k \in 1 .. Room(a)
  PROVE  LET x == Object(a, p, k)
         IN /\ x \in Nat /\ x # 0 /\ PageOf(x) = p /\ x % obj_align[a] = 0
            /\ x - NODE >= p * PAGE_SIZE
            /\ x + obj_size[a] - 1 <= p * PAGE_SIZE + PAGE_SIZE - SLAB - 1
<1> DEFINE s == Shift(a)
           l == Room(a)
           m == obj_align[a]
           x == Object(a, p, k)
           r == (l - k) * s + NODE
<1>1. /\ PAGE_SIZE \in Nat \ {0} /\ SLAB \in Nat \ {0} /\ NODE \in Nat \ {0}
      /\ obj_size[a] \in Nat \ {0} /\ m \in Nat \ {0}
      /\ NODE % m = 0 /\ PAGE_SIZE % m = 0 /\ p \in Nat \ {0}
  BY ConstantsAre, SlabAssumption
<1>2. /\ s \in Nat \ {0} /\ l \in Nat \ {0} /\ s >= NODE + obj_size[a]
      /\ s * l <= PAGE_SIZE - SLAB /\ \E d \in Int : s = m * d
  BY ShiftIs
<1>3. PICK d \in Int : s = m * d
  BY <1>2
<1>4. x = PAGE_SIZE * p + r /\ x = p * PAGE_SIZE + r
  <2> DEFINE y == (l - k) * s
  <2>1. y \in Int
    BY <1>2
  <2>2. PAGE_SIZE * p = p * PAGE_SIZE /\ p * PAGE_SIZE \in Int
    BY <1>1
  <2>3. x = p * PAGE_SIZE + y + NODE
    BY DEF Object
  <2> HIDE DEF y, x
  <2>4. r = y + NODE
    BY DEF y
  <2> HIDE DEF r
  <2> QED BY <1>1, <2>1, <2>2, <2>3, <2>4
<1> HIDE DEF x
<1>5. k \in Nat /\ k >= 1 /\ k <= l
  BY <1>2
<1>6. r \in Int /\ r >= NODE /\ r + obj_size[a] <= PAGE_SIZE - SLAB
  <2> HIDE DEF s, l
  <2>1. (l - k) * s >= 0 /\ (l - k) * s \in Int
    BY <1>2, <1>5
  <2>2. (l - k) * s <= s * l - s /\ s * l \in Int
    <3>1. (l - k) * s = s * l - s * k
      BY <1>2, <1>5
    <3>2. s * k >= s /\ s * k \in Int
      BY <1>2, <1>5, TimesPositive
    <3>3. s * l \in Int
      BY <1>2
    <3> QED BY <1>2, <3>1, <3>2, <3>3
  <2> QED BY <1>1, <1>2, <2>1, <2>2
<1>7. r \in 0 .. PAGE_SIZE - 1
  <2> HIDE DEF r
  <2> QED BY <1>1, <1>6
<1>8. PageOf(x) = p
  <2> HIDE DEF r
  <2>1. /\ PAGE_SIZE \in Nat \ {0} /\ p \in Int /\ r \in 0 .. PAGE_SIZE - 1
    BY <1>1, <1>7
  <2>2. (PAGE_SIZE * p + r) \div PAGE_SIZE = p /\ (PAGE_SIZE * p + r) % PAGE_SIZE = r
    BY ONLY <2>1, DivIs
  <2> QED BY <2>2, <1>4 DEF PageOf
<1>9. x % m = 0
  <2> DEFINE g == PAGE_SIZE \div m
             n == NODE \div m
  <2> HIDE DEF s, l, m
  <2>1. g \in Int /\ PAGE_SIZE = m * g + (PAGE_SIZE % m)
    BY <1>1, DivMod
  <2>2. n \in Int /\ NODE = m * n + (NODE % m)
    BY <1>1, DivMod
  <2> HIDE DEF g, n
  <2>3. PAGE_SIZE = m * g /\ NODE = m * n
    BY <1>1, <2>1, <2>2
  <2>4. x = m * (g * p + (l - k) * d + n) + 0
    <3>1. x = (m * g) * p + ((l - k) * (m * d) + m * n)
      BY <1>3, <1>4, <2>3
    <3>2. /\ (m * g) * p = m * (g * p) /\ (l - k) * (m * d) = m * ((l - k) * d)
          /\ g * p \in Int /\ (l - k) * d \in Int
      BY <1>1, <1>2, <1>3, <1>5, <2>1
    <3> DEFINE u == g * p
               v == (l - k) * d
    <3>3. x = m * u + (m * v + m * n)
      BY <3>1, <3>2
    <3>4. u \in Int /\ v \in Int
      BY <3>2
    <3> HIDE DEF u, v
    <3>5. m * u + (m * v + m * n) = m * (u + v + n) + 0
      BY <1>1, <2>2, <3>4
    <3> QED BY <3>3, <3>5 DEF u, v
  <2>5. g * p + (l - k) * d + n \in Int
    BY <1>1, <1>2, <1>3, <1>5, <2>1, <2>2
  <2> DEFINE q == g * p + (l - k) * d + n
  <2>6. 0 \in 0 .. m - 1
    BY <1>1
  <2>7. q \in Int /\ x = m * q + 0
    BY <2>4, <2>5
  <2> HIDE DEF q
  <2>8. (m * q + 0) % m = 0
    BY <1>1, <2>6, <2>7, DivIs
  <2> QED BY <2>7, <2>8
<1>10. p * PAGE_SIZE \in Nat
  BY <1>1
<1>11. /\ x \in Nat /\ x # 0 /\ x - NODE >= p * PAGE_SIZE
       /\ x + obj_size[a] - 1 <= p * PAGE_SIZE + PAGE_SIZE - SLAB - 1
  <2> DEFINE b == p * PAGE_SIZE
  <2>1. b \in Nat /\ x = b + r
    BY <1>4, <1>10
  <2> HIDE DEF b, r
  <2>2. /\ x \in Nat /\ x # 0 /\ x - NODE >= b
        /\ x + obj_size[a] - 1 <= b + PAGE_SIZE - SLAB - 1
    BY <1>1, <1>6, <2>1
  <2> QED BY <2>2 DEF b
<1> QED BY <1>8, <1>9, <1>11 DEF x

(* Two objects and their nodes do not overlap.                             *)
LEMMA ObjectsApart ==
  ASSUME NEW a \in Allocator, NEW p \in Page,
         NEW j \in 1 .. Room(a), NEW k \in 1 .. Room(a), j < k
  PROVE  Object(a, p, k) + obj_size[a] <= Object(a, p, j) - NODE
<1> DEFINE s == Shift(a)
           l == Room(a)
           b == p * PAGE_SIZE
<1>1. /\ s \in Nat \ {0} /\ l \in Nat \ {0} /\ s >= NODE + obj_size[a]
      /\ NODE \in Nat /\ obj_size[a] \in Nat /\ b \in Nat
  BY ConstantsAre, ShiftIs, SlabAssumption
<1>2. Object(a, p, j) = b + (l - j) * s + NODE /\ Object(a, p, k) = b + (l - k) * s + NODE
  BY DEF Object
<1> HIDE DEF s, l, b
<1>3. j \in Nat /\ k \in Nat
  BY DEF l
<1>4. s * (k - j) >= s /\ s * (k - j) \in Int
  BY <1>1, <1>3, TimesPositive
<1>5. (l - j) * s = (l - k) * s + s * (k - j) /\ (l - j) * s \in Int /\ (l - k) * s \in Int
  BY <1>1, <1>3
<1> QED BY <1>1, <1>2, <1>4, <1>5

LEMMA ObjectsAre ==
  ASSUME NEW a \in Allocator, NEW p \in Page
  PROVE  /\ Objects(a, p) \in Seq(Nat) /\ Objects(a, p) # <<>> /\ IsInjective(Objects(a, p))
         /\ \A x \in ObjectSet(a, p) : x \in Nat /\ x # 0 /\ PageOf(x) = p
<1>1. Room(a) \in Nat \ {0}
  BY ShiftIs
<1>2. \A k \in 1 .. Room(a) : Object(a, p, k) \in Nat /\ Object(a, p, k) # 0
                                /\ PageOf(Object(a, p, k)) = p
  BY ObjectIs
<1>3. \A j, k \in 1 .. Room(a) : Object(a, p, j) = Object(a, p, k) => j = k
  <2>1. SUFFICES ASSUME NEW j \in 1 .. Room(a), NEW k \in 1 .. Room(a), j < k
                 PROVE  Object(a, p, j) # Object(a, p, k)
    BY <1>1
  <2>2. Object(a, p, k) + obj_size[a] <= Object(a, p, j) - NODE
    BY <2>1, ObjectsApart
  <2>3. Object(a, p, j) \in Nat /\ Object(a, p, k) \in Nat
    BY <1>2
  <2> QED BY <2>2, <2>3, ConstantsAre
<1>4. Objects(a, p) = [k \in 1 .. Room(a) |-> Object(a, p, k)]
  BY ObjectsIs
<1> HIDE DEF Object
<1>5. Objects(a, p) \in Seq(Nat) /\ DOMAIN Objects(a, p) = 1 .. Room(a)
  BY <1>1, <1>2, <1>4
<1>6. Objects(a, p) # <<>>
  <2>1. 1 \in DOMAIN Objects(a, p)
    BY <1>1, <1>5
  <2> QED BY <2>1
<1>7. \A k \in 1 .. Room(a) : Objects(a, p)[k] = Object(a, p, k)
  BY <1>4
<1> HIDE DEF Object
<1> QED BY <1>2, <1>3, <1>5, <1>6, <1>7 DEF IsInjective, ObjectSet, ToSet

----------------------------------------------------------------------------
(* Lists that are added to and taken from at the head.                     *)

LEMMA PrependIs ==
  ASSUME NEW S, NEW s \in Seq(S), NEW x \in S
  PROVE  /\ <<x>> \o s \in Seq(S) /\ <<x>> \o s # <<>>
         /\ ToSet(<<x>> \o s) = {x} \cup ToSet(s)
         /\ IsInjective(s) /\ x \notin ToSet(s) => IsInjective(<<x>> \o s)
<1> DEFINE r == <<x>> \o s
<1>1. <<x>> \in Seq(S) /\ Len(<<x>>) = 1 /\ <<x>>[1] = x
  OBVIOUS
<1>2. Len(s) \in Nat /\ DOMAIN s = 1 .. Len(s)
  OBVIOUS
<1>3. /\ r \in Seq(S) /\ Len(r) = 1 + Len(s)
      /\ \A i \in 1 .. 1 + Len(s) : r[i] = IF i <= 1 THEN <<x>>[i] ELSE s[i - 1]
  BY <1>1, ConcatProperties
<1> HIDE DEF r
<1>4. /\ DOMAIN r = 1 .. 1 + Len(s) /\ r[1] = x
      /\ \A i \in 1 .. Len(s) : r[i + 1] = s[i]
      /\ \A i \in 2 .. 1 + Len(s) : i - 1 \in 1 .. Len(s) /\ r[i] = s[i - 1]
  <2>1. \A i \in 1 .. Len(s) : i + 1 \in 1 .. 1 + Len(s) /\ ~ (i + 1 <= 1) /\ i + 1 - 1 = i
    BY <1>2
  <2>2. \A i \in 2 .. 1 + Len(s) : i - 1 \in 1 .. Len(s) /\ i \in 1 .. 1 + Len(s) /\ ~ (i <= 1)
    BY <1>2
  <2>3. DOMAIN r = 1 .. 1 + Len(s)
    BY <1>3
  <2>4. 1 \in 1 .. 1 + Len(s)
    BY <1>2
  <2> QED BY <1>1, <1>3, <2>1, <2>2, <2>3, <2>4
<1>5. ToSet(r) = {x} \cup ToSet(s)
  <2>1. ASSUME NEW y \in ToSet(r) PROVE y \in {x} \cup ToSet(s)
    <3>1. PICK i \in 1 .. 1 + Len(s) : y = r[i]
      BY <1>4 DEF ToSet
    <3>2. i = 1 \/ i \in 2 .. 1 + Len(s)
      BY <1>2
    <3> QED BY <1>2, <1>4, <3>1, <3>2 DEF ToSet
  <2>2. ASSUME NEW y \in ToSet(s) PROVE y \in ToSet(r)
    <3>1. PICK i \in 1 .. Len(s) : y = s[i]
      BY <1>2 DEF ToSet
    <3>2. i + 1 \in DOMAIN r
      BY <1>2, <1>4
    <3> QED BY <1>4, <3>1, <3>2 DEF ToSet
  <2>3. x \in ToSet(r)
    BY <1>2, <1>4 DEF ToSet
  <2> QED BY <2>1, <2>2, <2>3
<1>6. ASSUME IsInjective(s), x \notin ToSet(s)
      PROVE  IsInjective(r)
  <2>1. SUFFICES ASSUME NEW i \in 1 .. 1 + Len(s), NEW j \in 1 .. 1 + Len(s), r[i] = r[j]
                 PROVE  i = j
    BY <1>4 DEF IsInjective
  <2>2. \A k \in 1 .. Len(s) : s[k] # x
    BY <1>2, <1>6 DEF ToSet
  <2>3. \A k, l \in 1 .. Len(s) : s[k] = s[l] => k = l
    BY <1>2, <1>6 DEF IsInjective
  <2>4. (i = 1 \/ i \in 2 .. 1 + Len(s)) /\ (j = 1 \/ j \in 2 .. 1 + Len(s))
    BY <1>2
  <2>5. i \in 2 .. 1 + Len(s) /\ j \in 2 .. 1 + Len(s) => i - 1 = j - 1
    BY <1>4, <2>1, <2>3
  <2>6. i = 1 => ~ (j \in 2 .. 1 + Len(s))
    BY <1>4, <2>1, <2>2
  <2>7. j = 1 => ~ (i \in 2 .. 1 + Len(s))
    BY <1>4, <2>1, <2>2
  <2> QED BY <1>2, <2>4, <2>5, <2>6, <2>7
<1>7. r # <<>>
  <2>1. 1 \in DOMAIN r
    BY <1>2, <1>4
  <2> QED BY <2>1
<1> QED BY <1>3, <1>5, <1>6, <1>7 DEF r

LEMMA TailIs ==
  ASSUME NEW S, NEW s \in Seq(S), s # <<>>
  PROVE  /\ Head(s) \in S /\ Head(s) \in ToSet(s)
         /\ Tail(s) \in Seq(S) /\ (Len(s) = 1 <=> Tail(s) = <<>>)
         /\ ToSet(Tail(s)) \subseteq ToSet(s)
         /\ IsInjective(s) => /\ IsInjective(Tail(s))
                              /\ ToSet(Tail(s)) = ToSet(s) \ {Head(s)}
<1> DEFINE r == Tail(s)
<1>1. Len(s) \in Nat /\ Len(s) > 0 /\ DOMAIN s = 1 .. Len(s)
  BY EmptySeq
<1>2. /\ Head(s) \in S /\ r \in Seq(S) /\ Len(r) = Len(s) - 1
      /\ \A i \in 1 .. Len(r) : r[i] = s[i + 1]
  BY HeadTailProperties
<1>3. Head(s) = s[1]
  BY <1>1
<1> HIDE DEF r
<1>4. DOMAIN r = 1 .. Len(s) - 1 /\ (Len(s) = 1 <=> r = <<>>)
  <2>1. DOMAIN r = 1 .. Len(s) - 1
    BY <1>2
  <2>2. Len(r) = 0 <=> r = <<>>
    BY <1>2, EmptySeq
  <2> QED BY <1>1, <1>2, <2>1, <2>2
<1>5. \A i \in 1 .. Len(s) - 1 : i + 1 \in 1 .. Len(s) /\ i + 1 # 1 /\ r[i] = s[i + 1]
  BY <1>1, <1>2
<1>6. \A i \in 1 .. Len(s) : i = 1 \/ (i - 1 \in 1 .. Len(s) - 1 /\ r[i - 1] = s[i])
  <2>1. \A i \in 1 .. Len(s) : i = 1 \/ (i - 1 \in 1 .. Len(s) - 1 /\ i - 1 + 1 = i)
    BY <1>1
  <2> QED BY <1>5, <2>1
<1>7. s[1] \in ToSet(s)
  BY <1>1 DEF ToSet
<1>8. \A y \in ToSet(r) : y \in ToSet(s)
  BY <1>1, <1>4, <1>5 DEF ToSet
<1>9. \A y \in ToSet(s) : y = s[1] \/ y \in ToSet(r)
  BY <1>1, <1>4, <1>6 DEF ToSet
<1>10. ASSUME IsInjective(s)
       PROVE  IsInjective(r) /\ ToSet(r) = ToSet(s) \ {s[1]}
  <2>1. \A i, j \in 1 .. Len(s) : s[i] = s[j] => i = j
    BY <1>1, <1>10 DEF IsInjective
  <2>2. ASSUME NEW i \in 1 .. Len(s) - 1, NEW j \in 1 .. Len(s) - 1, r[i] = r[j]
        PROVE  i = j
    <3>1. /\ i + 1 \in 1 .. Len(s) /\ r[i] = s[i + 1]
          /\ j + 1 \in 1 .. Len(s) /\ r[j] = s[j + 1]
      BY <1>5
    <3>2. i + 1 = j + 1
      BY <2>1, <2>2, <3>1
    <3> QED BY <1>1, <3>2
  <2>3. IsInjective(r)
    BY <1>1, <1>4, <2>2 DEF IsInjective
  <2>4. s[1] \notin ToSet(r)
    <3>1. \A i \in 1 .. Len(s) - 1 : r[i] # s[1]
      BY <1>1, <1>5, <2>1
    <3> QED BY <1>4, <3>1 DEF ToSet
  <2> QED BY <1>8, <1>9, <2>3, <2>4
<1> QED BY <1>2, <1>3, <1>4, <1>7, <1>8, <1>10 DEF r

LEMMA EmptyIs == ToSet(<<>>) = {} /\ IsInjective(<<>>)
BY DEF ToSet, IsInjective

LEMMA OneIs == ASSUME NEW x PROVE ToSet(<<x>>) = {x} /\ IsInjective(<<x>>)
BY DEF ToSet, IsInjective

----------------------------------------------------------------------------
(* What follows from the invariant.                                        *)

LEMMA PagesAre ==
  ASSUME SlabTypes, NEW a \in Allocator
  PROVE  Pages(a) \subseteq Page /\ (slabs[a] = <<>> <=> Pages(a) = {})
<1>1. slabs[a] \in Seq(Page)
  BY DEF SlabTypes
<1>2. \A k \in DOMAIN slabs[a] : slabs[a][k] \in Page
  BY <1>1, ElementOfSeq
<1>3. slabs[a] # <<>> => 1 \in DOMAIN slabs[a]
  BY <1>1, EmptySeq
<1> QED BY <1>2, <1>3, EmptyIs DEF Pages, ToSet

LEMMA OwnersAre ==
  ASSUME SlabInv
  PROVE  /\ \A t \in Thread : pc[t] # "idle" => alloc[t] \in Allocator
         /\ \A t \in Thread : ptr[t] # 0 => alloc[t] \in Allocator
         /\ \A o \in objects : o = <<o[1], o[2]>> /\ o[1] \in Nat /\ o[2] \in Allocator
         /\ \A a, b \in Allocator : \A p \in Pages(a) : p \in Pages(b) => a = b
         /\ \A o, q \in objects : o[1] = q[1] => o = q
         /\ \A o \in objects : page_descr[PageOf(o[1])] = o[2] /\ o[1] # 0
<1>1. \A t \in Thread : pc[t] # "idle" => alloc[t] \in Allocator
  BY DEF SlabInv, SlabTypes, CallsInv, Calls
<1>2. \A t \in Thread : ptr[t] # 0 => pc[t] # "idle"
  BY DEF SlabInv, CallsInv, Calls
<1>3. \A o \in objects : o = <<o[1], o[2]>> /\ o[1] \in Nat /\ o[2] \in Allocator
  BY DEF SlabInv, SlabTypes
<1>4. \A a, b \in Allocator : \A p \in Pages(a) : p \in Pages(b) => a = b
  BY DEF SlabInv, PagesInv
<1>5. \A o \in objects : PageOf(o[1]) \in Pages(o[2]) /\ o[1] \in ObjectSet(o[2], PageOf(o[1]))
  BY DEF SlabInv, ObjectsInv
<1>6. \A o, q \in objects : o[1] = q[1] => o = q
  BY <1>3, <1>4, <1>5
<1>7. ASSUME NEW o \in objects
      PROVE  page_descr[PageOf(o[1])] = o[2] /\ o[1] # 0
  <2>1. PageOf(o[1]) \in Page
    BY <1>3, <1>5, PagesAre DEF SlabInv
  <2>2. o[1] # 0
    BY <1>3, <1>5, <2>1, ObjectsAre
  <2> QED BY <1>3, <1>5, <2>2 DEF SlabInv, PagesInv
<1>8. \A o \in objects : page_descr[PageOf(o[1])] = o[2] /\ o[1] # 0
  BY <1>7
<1> QED BY <1>1, <1>2, <1>3, <1>4, <1>6, <1>8

LEMMA NoneIs == None \notin Allocator /\ None \notin Thread
BY SlabAssumption

(* A step that leaves lists and objects alone.                             *)
LEMMA ObjectsStay ==
  ASSUME ObjectsInv, UNCHANGED <<slabs, free, page_descr, objects, ptr>>,
         \A u \in Thread : ptr[u] # 0 => alloc'[u] = alloc[u],
         \A u \in Thread : pc'[u] = "add" =>
           pc[u] = "add" /\ alloc'[u] = alloc[u] /\ page'[u] = page[u]
  PROVE  ObjectsInv'
<1>1. (\A b : Pages(b)' = Pages(b)) /\ (\A p : Available(p)' = Available(p))
  BY DEF Pages, Available
<1> QED BY <1>1 DEF ObjectsInv

LEMMA GrowthStays ==
  ASSUME GrowsOnlyWhenFull, UNCHANGED <<slabs, free>>,
         \A u \in Thread : pc'[u] \in {"new", "carve", "add"} =>
           /\ pc[u] \in {"new", "carve", "add"}
           /\ alloc'[u] = alloc[u] /\ lock'[alloc[u]] = lock[alloc[u]]
  PROVE  GrowsOnlyWhenFull'
<1>1. \A b : Pages(b)' = Pages(b)
  BY DEF Pages
<1> QED BY <1>1 DEF GrowsOnlyWhenFull

LEMMA PagesStay ==
  ASSUME PagesInv, UNCHANGED <<memory, elsewhere, slabs, page_descr, page>>
  PROVE  PagesInv'
<1>1. \A b : Pages(b)' = Pages(b)
  BY DEF Pages
<1> QED BY <1>1 DEF PagesInv

(* One thread's step.                                                      *)
LEMMA StateIs ==
  ASSUME SlabInv
  PROVE  /\ SlabTypes /\ CallsInv /\ PagesInv /\ ObjectsInv /\ GrowsOnlyWhenFull
         /\ DOMAIN pc = Thread /\ DOMAIN alloc = Thread /\ DOMAIN ptr = Thread
         /\ DOMAIN page = Thread /\ DOMAIN lock = Allocator
BY DEF SlabInv, SlabTypes

----------------------------------------------------------------------------
(* slab_alloc.                                                             *)

LEMMA AllocLockStep ==
  ASSUME SlabInv, NEW t \in Thread, NEW a \in Allocator, AllocLock(t, a)
  PROVE  SlabInv'
<1> USE NoneIs DEF AllocLock, Lock, GoTo
<1>1. SlabTypes'
  BY StateIs DEF SlabTypes, Locked
<1>2. ptr[t] = 0
  BY StateIs DEF CallsInv, Calls
<1>3. CallsInv'
  BY StateIs DEF SlabTypes, CallsInv, Calls, Locked, Opened
<1>4. PagesInv'
  BY StateIs, PagesStay
<1>5. ObjectsInv'
  BY <1>2, StateIs, ObjectsStay
<1>6. GrowsOnlyWhenFull'
  <2>1. \A u \in Thread : pc'[u] \in {"new", "carve", "add"} =>
          /\ pc[u] \in {"new", "carve", "add"}
          /\ alloc'[u] = alloc[u] /\ lock'[alloc[u]] = lock[alloc[u]]
    BY StateIs DEF SlabTypes, GrowsOnlyWhenFull
  <2> QED BY <2>1, StateIs, GrowthStays
<1> QED BY <1>1, <1>3, <1>4, <1>5, <1>6 DEF SlabInv

LEMMA NewPageStep ==
  ASSUME SlabInv, NEW t \in Thread, NewPage(t)
  PROVE  SlabInv'
<1> USE DEF GoTo
<1>1. PICK p \in memory : memory' = memory \ {p} /\ page' = [page EXCEPT ![t] = p]
                            /\ pc' = [pc EXCEPT ![t] = "carve"]
  BY DEF NewPage
<1>2. /\ pc[t] = "new"
      /\ UNCHANGED <<elsewhere, slabs, free, page_descr, lock, alloc, ptr, objects>>
  BY DEF NewPage
<1>3. p \in Page /\ p # 0 /\ page[t] = 0
  BY <1>1, <1>2, StateIs, SlabAssumption DEF SlabTypes, CallsInv, Calls
<1>4. SlabTypes'
  BY <1>1, <1>2, <1>3, StateIs DEF SlabTypes, Locked
<1>5. CallsInv'
  <2>1. pc[t] # "idle" /\ lock[alloc[t]] = t /\ slabs[alloc[t]] # <<>> /\ ptr[t] = 0
    BY <1>2, StateIs DEF CallsInv, Calls, Locked
  <2>2. Calls(t)'
    BY <1>1, <1>2, <1>3, <2>1, StateIs DEF CallsInv, Calls, Locked
  <2>3. \A u \in Thread \ {t} : Calls(u)'
    BY <1>1, <1>2, StateIs DEF CallsInv, Calls
  <2>4. \A a \in Allocator : lock[a] # None => pc'[lock[a]] \in Locked
    BY <1>1, <1>2, StateIs DEF CallsInv, Locked
  <2> QED BY <1>2, <2>2, <2>3, <2>4, StateIs DEF CallsInv
<1>6. PagesInv'
  <2>1. \A b : Pages(b)' = Pages(b)
    BY <1>2 DEF Pages
  <2>2. \A u \in Thread : page[u] # p
    BY <1>1, <1>3, StateIs DEF PagesInv
  <2>3. \A a \in Allocator : IsInjective(slabs[a])
    BY StateIs DEF PagesInv
  <2>4. \A a \in Allocator : \A q \in Pages(a) :
          page_descr[q] = a /\ q \notin memory \cup elsewhere
    BY StateIs DEF PagesInv
  <2>5. \A u \in Thread : page[u] # 0 =>
          /\ page[u] \notin memory \cup elsewhere
          /\ \A a \in Allocator : page[u] \notin Pages(a)
          /\ \A v \in Thread : page[v] = page[u] => v = u
    BY StateIs DEF PagesInv
  <2>6. p \notin elsewhere /\ memory' \cup elsewhere' \subseteq memory \cup elsewhere
    BY <1>1, <1>2, StateIs DEF SlabTypes
  <2>7. \A a \in Allocator : p \notin Pages(a)
    BY <1>1, <2>4
  <2>8. page'[t] = p /\ \A u \in Thread \ {t} : page'[u] = page[u]
    BY <1>1, StateIs
  <2>9. \A u \in Thread : page'[u] # 0 =>
          /\ page'[u] \notin memory' \cup elsewhere'
          /\ \A a \in Allocator : page'[u] \notin Pages(a)
          /\ \A v \in Thread : page'[v] = page'[u] => v = u
    BY <1>1, <1>2, <2>2, <2>5, <2>6, <2>7, <2>8
  <2> QED BY <1>2, <2>1, <2>3, <2>4, <2>6, <2>9 DEF PagesInv
<1>7. ObjectsInv'
  BY <1>1, <1>2, StateIs, ObjectsStay
<1>8. GrowsOnlyWhenFull'
  BY <1>1, <1>2, StateIs, GrowthStays
<1> QED BY <1>4, <1>5, <1>6, <1>7, <1>8 DEF SlabInv

LEMMA NoPageStep ==
  ASSUME SlabInv, NEW t \in Thread, NoPage(t)
  PROVE  SlabInv'
<1> USE DEF NoPage, GoTo
<1>1. ptr[t] = 0 /\ ptr' = ptr
  <2>1. ptr[t] = 0
    BY StateIs DEF CallsInv, Calls
  <2> QED BY <2>1, StateIs DEF SlabTypes
<1>2. SlabTypes'
  BY StateIs DEF SlabTypes, Locked
<1>3. CallsInv'
  BY <1>1, StateIs DEF CallsInv, Calls, Locked
<1>4. PagesInv'
  BY StateIs, PagesStay
<1>5. ObjectsInv'
  BY <1>1, StateIs, ObjectsStay
<1>6. GrowsOnlyWhenFull'
  BY StateIs, GrowthStays
<1> QED BY <1>2, <1>3, <1>4, <1>5, <1>6 DEF SlabInv

(* __slab_alloc's loop finds a slab if there is one.                       *)
LEMMA FirstUsable ==
  ASSUME SlabTypes, NEW a \in Allocator, Usable(a) # {}
  PROVE  LET p == slabs[a][Min(Usable(a))] IN p \in Pages(a) /\ free[p] # <<>>
<1> DEFINE T == Usable(a)
           R == OpToRel(<, Nat)
<1>1. IsWellFoundedOn(R, Nat)
  BY NatLessThanWellFounded
<1>2. \A x, y \in Nat : <<y, x>> \in R <=> y < x
  BY DEF OpToRel
<1>3. T \subseteq Nat /\ T \subseteq DOMAIN slabs[a] /\ \A k \in T : free[slabs[a][k]] # <<>>
  <2>1. slabs[a] \in Seq(Page)
    BY DEF SlabTypes
  <2>2. DOMAIN slabs[a] \subseteq Nat
    BY <2>1
  <2> QED BY <2>2 DEF Usable
<1> HIDE DEF R, T
<1>4. PICK x \in T : \A y \in T : ~ (<<y, x>> \in R)
  BY <1>1, <1>3, WFMin DEF T
<1>5. ASSUME NEW k \in T PROVE x <= k
  <2>1. x \in Nat /\ k \in Nat /\ ~ (k < x)
    BY <1>2, <1>3, <1>4
  <2> QED BY <2>1
<1>6. Min(T) \in T
  BY <1>5 DEF Min
<1> QED BY <1>3, <1>6 DEF Pages, ToSet, T

(* Thread t takes the first object of page p.                              *)
LEMMA TakeObject ==
  ASSUME SlabInv, NEW t \in Thread, pc[t] \in Locked \ {"add"}, ptr[t] = 0,
         NEW p \in Pages(alloc[t]), free[p] # <<>>,
         ptr' = [ptr EXCEPT ![t] = Head(free[p])],
         free' = [free EXCEPT ![p] = Tail(@)],
         UNCHANGED <<slabs, objects, page_descr, alloc, page>>,
         \A u \in Thread : pc'[u] = "add" => pc[u] = "add"
  PROVE  ObjectsInv' /\ free' \in [Page -> Seq(Nat)] /\ ptr' \in [Thread -> Nat]
         /\ Head(free[p]) # 0
<1> DEFINE a == alloc[t]
           x == Head(free[p])
<1>1. a \in Allocator /\ p \in Page
  <2>1. a \in Allocator
    BY OwnersAre DEF Locked
  <2> QED BY <2>1, PagesAre DEF SlabInv
<1>2. /\ free \in [Page -> Seq(Nat)] /\ ptr \in [Thread -> Nat]
      /\ IsInjective(free[p]) /\ Available(p) \subseteq ObjectSet(a, p)
  BY <1>1 DEF SlabInv, SlabTypes, ObjectsInv
<1>3. /\ x \in Nat /\ x \in Available(p) /\ Tail(free[p]) \in Seq(Nat)
      /\ IsInjective(Tail(free[p])) /\ ToSet(Tail(free[p])) = Available(p) \ {x}
  <2>1. free[p] \in Seq(Nat) /\ IsInjective(free[p])
    BY <1>1, <1>2
  <2> QED BY <2>1, TailIs DEF Available
<1>4. /\ free'[p] = Tail(free[p]) /\ ToSet(free'[p]) = Available(p) \ {x}
      /\ \A q \in Page \ {p} : free'[q] = free[q] /\ ToSet(free'[q]) = Available(q)
      /\ free' \in [Page -> Seq(Nat)]
  BY <1>1, <1>2, <1>3 DEF Available
<1>5. x # 0 /\ PageOf(x) = p /\ x \in ObjectSet(a, p)
  BY <1>1, <1>2, <1>3, ObjectsAre
<1>6. ptr'[t] = x /\ (\A u \in Thread \ {t} : ptr'[u] = ptr[u]) /\ ptr' \in [Thread -> Nat]
  BY <1>2, <1>3
<1>7. \A b : Pages(b)' = Pages(b)
  BY DEF Pages
<1>8. \A b \in Allocator : \A q \in Pages(b) : q \in Page
  BY PagesAre DEF SlabInv
<1>9. \A o \in objects : o[1] # x
  BY <1>3, <1>5 DEF SlabInv, ObjectsInv
<1>10. \A u \in Thread : ptr[u] # x
  BY <1>3, <1>5 DEF SlabInv, ObjectsInv
<1> HIDE DEF x
<1>11. ASSUME NEW b \in Allocator, NEW q \in Pages(b)
       PROVE  /\ IsInjective(free'[q]) /\ ToSet(free'[q]) \subseteq ObjectSet(b, q)
              /\ \A y \in ObjectSet(b, q) : y \in ToSet(free'[q]) \/ <<y, b>> \in objects
                                               \/ \E u \in Thread : ptr'[u] = y
  <2>1. /\ IsInjective(free[q]) /\ Available(q) \subseteq ObjectSet(b, q)
        /\ \A y \in ObjectSet(b, q) : y \in Available(q) \/ <<y, b>> \in objects
                                         \/ \E u \in Thread : ptr[u] = y
    BY <1>11 DEF SlabInv, ObjectsInv
  <2>2. q \in Page
    BY <1>8, <1>11
  <2>3. IsInjective(free'[q]) /\ ToSet(free'[q]) \subseteq ObjectSet(b, q)
    BY <1>3, <1>4, <2>1, <2>2
  <2>4. ASSUME NEW y \in ObjectSet(b, q)
        PROVE  y \in ToSet(free'[q]) \/ <<y, b>> \in objects \/ \E u \in Thread : ptr'[u] = y
    <3>1. y # 0
      BY <2>2, ObjectsAre
    <3>2. CASE y \in Available(q)
      BY <1>4, <1>6, <2>2, <3>2
    <3>3. CASE \E u \in Thread : ptr[u] = y
      BY <1>6, <3>1, <3>3
    <3> QED BY <2>1, <3>2, <3>3
  <2> QED BY <2>3, <2>4
<1>12. ASSUME NEW u \in Thread, pc'[u] = "add"
       PROVE  free'[page[u]] = Objects(alloc[u], page[u]) /\ page_descr[page[u]] = alloc[u]
  <2>1. pc[u] = "add" /\ page[u] # 0
    BY <1>12 DEF SlabInv, CallsInv, Calls
  <2>2. page[u] # p /\ page[u] \in Page
    BY <1>1, <2>1 DEF SlabInv, SlabTypes, PagesInv
  <2> QED BY <1>4, <2>1, <2>2 DEF SlabInv, ObjectsInv
<1>13. ASSUME NEW o \in objects
       PROVE  /\ PageOf(o[1]) \in Pages(o[2]) /\ o[1] \in ObjectSet(o[2], PageOf(o[1]))
              /\ o[1] \notin ToSet(free'[PageOf(o[1])])
              /\ \A u \in Thread : ptr'[u] # o[1]
  <2>1. /\ PageOf(o[1]) \in Pages(o[2]) /\ o[1] \in ObjectSet(o[2], PageOf(o[1]))
        /\ o[1] \notin Available(PageOf(o[1]))
        /\ \A u \in Thread : ptr[u] # o[1]
    BY DEF SlabInv, ObjectsInv
  <2>2. PageOf(o[1]) \in Page
    BY <1>8, <2>1, OwnersAre
  <2>3. o[1] \notin ToSet(free'[PageOf(o[1])])
    BY <1>4, <2>1, <2>2
  <2>4. \A u \in Thread : ptr'[u] # o[1]
    BY <1>6, <1>9, <2>1
  <2> QED BY <2>1, <2>3, <2>4
<1>14. ASSUME NEW u \in Thread, ptr'[u] # 0
       PROVE  /\ PageOf(ptr'[u]) \in Pages(alloc[u])
              /\ ptr'[u] \in ObjectSet(alloc[u], PageOf(ptr'[u]))
              /\ ptr'[u] \notin ToSet(free'[PageOf(ptr'[u])])
              /\ \A v \in Thread : ptr'[v] = ptr'[u] => v = u
  <2>1. CASE u = t
    <3>1. ptr'[u] = x /\ PageOf(x) \in Pages(a) /\ x \in ObjectSet(a, PageOf(x))
      BY <1>5, <1>6, <2>1
    <3>2. x \notin ToSet(free'[PageOf(x)])
      BY <1>4, <1>5
    <3>3. \A v \in Thread : ptr'[v] = x => v = u
      BY <1>6, <1>10, <2>1
    <3> QED BY <2>1, <3>1, <3>2, <3>3
  <2>2. CASE u # t
    <3>1. ptr'[u] = ptr[u] /\ ptr[u] # 0
      BY <1>6, <1>14, <2>2
    <3>2. /\ PageOf(ptr[u]) \in Pages(alloc[u])
          /\ ptr[u] \in ObjectSet(alloc[u], PageOf(ptr[u]))
          /\ ptr[u] \notin Available(PageOf(ptr[u]))
          /\ \A v \in Thread : ptr[v] = ptr[u] => v = u
      BY <3>1 DEF SlabInv, ObjectsInv
    <3>3. PageOf(ptr[u]) \in Page
      BY <1>8, <3>1, <3>2, OwnersAre
    <3>4. ptr[u] \notin ToSet(free'[PageOf(ptr[u])])
      BY <1>4, <3>2, <3>3
    <3>5. \A v \in Thread : ptr'[v] = ptr[u] => v = u
      BY <1>6, <1>10, <3>2
    <3> QED BY <3>1, <3>2, <3>4, <3>5
  <2> QED BY <2>1, <2>2
<1>15. ObjectsInv'
  BY <1>7, <1>11, <1>12, <1>13, <1>14 DEF ObjectsInv, Available
<1> QED BY <1>4, <1>5, <1>6, <1>15 DEF x

(* A step of t that leaves the locks and the lists of slabs alone.         *)
LEMMA CallsKept ==
  ASSUME SlabTypes, CallsInv, NEW t \in Thread, Calls(t)', UNCHANGED <<lock, slabs, alloc>>,
         objects' \subseteq objects, pc'[t] \in Locked <=> pc[t] \in Locked,
         \A u \in Thread \ {t} : pc'[u] = pc[u] /\ ptr'[u] = ptr[u] /\ page'[u] = page[u]
  PROVE  CallsInv'
<1>1. ASSUME NEW u \in Thread \ {t} PROVE Calls(u)'
  <2>1. Calls(u)
    BY DEF CallsInv
  <2>2. pc'[u] = pc[u] /\ ptr'[u] = ptr[u] /\ page'[u] = page[u]
    OBVIOUS
  <2> QED BY <2>1, <2>2 DEF Calls
<1>2. ASSUME NEW a \in Allocator, lock[a] # None
      PROVE  alloc[lock[a]] = a /\ pc'[lock[a]] \in Locked
  <2>1. alloc[lock[a]] = a /\ pc[lock[a]] \in Locked
    BY <1>2 DEF CallsInv
  <2>2. lock[a] \in Thread
    BY <1>2 DEF SlabTypes
  <2> QED BY <2>1, <2>2
<1> QED BY <1>1, <1>2 DEF CallsInv

LEMMA ScanStep ==
  ASSUME SlabInv, NEW t \in Thread, Scan(t)
  PROVE  SlabInv'
<1> DEFINE a == alloc[t]
           p == slabs[a][Min(Usable(a))]
<1>1. /\ pc[t] = "scan"
      /\ UNCHANGED <<memory, elsewhere, slabs, page_descr, lock, alloc, page, objects>>
  BY DEF Scan
<1>2. a \in Allocator /\ a # None /\ lock[a] = t /\ ptr[t] = 0 /\ page[t] = 0 /\ slabs[a] # <<>>
  <2>1. Calls(t)
    BY StateIs DEF CallsInv
  <2> QED BY <1>1, <2>1, OwnersAre, NoneIs DEF Calls, Locked
<1>3. PagesInv'
  BY <1>1, StateIs, PagesStay
<1>4. CASE Usable(a) = {}
  <2>1. pc' = [pc EXCEPT ![t] = "new"] /\ ptr' = ptr /\ free' = free
    BY <1>4 DEF Scan, GoTo
  <2>2. SlabTypes'
    BY <1>1, <2>1, StateIs DEF SlabTypes, Locked
  <2>3. Calls(t)'
    BY <1>1, <1>2, <2>1, StateIs DEF Calls, Locked
  <2>4. CallsInv'
    BY <1>1, <2>1, <2>3, StateIs, CallsKept DEF Locked
  <2>5. ObjectsInv'
    BY <1>1, <2>1, StateIs, ObjectsStay
  <2>6. \A q \in Pages(a) : free[q] = <<>>
    BY <1>4 DEF Usable, Pages, ToSet
  <2>7. GrowsOnlyWhenFull'
    <3>1. \A b : Pages(b)' = Pages(b)
      BY <1>1 DEF Pages
    <3>2. pc'[t] = "new" /\ \A u \in Thread \ {t} : pc'[u] = pc[u]
      BY <2>1, StateIs
    <3> QED BY <1>1, <1>2, <2>1, <2>6, <3>1, <3>2, StateIs DEF GrowsOnlyWhenFull
  <2> QED BY <1>3, <2>2, <2>4, <2>5, <2>7 DEF SlabInv
<1>5. CASE Usable(a) # {}
  <2>1. /\ pc' = [pc EXCEPT ![t] = "unlock"]
        /\ ptr' = [ptr EXCEPT ![t] = Head(free[p])]
        /\ free' = [free EXCEPT ![p] = Tail(@)]
    BY <1>5 DEF Scan, GoTo
  <2>2. p \in Pages(a) /\ free[p] # <<>>
    BY <1>2, <1>5, StateIs, FirstUsable
  <2> HIDE DEF p
  <2>3. pc'[t] = "unlock" /\ \A u \in Thread \ {t} : pc'[u] = pc[u]
    BY <2>1, StateIs
  <2>4. /\ ObjectsInv' /\ free' \in [Page -> Seq(Nat)] /\ ptr' \in [Thread -> Nat]
        /\ Head(free[p]) # 0
    BY <1>1, <1>2, <2>1, <2>2, <2>3, TakeObject DEF Locked
  <2>5. SlabTypes'
    BY <1>1, <2>1, <2>4, StateIs DEF SlabTypes, Locked
  <2>6. Calls(t)'
    BY <1>1, <1>2, <2>3, StateIs DEF Calls, Locked
  <2>7. CallsInv'
    BY <1>1, <2>1, <2>3, <2>6, StateIs, CallsKept DEF Locked
  <2>8. ASSUME NEW u \in Thread, pc'[u] \in {"new", "carve", "add"}
        PROVE  lock[alloc[u]] = u /\ \A q \in Pages(alloc[u]) : free'[q] = <<>>
    <3>1. u # t /\ lock[alloc[u]] = u /\ \A q \in Pages(alloc[u]) : free[q] = <<>>
      BY <2>3, <2>8, StateIs DEF GrowsOnlyWhenFull
    <3>2. p \notin Pages(alloc[u])
      BY <2>2, <3>1
    <3> QED BY <2>1, <3>1, <3>2, StateIs DEF SlabTypes
  <2>9. GrowsOnlyWhenFull'
    <3>1. \A b : Pages(b)' = Pages(b)
      BY <1>1 DEF Pages
    <3> QED BY <1>1, <2>8, <3>1 DEF GrowsOnlyWhenFull
  <2> QED BY <1>3, <2>4, <2>5, <2>7, <2>9 DEF SlabInv
<1> QED BY <1>4, <1>5

LEMMA CarveStep ==
  ASSUME SlabInv, NEW t \in Thread, Carve(t)
  PROVE  SlabInv'
<1> DEFINE a == alloc[t]
           p == page[t]
<1>1. /\ pc[t] = "carve" /\ free' = [free EXCEPT ![p] = Objects(a, p)]
      /\ page_descr' = [page_descr EXCEPT ![p] = a] /\ pc' = [pc EXCEPT ![t] = "add"]
      /\ UNCHANGED <<memory, elsewhere, slabs, lock, alloc, ptr, page, objects>>
  BY DEF Carve, GoTo
<1>2. /\ a \in Allocator /\ p \in Page /\ p # 0 /\ ptr[t] = 0
      /\ lock[a] = t /\ slabs[a] # <<>>
  <2>1. Calls(t)
    BY StateIs DEF CallsInv
  <2>2. p \in Page \cup {0}
    BY StateIs DEF SlabTypes
  <2> QED BY <1>1, <2>1, <2>2, OwnersAre, NoneIs DEF Calls, Locked
<1>3. pc'[t] = "add" /\ \A u \in Thread \ {t} : pc'[u] = pc[u]
  BY <1>1, StateIs
<1>4. \A b : Pages(b)' = Pages(b)
  BY <1>1 DEF Pages
<1>5. (\A b \in Allocator : p \notin Pages(b)) /\ \A u \in Thread \ {t} : page[u] # p
  BY <1>2, StateIs DEF PagesInv
<1>6. \A b \in Allocator : \A q \in Pages(b) : q \in Page /\ q # p
  BY <1>5, StateIs, PagesAre
<1>7. Objects(a, p) \in Seq(Nat)
  BY <1>2, ObjectsAre
<1>8. SlabTypes'
  BY <1>1, <1>2, <1>7, StateIs DEF SlabTypes, Locked
<1> HIDE DEF p
<1>9. /\ free'[p] = Objects(a, p) /\ \A q \in Page \ {p} : free'[q] = free[q]
      /\ page_descr'[p] = a /\ \A q \in Page \ {p} : page_descr'[q] = page_descr[q]
  BY <1>1, <1>2, StateIs DEF SlabTypes
<1>10. CallsInv'
  <2>1. Calls(t)'
    <3>1. /\ pc'[t] = "add" /\ alloc'[t] # None /\ lock'[alloc'[t]] = t /\ ptr'[t] = 0
          /\ page'[t] # 0 /\ slabs'[alloc'[t]] # <<>>
      BY <1>1, <1>2, <1>3, NoneIs DEF p
    <3> QED BY <3>1 DEF Calls, Locked
  <2> QED BY <1>1, <1>3, <2>1, StateIs, CallsKept DEF Locked
<1>11. PagesInv'
  BY <1>1, <1>4, <1>6, <1>9, StateIs DEF PagesInv
<1>12. ObjectsInv'
  <2>1. \A b \in Allocator : \A q \in Pages(b) : free'[q] = free[q]
    BY <1>6, <1>9
  <2>2. ASSUME NEW u \in Thread, pc'[u] = "add"
        PROVE  free'[page[u]] = Objects(alloc[u], page[u]) /\ page_descr'[page[u]] = alloc[u]
    <3>1. CASE u = t
      BY <1>9, <3>1 DEF p
    <3>2. CASE u # t
      <4>1. pc[u] = "add" /\ page[u] # p
        BY <1>3, <1>5, <2>2, <3>2
      <4>2. page[u] \in Page
        BY <4>1, StateIs DEF SlabTypes, CallsInv, Calls
      <4> QED BY <1>9, <4>1, <4>2, StateIs DEF ObjectsInv
    <3> QED BY <3>1, <3>2
  <2>3. \A o \in objects : o[2] \in Allocator /\ PageOf(o[1]) \in Pages(o[2])
    BY OwnersAre, StateIs DEF ObjectsInv
  <2>4. \A u \in Thread : ptr[u] # 0 => alloc[u] \in Allocator /\ PageOf(ptr[u]) \in Pages(alloc[u])
    BY OwnersAre, StateIs DEF ObjectsInv
  <2>5. \A b \in Allocator : \A q \in Pages(b) : ToSet(free'[q]) = ToSet(free[q])
    BY <2>1
  <2>6. \A b \in Allocator : \A q \in Pages(b) :
          /\ IsInjective(free'[q]) /\ ToSet(free'[q]) \subseteq ObjectSet(b, q)
          /\ \A x \in ObjectSet(b, q) :
               x \in ToSet(free'[q]) \/ <<x, b>> \in objects \/ \E u \in Thread : ptr[u] = x
    BY <2>1, <2>5, StateIs DEF ObjectsInv, Available
  <2>7. \A o \in objects :
          /\ PageOf(o[1]) \in Pages(o[2]) /\ o[1] \in ObjectSet(o[2], PageOf(o[1]))
          /\ o[1] \notin ToSet(free'[PageOf(o[1])])
          /\ \A u \in Thread : ptr[u] # o[1]
    BY <2>3, <2>5, StateIs DEF ObjectsInv, Available
  <2>8. \A u \in Thread : ptr[u] # 0 =>
          /\ PageOf(ptr[u]) \in Pages(alloc[u]) /\ ptr[u] \in ObjectSet(alloc[u], PageOf(ptr[u]))
          /\ ptr[u] \notin ToSet(free'[PageOf(ptr[u])])
          /\ \A v \in Thread : ptr[v] = ptr[u] => v = u
    BY <2>4, <2>5, StateIs DEF ObjectsInv, Available
  <2> QED BY <1>1, <1>4, <2>2, <2>6, <2>7, <2>8 DEF ObjectsInv, Available
<1>13. GrowsOnlyWhenFull'
  <2>1. ASSUME NEW u \in Thread, pc'[u] \in {"new", "carve", "add"}
        PROVE  lock[alloc[u]] = u /\ \A q \in Pages(alloc[u]) : free'[q] = <<>>
    <3>1. pc[u] \in {"new", "carve", "add"} /\ alloc[u] \in Allocator
      BY <1>1, <1>3, <2>1, OwnersAre
    <3> QED BY <1>6, <1>9, <3>1, StateIs DEF GrowsOnlyWhenFull
  <2> QED BY <1>1, <1>4, <2>1 DEF GrowsOnlyWhenFull
<1> QED BY <1>8, <1>10, <1>11, <1>12, <1>13 DEF SlabInv

LEMMA AddStep ==
  ASSUME SlabInv, NEW t \in Thread, Add(t)
  PROVE  SlabInv'
<1> DEFINE a == alloc[t]
           p == page[t]
           x == Head(free[p])
<1>1. /\ pc[t] = "add" /\ slabs' = [slabs EXCEPT ![a] = <<p>> \o @]
      /\ ptr' = [ptr EXCEPT ![t] = x] /\ free' = [free EXCEPT ![p] = Tail(@)]
      /\ page' = [page EXCEPT ![t] = 0] /\ pc' = [pc EXCEPT ![t] = "unlock"]
      /\ UNCHANGED <<memory, elsewhere, page_descr, lock, alloc, objects>>
  BY DEF Add, GoTo
<1>2. /\ a \in Allocator /\ p \in Page /\ p # 0 /\ ptr[t] = 0 /\ lock[a] = t
      /\ free[p] = Objects(a, p) /\ page_descr[p] = a
  <2>1. Calls(t)
    BY StateIs DEF CallsInv
  <2>2. p \in Page \cup {0}
    BY StateIs DEF SlabTypes
  <2>3. free[p] = Objects(a, p) /\ page_descr[p] = a
    BY <1>1, StateIs DEF ObjectsInv
  <2> QED BY <1>1, <2>1, <2>2, <2>3, OwnersAre, NoneIs DEF Calls, Locked
<1>3. /\ pc'[t] = "unlock" /\ \A u \in Thread \ {t} : pc'[u] = pc[u]
      /\ ptr'[t] = x /\ \A u \in Thread \ {t} : ptr'[u] = ptr[u]
      /\ page'[t] = 0 /\ \A u \in Thread \ {t} : page'[u] = page[u]
  BY <1>1, StateIs
<1>4. /\ p \notin memory \cup elsewhere /\ (\A b \in Allocator : p \notin Pages(b))
      /\ \A u \in Thread \ {t} : page[u] # p
  BY <1>2, StateIs DEF PagesInv
<1>5. slabs[a] \in Seq(Page) /\ IsInjective(slabs[a])
  BY <1>2, StateIs DEF SlabTypes, PagesInv
<1>6. /\ <<p>> \o slabs[a] \in Seq(Page) /\ <<p>> \o slabs[a] # <<>>
      /\ ToSet(<<p>> \o slabs[a]) = {p} \cup Pages(a) /\ IsInjective(<<p>> \o slabs[a])
  <2>1. p \notin ToSet(slabs[a])
    BY <1>2, <1>4 DEF Pages
  <2> QED BY <1>2, <1>5, <2>1, PrependIs DEF Pages
<1>7. /\ x \in Nat /\ x # 0 /\ PageOf(x) = p /\ x \in ObjectSet(a, p)
      /\ Tail(free[p]) \in Seq(Nat) /\ IsInjective(Tail(free[p]))
      /\ ToSet(Tail(free[p])) = ObjectSet(a, p) \ {x}
  <2>1. /\ free[p] \in Seq(Nat) /\ free[p] # <<>> /\ IsInjective(free[p])
        /\ ToSet(free[p]) = ObjectSet(a, p)
        /\ \A y \in ObjectSet(a, p) : y \in Nat /\ y # 0 /\ PageOf(y) = p
    BY <1>2, ObjectsAre DEF ObjectSet
  <2> HIDE DEF p, a
  <2>2. /\ x \in Nat /\ x \in ToSet(free[p]) /\ Tail(free[p]) \in Seq(Nat)
        /\ IsInjective(Tail(free[p])) /\ ToSet(Tail(free[p])) = ToSet(free[p]) \ {x}
    BY <2>1, TailIs
  <2> QED BY <2>1, <2>2
<1> HIDE DEF x, p
<1>8. /\ slabs'[a] = <<p>> \o slabs[a] /\ (\A b \in Allocator \ {a} : slabs'[b] = slabs[b])
      /\ slabs' \in [Allocator -> Seq(Page)]
  BY <1>1, <1>2, <1>6, StateIs DEF SlabTypes
<1>9. /\ free'[p] = Tail(free[p]) /\ (\A q \in Page \ {p} : free'[q] = free[q])
      /\ free' \in [Page -> Seq(Nat)]
  BY <1>1, <1>2, <1>7, StateIs DEF SlabTypes
<1>10. ToSet(slabs'[a]) = {p} \cup Pages(a) /\ \A b \in Allocator \ {a} : ToSet(slabs'[b]) = Pages(b)
  BY <1>1, <1>6, <1>8 DEF Pages
<1>11. \A b \in Allocator : \A q \in Pages(b) : q \in Page /\ q # p /\ q \in ToSet(slabs'[b])
  BY <1>4, <1>10, StateIs, PagesAre
<1>12. \A b \in Allocator : \A q \in ToSet(slabs'[b]) : q \in Pages(b) \/ (b = a /\ q = p)
  BY <1>10
<1>13. SlabTypes'
  <2>1. ptr' \in [Thread -> Nat] /\ page' \in [Thread -> Page \cup {0}]
    BY <1>1, <1>7, StateIs DEF SlabTypes
  <2> QED BY <1>1, <1>8, <1>9, <2>1, StateIs DEF SlabTypes, Locked
<1>14. CallsInv'
  <2>1. Calls(t)'
    <3>1. /\ pc'[t] = "unlock" /\ alloc'[t] # None /\ lock'[alloc'[t]] = t
          /\ page'[t] = 0 /\ slabs'[alloc'[t]] # <<>>
      BY <1>1, <1>2, <1>3, <1>6, <1>8, NoneIs
    <3> QED BY <3>1 DEF Calls, Locked
  <2>2. ASSUME NEW u \in Thread \ {t} PROVE Calls(u)'
    <3>1. Calls(u) /\ (pc[u] # "idle" => alloc[u] \in Allocator)
      BY StateIs, OwnersAre DEF CallsInv
    <3>2. pc[u] # "idle" => slabs'[alloc[u]] # <<>>
      BY <1>6, <1>8, <3>1 DEF Calls
    <3>3. pc'[u] = pc[u] /\ ptr'[u] = ptr[u] /\ page'[u] = page[u]
      BY <1>3
    <3> QED BY <1>1, <3>1, <3>2, <3>3 DEF Calls
  <2>3. ASSUME NEW b \in Allocator, lock[b] # None
        PROVE  alloc[lock[b]] = b /\ pc'[lock[b]] \in Locked
    <3>1. alloc[lock[b]] = b /\ pc[lock[b]] \in Locked /\ lock[b] \in Thread
      BY <2>3, StateIs DEF CallsInv, SlabTypes
    <3> QED BY <1>3, <3>1 DEF Locked
  <2> QED BY <1>1, <2>1, <2>2, <2>3 DEF CallsInv
<1>15. PagesInv'
  <2>1. \A b \in Allocator : IsInjective(slabs'[b])
    BY <1>6, <1>8, StateIs DEF PagesInv
  <2>2. \A b \in Allocator : \A q \in ToSet(slabs'[b]) : page_descr[q] = b /\ q \notin memory \cup elsewhere
    BY <1>2, <1>4, <1>12, StateIs DEF PagesInv
  <2>3. ASSUME NEW u \in Thread, page'[u] # 0
        PROVE  /\ page'[u] \notin memory \cup elsewhere
               /\ \A b \in Allocator : page'[u] \notin ToSet(slabs'[b])
               /\ \A v \in Thread : page'[v] = page'[u] => v = u
    <3>1. u # t /\ page'[u] = page[u] /\ page[u] # p /\ page[u] # 0
      BY <1>3, <1>4, <2>3
    <3>2. /\ page[u] \notin memory \cup elsewhere
          /\ \A b \in Allocator : page[u] \notin Pages(b)
          /\ \A v \in Thread : page[v] = page[u] => v = u
      BY <3>1, StateIs DEF PagesInv
    <3>3. \A b \in Allocator : page[u] \notin ToSet(slabs'[b])
      BY <1>12, <3>1, <3>2
    <3>4. \A v \in Thread : page'[v] = page[u] => v = u
      BY <1>3, <3>1, <3>2
    <3> QED BY <3>1, <3>2, <3>3, <3>4
  <2> QED BY <1>1, <2>1, <2>2, <2>3 DEF PagesInv, Pages
<1>16. \A o \in objects : o[2] \in Allocator /\ PageOf(o[1]) \in Pages(o[2])
                            /\ PageOf(o[1]) # p /\ PageOf(o[1]) \in Page
  BY <1>11, OwnersAre, StateIs DEF ObjectsInv
<1>17. \A u \in Thread : ptr[u] # 0 => alloc[u] \in Allocator /\ PageOf(ptr[u]) \in Pages(alloc[u])
                                         /\ PageOf(ptr[u]) # p /\ PageOf(ptr[u]) \in Page
  BY <1>11, OwnersAre, StateIs DEF ObjectsInv
<1>18. ObjectsInv'
  <2>1. ASSUME NEW b \in Allocator, NEW q \in ToSet(slabs'[b])
        PROVE  /\ IsInjective(free'[q]) /\ ToSet(free'[q]) \subseteq ObjectSet(b, q)
               /\ \A y \in ObjectSet(b, q) :
                    y \in ToSet(free'[q]) \/ <<y, b>> \in objects \/ \E u \in Thread : ptr'[u] = y
    <3>1. CASE q \in Pages(b)
      <4>1. free'[q] = free[q] /\ q \in Page
        BY <1>9, <1>11, <3>1
      <4>2. /\ IsInjective(free[q]) /\ ToSet(free[q]) \subseteq ObjectSet(b, q)
            /\ \A y \in ObjectSet(b, q) :
                 y \in ToSet(free[q]) \/ <<y, b>> \in objects \/ \E u \in Thread : ptr[u] = y
        BY <3>1, StateIs DEF ObjectsInv, Available
      <4>3. ASSUME NEW y \in ObjectSet(b, q), \E u \in Thread : ptr[u] = y
            PROVE  \E u \in Thread : ptr'[u] = y
        <5>1. y # 0
          BY <4>1, ObjectsAre
        <5> QED BY <1>2, <1>3, <4>3, <5>1
      <4> QED BY <4>1, <4>2, <4>3
    <3>2. CASE b = a /\ q = p
      BY <1>3, <1>7, <1>9, <3>2
    <3> QED BY <1>12, <3>1, <3>2
  <2>2. ASSUME NEW u \in Thread, pc'[u] = "add"
        PROVE  free'[page'[u]] = Objects(alloc[u], page'[u]) /\ page_descr[page'[u]] = alloc[u]
    <3>1. u # t /\ pc[u] = "add" /\ page'[u] = page[u] /\ page[u] # p
      BY <1>3, <1>4, <2>2
    <3>2. page[u] \in Page
      BY <3>1, StateIs DEF SlabTypes, CallsInv, Calls
    <3> QED BY <1>9, <3>1, <3>2, StateIs DEF ObjectsInv
  <2>3. ASSUME NEW o \in objects
        PROVE  /\ PageOf(o[1]) \in ToSet(slabs'[o[2]]) /\ o[1] \in ObjectSet(o[2], PageOf(o[1]))
               /\ o[1] \notin ToSet(free'[PageOf(o[1])])
               /\ \A u \in Thread : ptr'[u] # o[1]
    <3>1. /\ o[1] \in ObjectSet(o[2], PageOf(o[1])) /\ o[1] \notin ToSet(free[PageOf(o[1])])
          /\ \A u \in Thread : ptr[u] # o[1]
      BY StateIs DEF ObjectsInv, Available
    <3>2. o[1] # x
      BY <1>7, <1>16
    <3> QED BY <1>3, <1>9, <1>11, <1>16, <3>1, <3>2
  <2>4. ASSUME NEW u \in Thread, ptr'[u] # 0
        PROVE  /\ PageOf(ptr'[u]) \in ToSet(slabs'[alloc[u]])
               /\ ptr'[u] \in ObjectSet(alloc[u], PageOf(ptr'[u]))
               /\ ptr'[u] \notin ToSet(free'[PageOf(ptr'[u])])
               /\ \A v \in Thread : ptr'[v] = ptr'[u] => v = u
    <3>1. \A v \in Thread : ptr[v] # x
      BY <1>7, <1>17
    <3>2. CASE u = t
      <4>1. \A v \in Thread : ptr'[v] = x => v = u
        BY <1>3, <3>1, <3>2
      <4> QED BY <1>3, <1>7, <1>9, <1>10, <3>2, <4>1
    <3>3. CASE u # t
      <4>1. ptr'[u] = ptr[u] /\ ptr[u] # 0
        BY <1>3, <2>4, <3>3
      <4>2. /\ ptr[u] \in ObjectSet(alloc[u], PageOf(ptr[u]))
            /\ ptr[u] \notin ToSet(free[PageOf(ptr[u])])
            /\ \A v \in Thread : ptr[v] = ptr[u] => v = u
        BY <4>1, StateIs DEF ObjectsInv, Available
      <4>3. ptr[u] \notin ToSet(free'[PageOf(ptr[u])]) /\ PageOf(ptr[u]) \in ToSet(slabs'[alloc[u]])
        BY <1>9, <1>11, <1>17, <4>1, <4>2
      <4>4. \A v \in Thread : ptr'[v] = ptr[u] => v = u
        BY <1>3, <3>1, <4>2
      <4> QED BY <4>1, <4>2, <4>3, <4>4
    <3> QED BY <3>2, <3>3
  <2> QED BY <1>1, <2>1, <2>2, <2>3, <2>4 DEF ObjectsInv, Available, Pages
<1>19. GrowsOnlyWhenFull'
  <2>1. ASSUME NEW u \in Thread, pc'[u] \in {"new", "carve", "add"}
        PROVE  lock[alloc[u]] = u /\ \A q \in ToSet(slabs'[alloc[u]]) : free'[q] = <<>>
    <3>1. u # t /\ pc[u] \in {"new", "carve", "add"} /\ alloc[u] \in Allocator
      BY <1>3, <2>1, OwnersAre
    <3>2. lock[alloc[u]] = u /\ \A q \in Pages(alloc[u]) : free[q] = <<>>
      BY <3>1, StateIs DEF GrowsOnlyWhenFull
    <3>3. alloc[u] # a
      BY <1>2, <3>1, <3>2
    <3> QED BY <1>9, <1>11, <1>12, <3>1, <3>2, <3>3
  <2> QED BY <1>1, <2>1 DEF GrowsOnlyWhenFull, Pages
<1> QED BY <1>13, <1>14, <1>15, <1>18, <1>19 DEF SlabInv

(* mutex_unlock, and the return from slab_alloc or slab_free.              *)
LEMMA CallReturns ==
  ASSUME SlabInv, NEW t \in Thread, pc[t] \in {"unlock", "return"},
         lock' = [lock EXCEPT ![alloc[t]] = None], ptr' = [ptr EXCEPT ![t] = 0],
         alloc' = [alloc EXCEPT ![t] = None], pc' = [pc EXCEPT ![t] = "idle"],
         UNCHANGED <<slabs, page>>,
         \A o \in objects' : o \in objects \/ o[2] = alloc[t]
  PROVE  /\ CallsInv'
         /\ lock' \in [Allocator -> Thread \cup {None}] /\ ptr' \in [Thread -> Nat]
         /\ alloc' \in [Thread -> Allocator \cup {None}]
         /\ pc' \in [Thread -> {"idle", "free", "finit"} \cup Locked]
<1> DEFINE a == alloc[t]
<1>1. /\ a \in Allocator /\ a # None /\ lock[a] = t /\ page[t] = 0
  <2>1. Calls(t)
    BY StateIs DEF CallsInv
  <2> QED BY <2>1, OwnersAre, NoneIs DEF Calls, Locked
<1>2. /\ pc'[t] = "idle" /\ alloc'[t] = None /\ ptr'[t] = 0 /\ lock'[a] = None
      /\ \A u \in Thread \ {t} : pc'[u] = pc[u] /\ alloc'[u] = alloc[u] /\ ptr'[u] = ptr[u]
      /\ \A b \in Allocator \ {a} : lock'[b] = lock[b]
  BY <1>1, StateIs
<1>3. Calls(t)'
  BY <1>1, <1>2 DEF Calls, Locked
<1>4. ASSUME NEW u \in Thread \ {t} PROVE Calls(u)'
  <2>1. Calls(u) /\ (pc[u] # "idle" => alloc[u] \in Allocator)
    BY StateIs, OwnersAre DEF CallsInv
  <2>2. pc'[u] = pc[u] /\ alloc'[u] = alloc[u] /\ ptr'[u] = ptr[u] /\ page'[u] = page[u]
    BY <1>2
  <2>3. pc[u] \in Locked => lock'[alloc[u]] = u
    BY <1>1, <1>2, <2>1 DEF Calls, Locked
  <2>4. ASSUME pc[u] = "finit"
        PROVE  /\ \A v \in Thread : alloc'[v] = alloc[u] => v = u
               /\ \A o \in objects' : o[2] # alloc[u]
    <3>1. /\ \A v \in Thread : alloc[v] = alloc[u] => v = u
          /\ \A o \in objects : o[2] # alloc[u]
          /\ alloc[u] \in Allocator
      BY <2>1, <2>4 DEF Calls
    <3>2. alloc[u] # a /\ alloc[u] # None
      BY <3>1, NoneIs
    <3> QED BY <1>2, <3>1, <3>2
  <2> QED BY <2>1, <2>2, <2>3, <2>4 DEF Calls
<1>5. ASSUME NEW b \in Allocator, lock'[b] # None
      PROVE  alloc'[lock'[b]] = b /\ pc'[lock'[b]] \in Locked
  <2>1. b # a /\ lock'[b] = lock[b]
    BY <1>2, <1>5
  <2>2. alloc[lock[b]] = b /\ pc[lock[b]] \in Locked /\ lock[b] \in Thread
    BY <1>5, <2>1, StateIs DEF CallsInv, SlabTypes
  <2>3. lock[b] # t
    BY <2>1, <2>2
  <2> QED BY <1>2, <2>1, <2>2, <2>3
<1>6. CallsInv'
  BY <1>3, <1>4, <1>5 DEF CallsInv
<1> QED BY <1>6, StateIs DEF SlabTypes

LEMMA AllocReturnStep ==
  ASSUME SlabInv, NEW t \in Thread, AllocReturn(t)
  PROVE  SlabInv'
<1> DEFINE a == alloc[t]
           x == ptr[t]
<1>1. /\ pc[t] = "unlock" /\ lock' = [lock EXCEPT ![alloc[t]] = None]
      /\ ptr' = [ptr EXCEPT ![t] = 0] /\ alloc' = [alloc EXCEPT ![t] = None]
      /\ pc' = [pc EXCEPT ![t] = "idle"]
      /\ UNCHANGED <<memory, elsewhere, slabs, free, page_descr, page>>
  BY DEF AllocReturn, Unlock, GoTo
<1>2. objects' = IF x = 0 THEN objects ELSE objects \cup {<<x, a>>}
  BY DEF AllocReturn
<1>3. a \in Allocator /\ x \in Nat
  BY <1>1, OwnersAre, StateIs DEF SlabTypes
<1>4. \A o \in objects' : o \in objects \/ (x # 0 /\ o = <<x, a>>)
  BY <1>2
<1>5. /\ CallsInv'
      /\ lock' \in [Allocator -> Thread \cup {None}] /\ ptr' \in [Thread -> Nat]
      /\ alloc' \in [Thread -> Allocator \cup {None}]
      /\ pc' \in [Thread -> {"idle", "free", "finit"} \cup Locked]
  <2>1. \A o \in objects' : o \in objects \/ o[2] = alloc[t]
    BY <1>4
  <2> QED BY <1>1, <2>1, CallReturns
<1>6. SlabTypes'
  BY <1>1, <1>2, <1>3, <1>5, StateIs DEF SlabTypes
<1>7. PagesInv'
  BY <1>1, StateIs, PagesStay
<1>8. /\ pc'[t] = "idle" /\ \A u \in Thread \ {t} : pc'[u] = pc[u] /\ alloc'[u] = alloc[u]
      /\ ptr'[t] = 0 /\ \A u \in Thread \ {t} : ptr'[u] = ptr[u]
  BY <1>1, StateIs
<1>9. x # 0 => /\ PageOf(x) \in Pages(a) /\ x \in ObjectSet(a, PageOf(x))
               /\ x \notin Available(PageOf(x)) /\ \A u \in Thread : ptr[u] = x => u = t
  BY StateIs DEF ObjectsInv
<1> HIDE DEF x, a
<1>10. ObjectsInv'
  <2>1. ASSUME NEW b \in Allocator, NEW q \in Pages(b)
        PROVE  /\ IsInjective(free[q]) /\ Available(q) \subseteq ObjectSet(b, q)
               /\ \A y \in ObjectSet(b, q) :
                    y \in Available(q) \/ <<y, b>> \in objects' \/ \E u \in Thread : ptr'[u] = y
    <3>1. /\ IsInjective(free[q]) /\ Available(q) \subseteq ObjectSet(b, q)
          /\ \A y \in ObjectSet(b, q) :
               y \in Available(q) \/ <<y, b>> \in objects \/ \E u \in Thread : ptr[u] = y
      BY <2>1, StateIs DEF ObjectsInv
    <3>2. q \in Page
      BY <2>1, StateIs, PagesAre
    <3>3. ASSUME NEW y \in ObjectSet(b, q), NEW u \in Thread, ptr[u] = y
          PROVE  <<y, b>> \in objects' \/ \E v \in Thread : ptr'[v] = y
      <4>1. y # 0 /\ PageOf(y) = q
        BY <3>2, ObjectsAre
      <4>2. CASE u = t
        <5>1. y = x /\ q \in Pages(a)
          BY <1>9, <3>3, <4>1, <4>2 DEF x
        <5>2. a = b
          BY <1>3, <2>1, <5>1, OwnersAre
        <5> QED BY <1>2, <4>1, <5>1, <5>2
      <4>3. CASE u # t
        BY <1>8, <3>3, <4>3
      <4> QED BY <4>2, <4>3
    <3>4. \A y : <<y, b>> \in objects => <<y, b>> \in objects'
      BY <1>2
    <3> QED BY <3>1, <3>3, <3>4
  <2>2. ASSUME NEW u \in Thread, pc'[u] = "add"
        PROVE  free[page[u]] = Objects(alloc'[u], page[u]) /\ page_descr[page[u]] = alloc'[u]
    BY <1>8, <2>2, StateIs DEF ObjectsInv
  <2>3. ASSUME NEW o \in objects'
        PROVE  /\ PageOf(o[1]) \in Pages(o[2]) /\ o[1] \in ObjectSet(o[2], PageOf(o[1]))
               /\ o[1] \notin Available(PageOf(o[1]))
               /\ \A u \in Thread : ptr'[u] # o[1]
    <3>1. CASE o \in objects
      <4>1. o[1] # 0
        BY <3>1, OwnersAre
      <4> QED BY <1>8, <3>1, <4>1, StateIs DEF ObjectsInv
    <3>2. CASE x # 0 /\ o = <<x, a>>
      <4>1. o[1] = x /\ o[2] = a
        BY <3>2
      <4>2. \A u \in Thread : ptr'[u] # x
        BY <1>8, <1>9, <3>2
      <4> QED BY <1>9, <3>2, <4>1, <4>2
    <3> QED BY <1>4, <2>3, <3>1, <3>2
  <2>4. ASSUME NEW u \in Thread, ptr'[u] # 0
        PROVE  /\ PageOf(ptr'[u]) \in Pages(alloc'[u])
               /\ ptr'[u] \in ObjectSet(alloc'[u], PageOf(ptr'[u]))
               /\ ptr'[u] \notin Available(PageOf(ptr'[u]))
               /\ \A v \in Thread : ptr'[v] = ptr'[u] => v = u
    <3>1. u # t /\ ptr'[u] = ptr[u] /\ alloc'[u] = alloc[u]
      BY <1>8, <2>4
    <3>2. \A v \in Thread : ptr'[v] = ptr[u] => v = u
      BY <1>8, <2>4, <3>1, StateIs DEF ObjectsInv
    <3> QED BY <2>4, <3>1, <3>2, StateIs DEF ObjectsInv
  <2> QED BY <1>1, <2>1, <2>2, <2>3, <2>4 DEF ObjectsInv, Available, Pages
<1>11. GrowsOnlyWhenFull'
  <2>1. ASSUME NEW u \in Thread, pc'[u] \in {"new", "carve", "add"}
        PROVE  /\ pc[u] \in {"new", "carve", "add"}
               /\ alloc'[u] = alloc[u] /\ lock'[alloc[u]] = lock[alloc[u]]
    <3>1. u # t /\ pc[u] \in {"new", "carve", "add"} /\ alloc'[u] = alloc[u]
      BY <1>8, <2>1
    <3>2. alloc[u] # alloc[t]
      <4>1. lock[alloc[u]] = u /\ lock[alloc[t]] = t
        BY <1>1, <3>1, StateIs DEF CallsInv, Calls, Locked
      <4> QED BY <3>1, <4>1
    <3>3. alloc[u] \in Allocator
      BY <3>1, OwnersAre
    <3> QED BY <1>1, <3>1, <3>2, <3>3, StateIs
  <2> QED BY <1>1, <2>1, StateIs, GrowthStays
<1> QED BY <1>5, <1>6, <1>7, <1>10, <1>11 DEF SlabInv

----------------------------------------------------------------------------
(* slab_free.                                                              *)

LEMMA FreeCallStep ==
  ASSUME SlabInv, NEW t \in Thread, FreeCall(t)
  PROVE  SlabInv'
<1>1. PICK o \in objects : /\ objects' = objects \ {o}
                           /\ ptr' = [ptr EXCEPT ![t] = o[1]]
                           /\ alloc' = [alloc EXCEPT ![t] = page_descr[PageOf(o[1])]]
  BY DEF FreeCall
<1> DEFINE x == o[1]
           b == o[2]
<1>2. /\ pc[t] = "idle" /\ pc' = [pc EXCEPT ![t] = "free"]
      /\ UNCHANGED <<memory, elsewhere, slabs, free, page_descr, lock, page>>
  BY DEF FreeCall, GoTo
<1>3. /\ o = <<x, b>> /\ x \in Nat /\ b \in Allocator /\ x # 0 /\ page_descr[PageOf(x)] = b
      /\ \A q \in objects : q[1] = x => q = o
  BY OwnersAre
<1>4. /\ PageOf(x) \in Pages(b) /\ x \in ObjectSet(b, PageOf(x)) /\ x \notin Available(PageOf(x))
      /\ \A u \in Thread : ptr[u] # x
  BY StateIs DEF ObjectsInv
<1> HIDE DEF x, b
<1>5. /\ pc'[t] = "free" /\ alloc'[t] = b /\ ptr'[t] = x
      /\ \A u \in Thread \ {t} : pc'[u] = pc[u] /\ alloc'[u] = alloc[u] /\ ptr'[u] = ptr[u]
  BY <1>1, <1>2, <1>3, StateIs DEF x
<1>6. alloc[t] = None /\ ptr[t] = 0 /\ page[t] = 0 /\ b # None
  <2>1. Calls(t)
    BY StateIs DEF CallsInv
  <2> QED BY <1>2, <1>3, <2>1, NoneIs DEF Calls
<1>7. SlabTypes'
  <2>1. ptr' \in [Thread -> Nat] /\ alloc' \in [Thread -> Allocator \cup {None}]
    BY <1>1, <1>3, StateIs DEF SlabTypes, x
  <2> QED BY <1>1, <1>2, <2>1, StateIs DEF SlabTypes, Locked
<1>8. CallsInv'
  <2>1. slabs[b] # <<>>
    BY <1>3, <1>4, StateIs, PagesAre
  <2>2. Calls(t)'
    BY <1>2, <1>3, <1>5, <1>6, <2>1 DEF Calls, Locked
  <2>3. ASSUME NEW u \in Thread \ {t} PROVE Calls(u)'
    <3>1. Calls(u)
      BY StateIs DEF CallsInv
    <3>2. pc'[u] = pc[u] /\ alloc'[u] = alloc[u] /\ ptr'[u] = ptr[u] /\ page'[u] = page[u]
      BY <1>2, <1>5
    <3>3. ASSUME pc[u] = "finit"
          PROVE  /\ \A v \in Thread : alloc'[v] = alloc[u] => v = u
                 /\ \A q \in objects' : q[2] # alloc[u]
      BY <1>1, <1>5, <3>1, <3>3 DEF Calls, b
    <3> QED BY <1>2, <3>1, <3>2, <3>3 DEF Calls
  <2>4. ASSUME NEW c \in Allocator, lock[c] # None
        PROVE  alloc'[lock[c]] = c /\ pc'[lock[c]] \in Locked
    <3>1. alloc[lock[c]] = c /\ pc[lock[c]] \in Locked /\ lock[c] \in Thread
      BY <2>4, StateIs DEF CallsInv, SlabTypes
    <3>2. lock[c] # t
      BY <1>2, <3>1 DEF Locked
    <3> QED BY <1>5, <3>1, <3>2
  <2> QED BY <1>2, <2>2, <2>3, <2>4 DEF CallsInv
<1>9. PagesInv'
  BY <1>2, StateIs, PagesStay
<1>10. ObjectsInv'
  <2>1. ASSUME NEW c \in Allocator, NEW q \in Pages(c)
        PROVE  /\ IsInjective(free[q]) /\ Available(q) \subseteq ObjectSet(c, q)
               /\ \A y \in ObjectSet(c, q) :
                    y \in Available(q) \/ <<y, c>> \in objects' \/ \E u \in Thread : ptr'[u] = y
    <3>1. /\ IsInjective(free[q]) /\ Available(q) \subseteq ObjectSet(c, q)
          /\ \A y \in ObjectSet(c, q) :
               y \in Available(q) \/ <<y, c>> \in objects \/ \E u \in Thread : ptr[u] = y
      BY <2>1, StateIs DEF ObjectsInv
    <3>2. q \in Page
      BY <2>1, StateIs, PagesAre
    <3>3. \A y \in ObjectSet(c, q) : y # 0
      BY <3>2, ObjectsAre
    <3>4. \A y : <<y, c>> \in objects => <<y, c>> \in objects' \/ y = x
      BY <1>1 DEF x
    <3>5. \A u \in Thread : ptr[u] # 0 => ptr'[u] = ptr[u]
      BY <1>5, <1>6
    <3> QED BY <1>5, <3>1, <3>3, <3>4, <3>5
  <2>2. ASSUME NEW u \in Thread, pc'[u] = "add"
        PROVE  free[page[u]] = Objects(alloc'[u], page[u]) /\ page_descr[page[u]] = alloc'[u]
    BY <1>5, <2>2, StateIs DEF ObjectsInv
  <2>3. ASSUME NEW q \in objects'
        PROVE  /\ PageOf(q[1]) \in Pages(q[2]) /\ q[1] \in ObjectSet(q[2], PageOf(q[1]))
               /\ q[1] \notin Available(PageOf(q[1]))
               /\ \A u \in Thread : ptr'[u] # q[1]
    <3>1. q \in objects /\ q[1] # x
      BY <1>1, <1>3, <2>3
    <3>2. \A u \in Thread : ptr[u] # q[1]
      BY <3>1, StateIs DEF ObjectsInv
    <3>3. \A u \in Thread : ptr'[u] # q[1]
      BY <1>5, <3>1, <3>2
    <3> QED BY <3>1, <3>3, StateIs DEF ObjectsInv
  <2>4. ASSUME NEW u \in Thread, ptr'[u] # 0
        PROVE  /\ PageOf(ptr'[u]) \in Pages(alloc'[u])
               /\ ptr'[u] \in ObjectSet(alloc'[u], PageOf(ptr'[u]))
               /\ ptr'[u] \notin Available(PageOf(ptr'[u]))
               /\ \A v \in Thread : ptr'[v] = ptr'[u] => v = u
    <3>1. CASE u = t
      <4>1. \A v \in Thread : ptr'[v] = x => v = u
        BY <1>4, <1>5, <3>1
      <4> QED BY <1>4, <1>5, <3>1, <4>1
    <3>2. CASE u # t
      <4>1. ptr'[u] = ptr[u] /\ alloc'[u] = alloc[u] /\ ptr[u] # 0
        BY <1>5, <2>4, <3>2
      <4>2. /\ PageOf(ptr[u]) \in Pages(alloc[u])
            /\ ptr[u] \in ObjectSet(alloc[u], PageOf(ptr[u]))
            /\ ptr[u] \notin Available(PageOf(ptr[u]))
            /\ \A v \in Thread : ptr[v] = ptr[u] => v = u
        BY <4>1, StateIs DEF ObjectsInv
      <4>3. \A v \in Thread : ptr'[v] = ptr[u] => v = u
        BY <1>4, <1>5, <4>2
      <4> QED BY <4>1, <4>2, <4>3
    <3> QED BY <3>1, <3>2
  <2> QED BY <1>2, <2>1, <2>2, <2>3, <2>4 DEF ObjectsInv, Available, Pages
<1>11. GrowsOnlyWhenFull'
  <2>1. \A u \in Thread : pc'[u] \in {"new", "carve", "add"} =>
          /\ pc[u] \in {"new", "carve", "add"}
          /\ alloc'[u] = alloc[u] /\ lock'[alloc[u]] = lock[alloc[u]]
    BY <1>2, <1>5
  <2> QED BY <1>2, <2>1, StateIs, GrowthStays
<1> QED BY <1>7, <1>8, <1>9, <1>10, <1>11 DEF SlabInv

LEMMA FreeLockStep ==
  ASSUME SlabInv, NEW t \in Thread, FreeLock(t)
  PROVE  SlabInv'
<1> DEFINE a == alloc[t]
<1>1. /\ pc[t] = "free" /\ lock[a] = None /\ lock' = [lock EXCEPT ![a] = t]
      /\ pc' = [pc EXCEPT ![t] = "return"]
      /\ UNCHANGED <<memory, elsewhere, slabs, free, page_descr, alloc, ptr, page, objects>>
  BY DEF FreeLock, Lock, GoTo
<1>2. a \in Allocator /\ a # None /\ ptr[t] # 0 /\ page[t] = 0 /\ slabs[a] # <<>>
  <2>1. Calls(t)
    BY StateIs DEF CallsInv
  <2> QED BY <1>1, <2>1, OwnersAre, NoneIs DEF Calls
<1>3. /\ pc'[t] = "return" /\ \A u \in Thread \ {t} : pc'[u] = pc[u]
      /\ lock'[a] = t /\ \A b \in Allocator \ {a} : lock'[b] = lock[b]
  BY <1>1, <1>2, StateIs
<1>4. SlabTypes'
  BY <1>1, StateIs DEF SlabTypes, Locked
<1>5. CallsInv'
  <2>1. Calls(t)'
    BY <1>1, <1>2, <1>3 DEF Calls, Locked
  <2>2. ASSUME NEW u \in Thread \ {t} PROVE Calls(u)'
    <3>1. Calls(u) /\ (pc[u] # "idle" => alloc[u] \in Allocator)
      BY StateIs, OwnersAre DEF CallsInv
    <3>2. pc[u] \in Locked => lock'[alloc[u]] = u
      BY <1>1, <1>3, <3>1, NoneIs DEF Calls, Locked
    <3>3. pc'[u] = pc[u]
      BY <1>3
    <3> QED BY <1>1, <3>1, <3>2, <3>3 DEF Calls
  <2>3. ASSUME NEW b \in Allocator, lock'[b] # None
        PROVE  alloc[lock'[b]] = b /\ pc'[lock'[b]] \in Locked
    <3>1. CASE b = a
      BY <1>3, <3>1 DEF Locked
    <3>2. CASE b # a
      <4>1. lock'[b] = lock[b]
        BY <1>3, <3>2
      <4>2. alloc[lock[b]] = b /\ pc[lock[b]] \in Locked /\ lock[b] \in Thread
        BY <2>3, <4>1, StateIs DEF CallsInv, SlabTypes
      <4> QED BY <1>3, <3>2, <4>1, <4>2
    <3> QED BY <3>1, <3>2
  <2> QED BY <1>1, <2>1, <2>2, <2>3 DEF CallsInv
<1>6. PagesInv'
  BY <1>1, StateIs, PagesStay
<1>7. ObjectsInv'
  BY <1>1, <1>3, StateIs, ObjectsStay
<1>8. GrowsOnlyWhenFull'
  <2>1. ASSUME NEW u \in Thread, pc'[u] \in {"new", "carve", "add"}
        PROVE  /\ pc[u] \in {"new", "carve", "add"}
               /\ alloc'[u] = alloc[u] /\ lock'[alloc[u]] = lock[alloc[u]]
    <3>1. u # t /\ pc[u] \in {"new", "carve", "add"}
      BY <1>3, <2>1
    <3>2. lock[alloc[u]] = u /\ alloc[u] \in Allocator
      BY <3>1, StateIs, OwnersAre DEF GrowsOnlyWhenFull
    <3> QED BY <1>1, <1>3, <3>1, <3>2, NoneIs
  <2> QED BY <1>1, <2>1, StateIs, GrowthStays
<1> QED BY <1>4, <1>5, <1>6, <1>7, <1>8 DEF SlabInv

LEMMA FreeReturnStep ==
  ASSUME SlabInv, NEW t \in Thread, FreeReturn(t)
  PROVE  SlabInv'
<1> DEFINE a == alloc[t]
           x == ptr[t]
           p == PageOf(x)
<1>1. /\ pc[t] = "return" /\ lock' = [lock EXCEPT ![alloc[t]] = None]
      /\ ptr' = [ptr EXCEPT ![t] = 0] /\ alloc' = [alloc EXCEPT ![t] = None]
      /\ pc' = [pc EXCEPT ![t] = "idle"]
      /\ UNCHANGED <<memory, elsewhere, slabs, page_descr, page, objects>>
  BY DEF FreeReturn, Unlock, GoTo
<1>2. /\ a \in Allocator /\ lock[a] = t /\ x \in Nat /\ x # 0
      /\ p \in Pages(a) /\ x \in ObjectSet(a, p) /\ x \notin Available(p)
      /\ (\A u \in Thread : ptr[u] = x => u = t) /\ \A o \in objects : o[1] # x
  <2>1. x # 0 /\ lock[a] = t
    BY <1>1, StateIs DEF CallsInv, Calls, Locked
  <2> QED BY <2>1, OwnersAre, StateIs DEF SlabTypes, ObjectsInv
<1>3. free' = [free EXCEPT ![p] = <<x>> \o @]
  BY <1>2 DEF FreeReturn, Pages
<1>4. p \in Page /\ free[p] \in Seq(Nat) /\ IsInjective(free[p])
  <2>1. p \in Page
    BY <1>2, StateIs, PagesAre
  <2> QED BY <1>2, <2>1, StateIs DEF SlabTypes, ObjectsInv
<1> HIDE DEF p, x
<1>5. /\ <<x>> \o free[p] \in Seq(Nat) /\ IsInjective(<<x>> \o free[p])
      /\ ToSet(<<x>> \o free[p]) = {x} \cup Available(p)
  <2>1. x \notin ToSet(free[p])
    BY <1>2 DEF Available
  <2> QED BY <1>2, <1>4, <2>1, PrependIs DEF Available
<1>6. /\ free'[p] = <<x>> \o free[p] /\ (\A q \in Page \ {p} : free'[q] = free[q])
      /\ free' \in [Page -> Seq(Nat)]
  BY <1>3, <1>4, <1>5, StateIs DEF SlabTypes
<1>7. /\ CallsInv'
      /\ lock' \in [Allocator -> Thread \cup {None}] /\ ptr' \in [Thread -> Nat]
      /\ alloc' \in [Thread -> Allocator \cup {None}]
      /\ pc' \in [Thread -> {"idle", "free", "finit"} \cup Locked]
  <2>1. \A o \in objects' : o \in objects \/ o[2] = alloc[t]
    BY <1>1
  <2> QED BY <1>1, <2>1, CallReturns
<1>8. SlabTypes'
  BY <1>1, <1>6, <1>7, StateIs DEF SlabTypes
<1>9. PagesInv'
  BY <1>1, StateIs, PagesStay
<1>10. /\ pc'[t] = "idle" /\ \A u \in Thread \ {t} : pc'[u] = pc[u] /\ alloc'[u] = alloc[u]
       /\ ptr'[t] = 0 /\ \A u \in Thread \ {t} : ptr'[u] = ptr[u]
  BY <1>1, StateIs
<1>11. \A b \in Allocator : \A q \in Pages(b) : q \in Page
  BY StateIs, PagesAre
<1>12. ToSet(free'[p]) = {x} \cup ToSet(free[p])
  BY <1>5, <1>6 DEF Available
<1>13. ASSUME NEW q \in Page
       PROVE  \A y : y \in ToSet(free'[q]) => y = x \/ y \in ToSet(free[q])
  BY <1>6, <1>12
<1>14. ASSUME NEW q \in Page
       PROVE  \A y : y \in ToSet(free[q]) => y \in ToSet(free'[q])
  BY <1>6, <1>12
<1>15. ObjectsInv'
  <2>1. ASSUME NEW b \in Allocator, NEW q \in Pages(b)
        PROVE  /\ IsInjective(free'[q]) /\ ToSet(free'[q]) \subseteq ObjectSet(b, q)
               /\ \A y \in ObjectSet(b, q) :
                    y \in ToSet(free'[q]) \/ <<y, b>> \in objects \/ \E u \in Thread : ptr'[u] = y
    <3>1. /\ IsInjective(free[q]) /\ ToSet(free[q]) \subseteq ObjectSet(b, q) /\ q \in Page
          /\ \A y \in ObjectSet(b, q) :
               y \in ToSet(free[q]) \/ <<y, b>> \in objects \/ \E u \in Thread : ptr[u] = y
      BY <1>11, <2>1, StateIs DEF ObjectsInv, Available
    <3>2. q = p => b = a
      BY <1>2, <2>1, OwnersAre
    <3>3. IsInjective(free'[q]) /\ ToSet(free'[q]) \subseteq ObjectSet(b, q)
      <4>1. CASE q = p
        BY <1>2, <1>5, <1>6, <1>12, <3>1, <3>2, <4>1
      <4>2. CASE q # p
        BY <1>6, <3>1, <4>2
      <4> QED BY <4>1, <4>2
    <3>4. ASSUME NEW y \in ObjectSet(b, q), NEW u \in Thread, ptr[u] = y
          PROVE  y \in ToSet(free'[q]) \/ \E v \in Thread : ptr'[v] = y
      <4>1. PageOf(y) = q
        BY <3>1, ObjectsAre
      <4>2. CASE u = t
        BY <1>12, <3>4, <4>1, <4>2 DEF x, p
      <4>3. CASE u # t
        BY <1>10, <3>4, <4>3
      <4> QED BY <4>2, <4>3
    <3> QED BY <1>14, <3>1, <3>3, <3>4
  <2>2. ASSUME NEW u \in Thread, pc'[u] = "add"
        PROVE  free'[page[u]] = Objects(alloc'[u], page[u]) /\ page_descr[page[u]] = alloc'[u]
    <3>1. pc[u] = "add" /\ alloc'[u] = alloc[u]
      BY <1>10, <2>2
    <3>2. page[u] # p /\ page[u] \in Page
      BY <1>2, <3>1, StateIs DEF SlabTypes, CallsInv, Calls, PagesInv
    <3> QED BY <1>6, <3>1, <3>2, StateIs DEF ObjectsInv
  <2>3. ASSUME NEW o \in objects
        PROVE  /\ PageOf(o[1]) \in Pages(o[2]) /\ o[1] \in ObjectSet(o[2], PageOf(o[1]))
               /\ o[1] \notin ToSet(free'[PageOf(o[1])])
               /\ \A u \in Thread : ptr'[u] # o[1]
    <3>1. /\ PageOf(o[1]) \in Pages(o[2]) /\ o[1] \in ObjectSet(o[2], PageOf(o[1]))
          /\ o[1] \notin ToSet(free[PageOf(o[1])])
          /\ (\A u \in Thread : ptr[u] # o[1]) /\ o[2] \in Allocator /\ o[1] # 0
      BY OwnersAre, StateIs DEF ObjectsInv, Available
    <3>2. PageOf(o[1]) \in Page
      BY <1>11, <3>1
    <3>3. o[1] \notin ToSet(free'[PageOf(o[1])])
      BY <1>2, <1>13, <3>1, <3>2
    <3>4. \A u \in Thread : ptr'[u] # o[1]
      BY <1>10, <3>1
    <3> QED BY <3>1, <3>3, <3>4
  <2>4. ASSUME NEW u \in Thread, ptr'[u] # 0
        PROVE  /\ PageOf(ptr'[u]) \in Pages(alloc'[u])
               /\ ptr'[u] \in ObjectSet(alloc'[u], PageOf(ptr'[u]))
               /\ ptr'[u] \notin ToSet(free'[PageOf(ptr'[u])])
               /\ \A v \in Thread : ptr'[v] = ptr'[u] => v = u
    <3>1. u # t /\ ptr'[u] = ptr[u] /\ ptr[u] # 0 /\ alloc'[u] = alloc[u]
      BY <1>10, <2>4
    <3>2. /\ PageOf(ptr[u]) \in Pages(alloc[u]) /\ alloc[u] \in Allocator
          /\ ptr[u] \in ObjectSet(alloc[u], PageOf(ptr[u]))
          /\ ptr[u] \notin ToSet(free[PageOf(ptr[u])])
          /\ \A v \in Thread : ptr[v] = ptr[u] => v = u
      BY <3>1, OwnersAre, StateIs DEF ObjectsInv, Available
    <3>3. ptr[u] # x /\ PageOf(ptr[u]) \in Page
      BY <1>2, <1>11, <3>1, <3>2
    <3>4. ptr[u] \notin ToSet(free'[PageOf(ptr[u])])
      BY <1>13, <3>2, <3>3
    <3>5. \A v \in Thread : ptr'[v] = ptr[u] => v = u
      BY <1>10, <3>1, <3>2
    <3> QED BY <3>1, <3>2, <3>4, <3>5
  <2> QED BY <1>1, <2>1, <2>2, <2>3, <2>4 DEF ObjectsInv, Available, Pages
<1>16. GrowsOnlyWhenFull'
  <2>1. ASSUME NEW u \in Thread, pc'[u] \in {"new", "carve", "add"}
        PROVE  lock'[alloc'[u]] = u /\ \A q \in Pages(alloc'[u]) : free'[q] = <<>>
    <3>1. u # t /\ pc[u] \in {"new", "carve", "add"} /\ alloc'[u] = alloc[u] /\ alloc[u] \in Allocator
      BY <1>10, <2>1, OwnersAre
    <3>2. lock[alloc[u]] = u /\ \A q \in Pages(alloc[u]) : free[q] = <<>>
      BY <3>1, StateIs DEF GrowsOnlyWhenFull
    <3>3. alloc[u] # alloc[t]
      BY <1>2, <3>1, <3>2
    <3>4. lock'[alloc[u]] = u
      BY <1>1, <3>1, <3>2, <3>3, StateIs
    <3>5. p \notin Pages(alloc[u])
      BY <1>2, <3>1, <3>3, OwnersAre
    <3> QED BY <1>6, <1>11, <3>1, <3>2, <3>4, <3>5
  <2> QED BY <1>1, <2>1 DEF GrowsOnlyWhenFull, Pages
<1> QED BY <1>7, <1>8, <1>9, <1>15, <1>16 DEF SlabInv

----------------------------------------------------------------------------
(* slab_init, slab_finit and the other users of the page allocator.        *)

LEMMA SlabInitStep ==
  ASSUME SlabInv, NEW t \in Thread, NEW a \in Allocator, SlabInit(t, a)
  PROVE  SlabInv'
<1>1. PICK p \in memory : /\ memory' = memory \ {p}
                          /\ free' = [free EXCEPT ![p] = Objects(a, p)]
                          /\ page_descr' = [page_descr EXCEPT ![p] = a]
                          /\ slabs' = [slabs EXCEPT ![a] = <<p>>]
  BY DEF SlabInit
<1>2. /\ slabs[a] = <<>> /\ UNCHANGED <<elsewhere, lock, pc, alloc, ptr, page, objects>>
      /\ (\A u \in Thread : alloc[u] # a) /\ \A o \in objects : o[2] # a
  BY DEF SlabInit, Unused
<1>3. p \in Page /\ p # 0 /\ p \notin elsewhere
  BY <1>1, StateIs, SlabAssumption DEF SlabTypes
<1>4. /\ \A b \in Allocator : p \notin Pages(b)
      /\ \A u \in Thread : page[u] # p
      /\ Pages(a) = {}
  BY <1>1, <1>2, <1>3, StateIs, EmptyIs DEF PagesInv, Pages
<1>5. /\ Objects(a, p) \in Seq(Nat) /\ IsInjective(Objects(a, p))
      /\ ToSet(Objects(a, p)) = ObjectSet(a, p) /\ <<p>> \in Seq(Page) /\ <<p>> # <<>>
      /\ ToSet(<<p>>) = {p} /\ IsInjective(<<p>>)
  BY <1>3, ObjectsAre, OneIs DEF ObjectSet
<1>6. /\ slabs'[a] = <<p>> /\ (\A b \in Allocator \ {a} : slabs'[b] = slabs[b])
      /\ slabs' \in [Allocator -> Seq(Page)]
      /\ free'[p] = Objects(a, p) /\ (\A q \in Page \ {p} : free'[q] = free[q])
      /\ free' \in [Page -> Seq(Nat)]
      /\ page_descr'[p] = a /\ \A q \in Page \ {p} : page_descr'[q] = page_descr[q]
  BY <1>1, <1>3, <1>5, StateIs DEF SlabTypes
<1>7. \A b \in Allocator : \A q \in ToSet(slabs'[b]) :
        (q \in Pages(b) /\ b # a) \/ (b = a /\ q = p)
  BY <1>5, <1>6 DEF Pages
<1>8. \A b \in Allocator : \A q \in Pages(b) : q \in Page /\ q # p /\ b # a /\ q \in ToSet(slabs'[b])
  <2>1. \A b \in Allocator : \A q \in Pages(b) : q \in Page /\ q # p /\ b # a
    BY <1>4, StateIs, PagesAre
  <2> QED BY <1>6, <2>1 DEF Pages
<1>9. SlabTypes'
  BY <1>1, <1>2, <1>3, <1>6, StateIs DEF SlabTypes
<1>10. CallsInv'
  <2>1. ASSUME NEW u \in Thread PROVE Calls(u)'
    <3>1. Calls(u) /\ (pc[u] # "idle" => alloc[u] \in Allocator)
      BY StateIs, OwnersAre DEF CallsInv
    <3>2. pc[u] # "idle" => slabs'[alloc[u]] # <<>>
      BY <1>2, <1>6, <3>1 DEF Calls
    <3> QED BY <1>2, <3>1, <3>2 DEF Calls
  <2> QED BY <1>2, <2>1, StateIs DEF CallsInv
<1>11. PagesInv'
  <2>1. \A b \in Allocator : IsInjective(slabs'[b])
    BY <1>5, <1>6, StateIs DEF PagesInv
  <2>2. \A b \in Allocator : \A q \in ToSet(slabs'[b]) :
          page_descr'[q] = b /\ q \notin memory' \cup elsewhere
    BY <1>1, <1>3, <1>6, <1>7, <1>8, StateIs DEF PagesInv
  <2>3. ASSUME NEW u \in Thread, page[u] # 0
        PROVE  /\ page[u] \notin memory' \cup elsewhere
               /\ \A b \in Allocator : page[u] \notin ToSet(slabs'[b])
               /\ \A v \in Thread : page[v] = page[u] => v = u
    BY <1>1, <1>4, <1>7, <2>3, StateIs DEF PagesInv
  <2> QED BY <1>2, <2>1, <2>2, <2>3 DEF PagesInv, Pages
<1>12. ObjectsInv'
  <2>1. ASSUME NEW b \in Allocator, NEW q \in ToSet(slabs'[b])
        PROVE  /\ IsInjective(free'[q]) /\ ToSet(free'[q]) \subseteq ObjectSet(b, q)
               /\ \A y \in ObjectSet(b, q) :
                    y \in ToSet(free'[q]) \/ <<y, b>> \in objects \/ \E u \in Thread : ptr[u] = y
    <3>1. CASE q \in Pages(b)
      <4>1. /\ IsInjective(free[q]) /\ ToSet(free[q]) \subseteq ObjectSet(b, q)
            /\ \A y \in ObjectSet(b, q) :
                 y \in ToSet(free[q]) \/ <<y, b>> \in objects \/ \E u \in Thread : ptr[u] = y
        BY <3>1, StateIs DEF ObjectsInv, Available
      <4>2. free'[q] = free[q]
        BY <1>6, <1>8, <3>1
      <4> QED BY <4>1, <4>2
    <3>2. CASE b = a /\ q = p
      BY <1>5, <1>6, <3>2
    <3> QED BY <1>7, <2>1, <3>1, <3>2
  <2>2. ASSUME NEW u \in Thread, pc[u] = "add"
        PROVE  free'[page[u]] = Objects(alloc[u], page[u]) /\ page_descr'[page[u]] = alloc[u]
    <3>1. page[u] # p /\ page[u] \in Page
      BY <1>4, <2>2, StateIs DEF SlabTypes, CallsInv, Calls
    <3> QED BY <1>6, <2>2, <3>1, StateIs DEF ObjectsInv
  <2>3. ASSUME NEW o \in objects
        PROVE  /\ PageOf(o[1]) \in ToSet(slabs'[o[2]]) /\ o[1] \in ObjectSet(o[2], PageOf(o[1]))
               /\ o[1] \notin ToSet(free'[PageOf(o[1])])
               /\ \A u \in Thread : ptr[u] # o[1]
    <3>1. /\ PageOf(o[1]) \in Pages(o[2]) /\ o[1] \in ObjectSet(o[2], PageOf(o[1]))
          /\ o[1] \notin ToSet(free[PageOf(o[1])])
          /\ (\A u \in Thread : ptr[u] # o[1]) /\ o[2] \in Allocator
      BY OwnersAre, StateIs DEF ObjectsInv, Available
    <3> QED BY <1>6, <1>8, <3>1
  <2>4. ASSUME NEW u \in Thread, ptr[u] # 0
        PROVE  /\ PageOf(ptr[u]) \in ToSet(slabs'[alloc[u]])
               /\ ptr[u] \in ObjectSet(alloc[u], PageOf(ptr[u]))
               /\ ptr[u] \notin ToSet(free'[PageOf(ptr[u])])
               /\ \A v \in Thread : ptr[v] = ptr[u] => v = u
    <3>1. /\ PageOf(ptr[u]) \in Pages(alloc[u]) /\ alloc[u] \in Allocator
          /\ ptr[u] \in ObjectSet(alloc[u], PageOf(ptr[u]))
          /\ ptr[u] \notin ToSet(free[PageOf(ptr[u])])
          /\ \A v \in Thread : ptr[v] = ptr[u] => v = u
      BY <2>4, OwnersAre, StateIs DEF ObjectsInv, Available
    <3> QED BY <1>6, <1>8, <3>1
  <2> QED BY <1>2, <2>1, <2>2, <2>3, <2>4 DEF ObjectsInv, Available, Pages
<1>13. GrowsOnlyWhenFull'
  <2>1. ASSUME NEW u \in Thread, pc[u] \in {"new", "carve", "add"}
        PROVE  lock[alloc[u]] = u /\ \A q \in ToSet(slabs'[alloc[u]]) : free'[q] = <<>>
    <3>1. alloc[u] \in Allocator /\ alloc[u] # a
      BY <1>2, <2>1, OwnersAre
    <3>2. lock[alloc[u]] = u /\ \A q \in Pages(alloc[u]) : free[q] = <<>>
      BY <2>1, StateIs DEF GrowsOnlyWhenFull
    <3> QED BY <1>6, <1>7, <1>8, <3>1, <3>2
  <2> QED BY <1>2, <2>1 DEF GrowsOnlyWhenFull, Pages
<1> QED BY <1>9, <1>10, <1>11, <1>12, <1>13 DEF SlabInv

LEMMA SlabFinitStep ==
  ASSUME SlabInv, NEW t \in Thread, NEW a \in Allocator, SlabFinit(t, a)
  PROVE  SlabInv'
<1>1. /\ pc[t] = "idle" /\ slabs[a] # <<>> /\ alloc' = [alloc EXCEPT ![t] = a]
      /\ pc' = [pc EXCEPT ![t] = "finit"]
      /\ UNCHANGED <<memory, elsewhere, slabs, free, page_descr, lock, ptr, page, objects>>
      /\ (\A u \in Thread : alloc[u] # a) /\ \A o \in objects : o[2] # a
  BY DEF SlabFinit, Unused, Opened, GoTo
<1>2. ptr[t] = 0 /\ page[t] = 0 /\ alloc[t] = None /\ a # None
  <2>1. Calls(t)
    BY StateIs DEF CallsInv
  <2> QED BY <1>1, <2>1, NoneIs DEF Calls
<1>3. /\ pc'[t] = "finit" /\ alloc'[t] = a
      /\ \A u \in Thread \ {t} : pc'[u] = pc[u] /\ alloc'[u] = alloc[u]
  BY <1>1, StateIs
<1>4. SlabTypes'
  BY <1>1, StateIs DEF SlabTypes
<1>5. CallsInv'
  <2>1. Calls(t)'
    <3>1. \A v \in Thread : alloc'[v] = a => v = t
      BY <1>1, <1>3
    <3> QED BY <1>1, <1>2, <1>3, <3>1 DEF Calls, Locked
  <2>2. ASSUME NEW u \in Thread \ {t} PROVE Calls(u)'
    <3>1. Calls(u) /\ pc'[u] = pc[u] /\ alloc'[u] = alloc[u]
      BY <1>3, StateIs DEF CallsInv
    <3>2. ASSUME pc[u] = "finit"
          PROVE  \A v \in Thread : alloc'[v] = alloc[u] => v = u
      BY <1>1, <1>3, <3>1, <3>2 DEF Calls
    <3> QED BY <1>1, <3>1, <3>2 DEF Calls
  <2>3. ASSUME NEW c \in Allocator, lock[c] # None
        PROVE  alloc'[lock[c]] = c /\ pc'[lock[c]] \in Locked
    <3>1. alloc[lock[c]] = c /\ pc[lock[c]] \in Locked /\ lock[c] \in Thread
      BY <2>3, StateIs DEF CallsInv, SlabTypes
    <3>2. lock[c] # t
      BY <1>1, <3>1 DEF Locked
    <3> QED BY <1>3, <3>1, <3>2
  <2> QED BY <1>1, <2>1, <2>2, <2>3 DEF CallsInv
<1>6. PagesInv'
  BY <1>1, StateIs, PagesStay
<1>7. ObjectsInv'
  BY <1>1, <1>2, <1>3, StateIs, ObjectsStay
<1>8. GrowsOnlyWhenFull'
  BY <1>1, <1>3, StateIs, GrowthStays
<1> QED BY <1>4, <1>5, <1>6, <1>7, <1>8 DEF SlabInv

LEMMA DeleteStep ==
  ASSUME SlabInv, NEW t \in Thread, Delete(t)
  PROVE  SlabInv'
<1> DEFINE a == alloc[t]
           p == Head(slabs[a])
<1>1. /\ pc[t] = "finit" /\ page_descr' = [page_descr EXCEPT ![p] = None]
      /\ memory' = memory \cup {p} /\ free' = [free EXCEPT ![p] = <<>>]
      /\ slabs' = [slabs EXCEPT ![a] = Tail(@)]
      /\ UNCHANGED <<elsewhere, lock, ptr, page, objects>>
  BY DEF Delete
<1>2. /\ a \in Allocator /\ a # None /\ ptr[t] = 0 /\ page[t] = 0 /\ slabs[a] # <<>>
      /\ (\A u \in Thread : alloc[u] = a => u = t) /\ \A o \in objects : o[2] # a
  <2>1. Calls(t)
    BY StateIs DEF CallsInv
  <2> QED BY <1>1, <2>1, OwnersAre, NoneIs DEF Calls
<1>3. slabs[a] \in Seq(Page) /\ IsInjective(slabs[a])
  BY <1>2, StateIs DEF SlabTypes, PagesInv
<1>4. /\ p \in Page /\ p \in Pages(a) /\ Tail(slabs[a]) \in Seq(Page)
      /\ (Len(slabs[a]) = 1 <=> Tail(slabs[a]) = <<>>)
      /\ IsInjective(Tail(slabs[a])) /\ ToSet(Tail(slabs[a])) = Pages(a) \ {p}
  BY <1>2, <1>3, TailIs DEF Pages
<1> HIDE DEF p
<1>5. /\ slabs'[a] = Tail(slabs[a]) /\ (\A b \in Allocator \ {a} : slabs'[b] = slabs[b])
      /\ slabs' \in [Allocator -> Seq(Page)]
      /\ (\A q \in Page \ {p} : free'[q] = free[q]) /\ free' \in [Page -> Seq(Nat)]
      /\ (\A q \in Page \ {p} : page_descr'[q] = page_descr[q])
      /\ page_descr' \in [Page -> Allocator \cup {None}]
  <2>1. <<>> \in Seq(Nat)
    OBVIOUS
  <2> QED BY <1>1, <1>2, <1>4, <2>1, StateIs DEF SlabTypes
<1>6. /\ (slabs'[a] = <<>> => pc'[t] = "idle" /\ alloc'[t] = None)
      /\ (slabs'[a] # <<>> => pc'[t] = "finit" /\ alloc'[t] = a)
      /\ (\A u \in Thread \ {t} : pc'[u] = pc[u] /\ alloc'[u] = alloc[u])
      /\ pc' \in [Thread -> {"idle", "free", "finit"} \cup Locked]
      /\ alloc' \in [Thread -> Allocator \cup {None}]
  <2>1. CASE Len(slabs[a]) = 1
    <3>1. pc' = [pc EXCEPT ![t] = "idle"] /\ alloc' = [alloc EXCEPT ![t] = None]
      BY <2>1 DEF Delete, GoTo
    <3> QED BY <1>4, <1>5, <2>1, <3>1, StateIs DEF SlabTypes
  <2>2. CASE Len(slabs[a]) # 1
    <3>1. pc' = pc /\ alloc' = alloc
      BY <2>2 DEF Delete, GoTo
    <3> QED BY <1>1, <1>4, <1>5, <2>2, <3>1, StateIs DEF SlabTypes
  <2> QED BY <2>1, <2>2
<1>7. \A b \in Allocator : \A q \in ToSet(slabs'[b]) : q \in Pages(b) /\ q # p /\ q \in Page
  <2>1. \A b \in Allocator : b # a => p \notin Pages(b)
    BY <1>2, <1>4, OwnersAre
  <2>2. \A b \in Allocator : \A q \in Pages(b) : q \in Page
    BY StateIs, PagesAre
  <2> QED BY <1>4, <1>5, <2>1, <2>2 DEF Pages
<1>8. \A b \in Allocator \ {a} : \A q \in Pages(b) :
        q \in Page /\ q # p /\ q \in ToSet(slabs'[b])
  <2>1. \A b \in Allocator \ {a} : p \notin Pages(b)
    BY <1>2, <1>4, OwnersAre
  <2>2. \A b \in Allocator : \A q \in Pages(b) : q \in Page
    BY StateIs, PagesAre
  <2> QED BY <1>5, <2>1, <2>2 DEF Pages
<1>9. SlabTypes'
  <2>1. memory' \subseteq Page /\ memory' \cap elsewhere = {}
    BY <1>1, <1>2, <1>4, StateIs DEF SlabTypes, PagesInv
  <2> QED BY <1>1, <1>5, <1>6, <2>1, StateIs DEF SlabTypes
<1>10. CallsInv'
  <2>1. Calls(t)'
    <3>1. CASE slabs'[a] = <<>>
      BY <1>1, <1>2, <1>6, <3>1 DEF Calls, Locked
    <3>2. CASE slabs'[a] # <<>>
      <4>1. \A v \in Thread : alloc'[v] = a => v = t
        BY <1>2, <1>6
      <4> QED BY <1>1, <1>2, <1>6, <3>2, <4>1 DEF Calls, Locked
    <3> QED BY <3>1, <3>2
  <2>2. ASSUME NEW u \in Thread \ {t} PROVE Calls(u)'
    <3>1. /\ Calls(u) /\ (pc[u] # "idle" => alloc[u] \in Allocator)
          /\ pc'[u] = pc[u] /\ alloc'[u] = alloc[u]
      BY <1>6, StateIs, OwnersAre DEF CallsInv
    <3>2. alloc[u] # a
      BY <1>2
    <3>3. pc[u] # "idle" => slabs'[alloc[u]] # <<>>
      BY <1>5, <3>1, <3>2 DEF Calls
    <3>4. ASSUME pc[u] = "finit"
          PROVE  \A v \in Thread : alloc'[v] = alloc[u] => v = u
      <4>1. alloc'[t] # alloc[u]
        BY <1>6, <3>1, <3>2, <3>4, NoneIs
      <4> QED BY <1>6, <3>1, <3>4, <4>1 DEF Calls
    <3> QED BY <1>1, <3>1, <3>3, <3>4 DEF Calls
  <2>3. ASSUME NEW c \in Allocator, lock[c] # None
        PROVE  alloc'[lock[c]] = c /\ pc'[lock[c]] \in Locked
    <3>1. alloc[lock[c]] = c /\ pc[lock[c]] \in Locked /\ lock[c] \in Thread
      BY <2>3, StateIs DEF CallsInv, SlabTypes
    <3>2. lock[c] # t
      BY <1>1, <3>1 DEF Locked
    <3> QED BY <1>6, <3>1, <3>2
  <2> QED BY <1>1, <2>1, <2>2, <2>3 DEF CallsInv
<1>11. PagesInv'
  <2>1. \A b \in Allocator : IsInjective(slabs'[b])
    BY <1>4, <1>5, StateIs DEF PagesInv
  <2>2. \A b \in Allocator : \A q \in ToSet(slabs'[b]) :
          page_descr'[q] = b /\ q \notin memory' \cup elsewhere
    BY <1>1, <1>5, <1>7, StateIs DEF PagesInv
  <2>3. ASSUME NEW u \in Thread, page[u] # 0
        PROVE  /\ page[u] \notin memory' \cup elsewhere
               /\ \A b \in Allocator : page[u] \notin ToSet(slabs'[b])
               /\ \A v \in Thread : page[v] = page[u] => v = u
    BY <1>1, <1>2, <1>4, <1>7, <2>3, StateIs DEF PagesInv
  <2> QED BY <1>1, <2>1, <2>2, <2>3 DEF PagesInv, Pages
<1>12. ObjectsInv'
  <2>1. ASSUME NEW b \in Allocator, NEW q \in ToSet(slabs'[b])
        PROVE  /\ IsInjective(free'[q]) /\ ToSet(free'[q]) \subseteq ObjectSet(b, q)
               /\ \A y \in ObjectSet(b, q) :
                    y \in ToSet(free'[q]) \/ <<y, b>> \in objects \/ \E u \in Thread : ptr[u] = y
    <3>1. /\ IsInjective(free[q]) /\ ToSet(free[q]) \subseteq ObjectSet(b, q)
          /\ \A y \in ObjectSet(b, q) :
               y \in ToSet(free[q]) \/ <<y, b>> \in objects \/ \E u \in Thread : ptr[u] = y
      BY <1>7, <2>1, StateIs DEF ObjectsInv, Available
    <3>2. free'[q] = free[q]
      BY <1>5, <1>7, <2>1
    <3> QED BY <3>1, <3>2
  <2>2. ASSUME NEW u \in Thread, pc'[u] = "add"
        PROVE  free'[page[u]] = Objects(alloc'[u], page[u]) /\ page_descr'[page[u]] = alloc'[u]
    <3>1. pc[u] = "add" /\ alloc'[u] = alloc[u]
      BY <1>6, <2>2
    <3>2. page[u] # p /\ page[u] \in Page
      BY <1>2, <1>4, <3>1, StateIs DEF SlabTypes, CallsInv, Calls, PagesInv
    <3> QED BY <1>5, <3>1, <3>2, StateIs DEF ObjectsInv
  <2>3. ASSUME NEW o \in objects
        PROVE  /\ PageOf(o[1]) \in ToSet(slabs'[o[2]]) /\ o[1] \in ObjectSet(o[2], PageOf(o[1]))
               /\ o[1] \notin ToSet(free'[PageOf(o[1])])
               /\ \A u \in Thread : ptr[u] # o[1]
    <3>1. /\ PageOf(o[1]) \in Pages(o[2]) /\ o[1] \in ObjectSet(o[2], PageOf(o[1]))
          /\ o[1] \notin ToSet(free[PageOf(o[1])])
          /\ (\A u \in Thread : ptr[u] # o[1]) /\ o[2] \in Allocator /\ o[2] # a
      BY <1>2, OwnersAre, StateIs DEF ObjectsInv, Available
    <3> QED BY <1>5, <1>8, <3>1
  <2>4. ASSUME NEW u \in Thread, ptr[u] # 0
        PROVE  /\ PageOf(ptr[u]) \in ToSet(slabs'[alloc'[u]])
               /\ ptr[u] \in ObjectSet(alloc'[u], PageOf(ptr[u]))
               /\ ptr[u] \notin ToSet(free'[PageOf(ptr[u])])
               /\ \A v \in Thread : ptr[v] = ptr[u] => v = u
    <3>1. u # t /\ alloc[u] # a /\ alloc'[u] = alloc[u]
      BY <1>2, <1>6, <2>4
    <3>2. /\ PageOf(ptr[u]) \in Pages(alloc[u]) /\ alloc[u] \in Allocator
          /\ ptr[u] \in ObjectSet(alloc[u], PageOf(ptr[u]))
          /\ ptr[u] \notin ToSet(free[PageOf(ptr[u])])
          /\ \A v \in Thread : ptr[v] = ptr[u] => v = u
      BY <2>4, OwnersAre, StateIs DEF ObjectsInv, Available
    <3> QED BY <1>5, <1>8, <3>1, <3>2
  <2> QED BY <1>1, <2>1, <2>2, <2>3, <2>4 DEF ObjectsInv, Available, Pages
<1>13. GrowsOnlyWhenFull'
  <2>1. ASSUME NEW u \in Thread, pc'[u] \in {"new", "carve", "add"}
        PROVE  lock[alloc'[u]] = u /\ \A q \in ToSet(slabs'[alloc'[u]]) : free'[q] = <<>>
    <3>1. u # t /\ pc[u] \in {"new", "carve", "add"} /\ alloc'[u] = alloc[u] /\ alloc[u] \in Allocator
      BY <1>6, <2>1, OwnersAre
    <3>2. lock[alloc[u]] = u /\ \A q \in Pages(alloc[u]) : free[q] = <<>>
      BY <3>1, StateIs DEF GrowsOnlyWhenFull
    <3> QED BY <1>5, <1>7, <3>1, <3>2
  <2> QED BY <1>1, <2>1 DEF GrowsOnlyWhenFull, Pages
<1> QED BY <1>9, <1>10, <1>11, <1>12, <1>13 DEF SlabInv

LEMMA BuddyAllocStep ==
  ASSUME SlabInv, BuddyAlloc
  PROVE  SlabInv'
<1>1. PICK p \in memory : memory' = memory \ {p} /\ elsewhere' = elsewhere \cup {p}
  BY DEF BuddyAlloc
<1>2. UNCHANGED <<slabs, free, page_descr, lock, pc, alloc, ptr, page, objects>>
  BY DEF BuddyAlloc
<1>3. memory' \cup elsewhere' = memory \cup elsewhere
  BY <1>1
<1>4. SlabTypes'
  BY <1>1, <1>2, StateIs DEF SlabTypes
<1>5. CallsInv'
  BY <1>2, StateIs DEF CallsInv, Calls
<1>6. PagesInv'
  BY <1>2, <1>3, StateIs DEF PagesInv, Pages
<1>7. ObjectsInv'
  BY <1>2, StateIs, ObjectsStay
<1>8. GrowsOnlyWhenFull'
  BY <1>2, StateIs, GrowthStays
<1> QED BY <1>4, <1>5, <1>6, <1>7, <1>8 DEF SlabInv

LEMMA BuddyFreeStep ==
  ASSUME SlabInv, BuddyFree
  PROVE  SlabInv'
<1>1. PICK p \in elsewhere : memory' = memory \cup {p} /\ elsewhere' = elsewhere \ {p}
  BY DEF BuddyFree
<1>2. UNCHANGED <<slabs, free, page_descr, lock, pc, alloc, ptr, page, objects>>
  BY DEF BuddyFree
<1>3. memory' \cup elsewhere' = memory \cup elsewhere
  BY <1>1
<1>4. SlabTypes'
  BY <1>1, <1>2, StateIs DEF SlabTypes
<1>5. CallsInv'
  BY <1>2, StateIs DEF CallsInv, Calls
<1>6. PagesInv'
  BY <1>2, <1>3, StateIs DEF PagesInv, Pages
<1>7. ObjectsInv'
  BY <1>2, StateIs, ObjectsStay
<1>8. GrowsOnlyWhenFull'
  BY <1>2, StateIs, GrowthStays
<1> QED BY <1>4, <1>5, <1>6, <1>7, <1>8 DEF SlabInv

----------------------------------------------------------------------------
(* The invariant.                                                          *)

LEMMA InitHolds == ASSUME Init PROVE SlabInv
<1> USE NoneIs DEF Init
<1>1. SlabTypes
  BY SlabAssumption DEF SlabTypes
<1>2. CallsInv
  BY DEF CallsInv, Calls, Locked
<1>3. \A a \in Allocator : slabs[a] = <<>> /\ Pages(a) = {}
  BY EmptyIs DEF Pages
<1>4. PagesInv
  BY <1>3, EmptyIs DEF PagesInv
<1>5. ObjectsInv
  BY <1>3 DEF ObjectsInv
<1>6. GrowsOnlyWhenFull
  BY DEF GrowsOnlyWhenFull
<1> QED BY <1>1, <1>2, <1>4, <1>5, <1>6 DEF SlabInv

LEMMA StepHolds == ASSUME SlabInv, [Next]_vars PROVE SlabInv'
<1>1. CASE UNCHANGED vars
  <2>1. UNCHANGED <<memory, elsewhere, slabs, free, page_descr, lock, pc, alloc, ptr, page,
                    objects>>
    BY <1>1 DEF vars
  <2>2. SlabTypes' /\ CallsInv'
    BY <2>1, StateIs DEF SlabTypes, CallsInv, Calls
  <2>3. PagesInv'
    BY <2>1, StateIs, PagesStay
  <2>4. ObjectsInv'
    BY <2>1, StateIs, ObjectsStay
  <2>5. GrowsOnlyWhenFull'
    BY <2>1, StateIs, GrowthStays
  <2> QED BY <2>2, <2>3, <2>4, <2>5 DEF SlabInv
<1>2. ASSUME NEW t \in Thread, NEW a \in Allocator,
             AllocLock(t, a) \/ SlabInit(t, a) \/ SlabFinit(t, a)
      PROVE  SlabInv'
  BY <1>2, AllocLockStep, SlabInitStep, SlabFinitStep
<1>3. ASSUME NEW t \in Thread,
             Scan(t) \/ NewPage(t) \/ NoPage(t) \/ Carve(t) \/ Add(t) \/ AllocReturn(t)
      PROVE  SlabInv'
  BY <1>3, ScanStep, NewPageStep, NoPageStep, CarveStep, AddStep, AllocReturnStep
<1>4. ASSUME NEW t \in Thread, FreeCall(t) \/ FreeLock(t) \/ FreeReturn(t) \/ Delete(t)
      PROVE  SlabInv'
  BY <1>4, FreeCallStep, FreeLockStep, FreeReturnStep, DeleteStep
<1>5. CASE BuddyAlloc \/ BuddyFree
  BY <1>5, BuddyAllocStep, BuddyFreeStep
<1> QED BY <1>1, <1>2, <1>3, <1>4, <1>5 DEF Next

(* Threads allocate and free objects of several allocators at once, whose  *)
(* pages come and go: wherever each thread is, the types are right, a lock *)
(* is held by the thread in its region and by no other, a page has one use,*)
(* and an object is in one place, with a node that names its slab's owner. *)
THEOREM SlabInvariant == Spec => []SlabInv
<1>1. Init => SlabInv
  BY InitHolds
<1>2. SlabInv /\ [Next]_vars => SlabInv'
  BY StepHolds
<1> QED BY <1>1, <1>2, PTL DEF Spec

----------------------------------------------------------------------------
(* How many there are.                                                     *)

LEMMA SizeOfList ==
  ASSUME NEW R, NEW s \in Seq(R), IsInjective(s)
  PROVE  IsFiniteSet(ToSet(s)) /\ Cardinality(ToSet(s)) = Len(s)
<1>1. Len(s) \in Nat /\ DOMAIN s = 1 .. Len(s) /\ s = [k \in 1 .. Len(s) |-> s[k]]
  BY LenProperties
<1>2. \A k \in 1 .. Len(s) : s[k] \in ToSet(s)
  BY <1>1 DEF ToSet
<1>3. s \in [1 .. Len(s) -> ToSet(s)]
  BY <1>1, <1>2
<1>4. s \in Bijection(1 .. Len(s), ToSet(s))
  BY <1>1, <1>3 DEF Bijection, Injection, Surjection, IsInjective, ToSet
<1>5. IsFiniteSet(1 .. Len(s)) /\ Cardinality(1 .. Len(s)) = Len(s)
  <2>1. 1 \in Int /\ Len(s) \in Int
    BY <1>1
  <2>2. /\ IsFiniteSet(1 .. Len(s))
        /\ Cardinality(1 .. Len(s)) = IF 1 > Len(s) THEN 0 ELSE Len(s) - 1 + 1
    BY ONLY <2>1, FS_Interval
  <2> QED BY <1>1, <2>2
<1>6. ExistsBijection(1 .. Len(s), ToSet(s))
  BY <1>4 DEF ExistsBijection
<1> QED BY <1>5, <1>6, FS_Bijection

LEMMA SizeOfImage ==
  ASSUME NEW S, NEW R, NEW f \in [S -> R], IsFiniteSet(R),
         \A x, y \in S : f[x] = f[y] => x = y,
         \A z \in R : \E x \in S : f[x] = z
  PROVE  Cardinality(S) = Cardinality(R)
<1>1. f \in Injection(S, R)
  BY DEF Injection, IsInjective
<1>2. f \in Surjection(S, R)
  BY DEF Surjection
<1> QED BY <1>1, <1>2, FS_Injection

(* Three sets without a common element.                                    *)
LEMMA SizeOfThree ==
  ASSUME NEW D, IsFiniteSet(D), NEW A, NEW B, NEW C, A \cup B \cup C = D,
         A \cap B = {}, A \cap C = {}, B \cap C = {}
  PROVE  /\ IsFiniteSet(A) /\ IsFiniteSet(B) /\ IsFiniteSet(C)
         /\ Cardinality(A) + Cardinality(B) + Cardinality(C) = Cardinality(D)
<1>1. A \in SUBSET D /\ B \in SUBSET D /\ C \in SUBSET D
  OBVIOUS
<1>2. IsFiniteSet(A) /\ IsFiniteSet(B) /\ IsFiniteSet(C)
  BY <1>1, FS_Subset
<1>3. /\ IsFiniteSet(A \cup B)
      /\ Cardinality(A \cup B) = Cardinality(A) + Cardinality(B) - Cardinality(A \cap B)
  BY <1>2, FS_Union
<1>4. Cardinality((A \cup B) \cup C)
        = Cardinality(A \cup B) + Cardinality(C) - Cardinality((A \cup B) \cap C)
  BY <1>2, <1>3, FS_Union
<1>5. A \cap B = {} /\ (A \cup B) \cap C = {} /\ (A \cup B) \cup C = D
  OBVIOUS
<1>6. /\ Cardinality(A) \in Nat /\ Cardinality(B) \in Nat /\ Cardinality(C) \in Nat
      /\ Cardinality(A \cup B) \in Nat
  BY <1>2, <1>3, FS_CardinalityType
<1>7. Cardinality(A \cap B) = 0 /\ Cardinality((A \cup B) \cap C) = 0
  BY <1>5, FS_EmptySet
<1>8. Cardinality((A \cup B) \cup C) = Cardinality(D)
  BY <1>5
<1> QED BY <1>2, <1>3, <1>4, <1>6, <1>7, <1>8

----------------------------------------------------------------------------
(* The pages of an allocator, and what is on one.                          *)

LEMMA SlabPagesAre ==
  ASSUME SlabInv, NEW a \in Allocator, NEW p \in SlabPages(a)
  PROVE  /\ p \in Page
         /\ p \notin memory \cup elsewhere
         /\ \/ p \in Pages(a)
            \/ /\ \E t \in Thread : alloc[t] = a /\ pc[t] = "add" /\ page[t] = p
               /\ free[p] = Objects(a, p)
               /\ \A b \in Allocator : p \notin Pages(b)
<1>1. CASE p \in Pages(a)
  BY <1>1, PagesAre, StateIs DEF PagesInv
<1>2. CASE p \notin Pages(a)
  <2>1. PICK t \in Thread : alloc[t] = a /\ pc[t] = "add" /\ page[t] = p
    BY <1>2 DEF SlabPages
  <2>2. page[t] # 0
    BY <2>1, StateIs DEF CallsInv, Calls
  <2>3. p \in Page
    BY <2>1, <2>2, StateIs DEF SlabTypes
  <2>4. p \notin memory \cup elsewhere /\ \A b \in Allocator : p \notin Pages(b)
    BY <2>1, <2>2, StateIs DEF PagesInv
  <2>5. free[p] = Objects(a, p)
    BY <2>1, StateIs DEF ObjectsInv
  <2> QED BY <2>1, <2>3, <2>4, <2>5
<1> QED BY <1>1, <1>2

LEMMA PlacesAre ==
  ASSUME SlabInv, NEW a \in Allocator, NEW p \in SlabPages(a)
  PROVE  LET out    == {o \in objects : PageOf(o[1]) = p}
             moving == {t \in Moving : PageOf(ptr[t]) = p}
             given  == {o[1] : o \in out}
             moved  == {ptr[t] : t \in moving}
         IN /\ IsInjective(free[p]) /\ free[p] \in Seq(Nat)
            /\ Available(p) \cup given \cup moved = ObjectSet(a, p)
            /\ Available(p) \cap given = {} /\ Available(p) \cap moved = {}
            /\ given \cap moved = {}
            /\ \A o \in out : o[2] = a
            /\ \A t \in moving : alloc[t] = a
<1> DEFINE out    == {o \in objects : PageOf(o[1]) = p}
           moving == {t \in Moving : PageOf(ptr[t]) = p}
           given  == {o[1] : o \in out}
           moved  == {ptr[t] : t \in moving}
<1>1. p \in Page
  BY SlabPagesAre
<1>2. free[p] \in Seq(Nat)
  BY <1>1, StateIs DEF SlabTypes
<1>3. \A o \in out : /\ o = <<o[1], o[2]>> /\ o[2] \in Allocator /\ p \in Pages(o[2])
                     /\ o[1] \in ObjectSet(o[2], p) /\ o[1] \notin Available(p)
                     /\ \A t \in Thread : ptr[t] # o[1]
  BY OwnersAre, StateIs DEF ObjectsInv
<1>4. \A t \in moving : /\ t \in Thread /\ ptr[t] # 0 /\ alloc[t] \in Allocator
                        /\ p \in Pages(alloc[t])
                        /\ ptr[t] \in ObjectSet(alloc[t], p) /\ ptr[t] \notin Available(p)
  BY OwnersAre, StateIs DEF ObjectsInv, Moving
<1>5. CASE p \in Pages(a)
  <2>1. \A b \in Allocator : p \in Pages(b) => b = a
    BY <1>5, OwnersAre
  <2>2. /\ IsInjective(free[p]) /\ Available(p) \subseteq ObjectSet(a, p)
        /\ \A x \in ObjectSet(a, p) :
             x \in Available(p) \/ <<x, a>> \in objects \/ \E t \in Thread : ptr[t] = x
    BY <1>5, StateIs DEF ObjectsInv
  <2>3. \A x \in ObjectSet(a, p) : x # 0 /\ PageOf(x) = p
    BY <1>1, ObjectsAre
  <2>4. (\A o \in out : o[2] = a) /\ \A t \in moving : alloc[t] = a
    BY <1>3, <1>4, <2>1
  <2>5. given \subseteq ObjectSet(a, p) /\ moved \subseteq ObjectSet(a, p)
    BY <1>3, <1>4, <2>4
  <2>6. ASSUME NEW x \in ObjectSet(a, p) PROVE x \in Available(p) \cup given \cup moved
    <3>1. CASE <<x, a>> \in objects
      <4>1. <<x, a>>[1] = x
        OBVIOUS
      <4>2. <<x, a>> \in out
        BY <3>1, <4>1, <2>3
      <4> QED BY <4>1, <4>2
    <3>2. ASSUME NEW t \in Thread, ptr[t] = x PROVE x \in moved
      <4>1. t \in moving
        BY <3>2, <2>3 DEF Moving
      <4> QED BY <3>2, <4>1
    <3> QED BY <3>1, <3>2, <2>2
  <2>7. Available(p) \cup given \cup moved = ObjectSet(a, p)
    BY <2>2, <2>5, <2>6
  <2>8. /\ Available(p) \cap given = {} /\ Available(p) \cap moved = {}
        /\ given \cap moved = {}
    <3>1. \A x \in given : x \notin Available(p) /\ \A t \in Thread : ptr[t] # x
      BY <1>3
    <3>2. \A x \in moved : x \notin Available(p) /\ \E t \in Thread : ptr[t] = x
      BY <1>4
    <3> HIDE DEF given, moved
    <3> QED BY <3>1, <3>2
  <2> QED BY <1>2, <2>2, <2>4, <2>7, <2>8
<1>6. CASE p \notin Pages(a)
  <2>1. free[p] = Objects(a, p) /\ \A b \in Allocator : p \notin Pages(b)
    BY <1>6, SlabPagesAre
  <2>2. out = {} /\ moving = {}
    BY <1>3, <1>4, <2>1
  <2>3. given = {} /\ moved = {}
    BY <2>2
  <2>4. IsInjective(free[p]) /\ Available(p) = ObjectSet(a, p)
    BY <1>1, <2>1, ObjectsAre DEF Available, ObjectSet
  <2> QED BY <1>2, <2>2, <2>3, <2>4
<1> QED BY <1>5, <1>6

LEMMA PlacesCounted ==
  ASSUME SlabInv, NEW a \in Allocator, NEW p \in SlabPages(a)
  PROVE  LET out    == {o \in objects : PageOf(o[1]) = p}
             moving == {t \in Moving : PageOf(ptr[t]) = p}
         IN Len(free[p]) + Cardinality(out) + Cardinality(moving) = Len(Objects(a, p))
<1> DEFINE out    == {o \in objects : PageOf(o[1]) = p}
           moving == {t \in Moving : PageOf(ptr[t]) = p}
           given  == {o[1] : o \in out}
           moved  == {ptr[t] : t \in moving}
           f      == [o \in out |-> o[1]]
           g      == [t \in moving |-> ptr[t]]
<1>1. /\ IsInjective(free[p]) /\ free[p] \in Seq(Nat)
      /\ Available(p) \cup given \cup moved = ObjectSet(a, p)
      /\ Available(p) \cap given = {} /\ Available(p) \cap moved = {}
      /\ given \cap moved = {}
  BY PlacesAre
<1>2. Objects(a, p) \in Seq(Nat) /\ IsInjective(Objects(a, p))
  BY SlabPagesAre, ObjectsAre
<1>3. IsFiniteSet(ObjectSet(a, p)) /\ Cardinality(ObjectSet(a, p)) = Len(Objects(a, p))
  BY <1>2, SizeOfList DEF ObjectSet
<1>4. Cardinality(Available(p)) = Len(free[p])
  BY <1>1, SizeOfList DEF Available
<1>5. \A o, q \in out : o[1] = q[1] => o = q
  BY OwnersAre
<1>6. \A t, u \in moving : ptr[t] = ptr[u] => t = u
  BY StateIs DEF Moving, ObjectsInv
<1>7. /\ IsFiniteSet(given) /\ IsFiniteSet(moved)
      /\ Cardinality(Available(p)) + Cardinality(given) + Cardinality(moved)
           = Cardinality(ObjectSet(a, p))
  <2> DEFINE A == Available(p)
             D == ObjectSet(a, p)
  <2>1. /\ IsFiniteSet(D) /\ A \cup given \cup moved = D
        /\ A \cap given = {} /\ A \cap moved = {} /\ given \cap moved = {}
    BY <1>1, <1>3
  <2> HIDE DEF given, moved, A, D
  <2>2. /\ IsFiniteSet(A) /\ IsFiniteSet(given) /\ IsFiniteSet(moved)
        /\ Cardinality(A) + Cardinality(given) + Cardinality(moved) = Cardinality(D)
    BY <2>1, SizeOfThree, SMT
  <2> QED BY <2>2 DEF A, D
<1>8. Cardinality(out) = Cardinality(given)
  <2>1. f \in [out -> given] /\ (\A o, q \in out : f[o] = f[q] => o = q)
        /\ \A z \in given : \E o \in out : f[o] = z
    <3> HIDE DEF out
    <3> QED BY <1>5
  <2> HIDE DEF f, out, given
  <2> QED BY <1>7, <2>1, SizeOfImage
<1>9. Cardinality(moving) = Cardinality(moved)
  <2>1. g \in [moving -> moved] /\ (\A t, u \in moving : g[t] = g[u] => t = u)
        /\ \A z \in moved : \E t \in moving : g[t] = z
    <3> HIDE DEF moving
    <3> QED BY <1>6
  <2> HIDE DEF g, moving, moved
  <2> QED BY <1>7, <2>1, SizeOfImage
<1> HIDE DEF out, moving, given, moved
<1>10. Len(free[p]) + Cardinality(out) + Cardinality(moving) = Len(Objects(a, p))
  BY <1>3, <1>4, <1>7, <1>8, <1>9
<1> QED BY <1>10 DEF out, moving

LEMMA OwnersApart ==
  ASSUME SlabInv, NEW a \in Allocator, NEW b \in Allocator, a # b
  PROVE  SlabPages(a) \cap SlabPages(b) = {}
<1>1. SUFFICES ASSUME NEW p \in SlabPages(a), p \in SlabPages(b) PROVE FALSE
  OBVIOUS
<1>2. \/ p \in Pages(a)
      \/ /\ \E t \in Thread : alloc[t] = a /\ pc[t] = "add" /\ page[t] = p
         /\ \A c \in Allocator : p \notin Pages(c)
  BY SlabPagesAre
<1>3. \/ p \in Pages(b)
      \/ /\ \E t \in Thread : alloc[t] = b /\ pc[t] = "add" /\ page[t] = p
         /\ \A c \in Allocator : p \notin Pages(c)
  BY <1>1, SlabPagesAre
<1>4. CASE p \in Pages(a)
  BY <1>3, <1>4, OwnersAre
<1>5. CASE p \notin Pages(a)
  <2>1. PICK t \in Thread : alloc[t] = a /\ pc[t] = "add" /\ page[t] = p
    BY <1>2, <1>5
  <2>2. PICK u \in Thread : alloc[u] = b /\ pc[u] = "add" /\ page[u] = p
    BY <1>2, <1>3, <1>5
  <2>3. page[t] # 0
    BY <2>1, StateIs DEF CallsInv, Calls
  <2>4. u = t
    BY <2>1, <2>2, <2>3, StateIs DEF PagesInv
  <2> QED BY <2>1, <2>2, <2>4
<1> QED BY <1>4, <1>5

(* slab_alloc and slab_free, on the same allocator and on others at once,  *)
(* slab_init and slab_finit: each object of a slab is on the slab's free   *)
(* list, with one caller or on its way, once in all; it goes back to the   *)
(* allocator it came from; and no page has two owners.                     *)
THEOREM ObjectsHaveOnePlace == Spec => []EachObjectOnce
<1>1. SlabInv => EachObjectOnce
  <2> SUFFICES ASSUME SlabInv PROVE EachObjectOnce
    OBVIOUS
  <2>1. ASSUME NEW a \in Allocator, NEW p \in SlabPages(a)
        PROVE  LET out    == {o \in objects : PageOf(o[1]) = p}
                   moving == {t \in Moving : PageOf(ptr[t]) = p}
               IN /\ IsInjective(free[p])
                  /\ ToSet(free[p]) \cup {o[1] : o \in out} \cup {ptr[t] : t \in moving}
                       = ToSet(Objects(a, p))
                  /\ Len(free[p]) + Cardinality(out) + Cardinality(moving)
                       = Len(Objects(a, p))
                  /\ (\A o \in out : o[2] = a) /\ \A t \in moving : alloc[t] = a
    BY PlacesAre, PlacesCounted DEF Available, ObjectSet
  <2>2. \A a, b \in Allocator : a # b => SlabPages(a) \cap SlabPages(b) = {}
    BY OwnersApart
  <2>3. (memory \cup elsewhere) \cap UNION {SlabPages(a) : a \in Allocator} = {}
    BY SlabPagesAre
  <2> QED BY <2>1, <2>2, <2>3 DEF EachObjectOnce
<1> QED BY <1>1, SlabInvariant, PTL

(* slab_free reads page_descr before it locks: whoever allocates, frees or *)
(* takes allocators down meanwhile, the descriptor of a page with a slab   *)
(* names its allocator, and the allocator a thread has found still has the *)
(* page when the thread gets the lock.                                     *)
THEOREM OwnersAreFound == Spec => []DescriptorNamesOwner
<1>1. SlabInv => DescriptorNamesOwner
  <2> SUFFICES ASSUME SlabInv PROVE DescriptorNamesOwner
    OBVIOUS
  <2>1. \A a \in Allocator : \A p \in Pages(a) : page_descr[p] = a
    BY StateIs DEF PagesInv
  <2>2. ASSUME NEW t \in Thread, pc[t] \in {"free", "return"}
        PROVE  alloc[t] # None /\ PageOf(ptr[t]) \in Pages(alloc[t])
    <3>1. ptr[t] # 0 /\ alloc[t] # None
      BY <2>2, StateIs DEF CallsInv, Calls
    <3> QED BY <3>1, StateIs DEF ObjectsInv
  <2> QED BY <2>1, <2>2 DEF DescriptorNamesOwner
<1> QED BY <1>1, SlabInvariant, PTL

(* slab_small_new, for every size and alignment that SlabAssumption admits:*)
(* the nodes and the objects of a page and the struct slab on it have their*)
(* bytes to themselves, and each object is aligned.                        *)
THEOREM ObjectsStayApart == Spec => []ObjectsDisjoint
<1>1. SlabInv => ObjectsDisjoint
  <2> SUFFICES ASSUME SlabInv, NEW a \in Allocator, NEW p \in SlabPages(a),
                      NEW x \in ToSet(Objects(a, p))
               PROVE  /\ x % obj_align[a] = 0
                      /\ Bytes(a, x) \subseteq p * PAGE_SIZE .. (p + 1) * PAGE_SIZE - SLAB - 1
                      /\ \A y \in ToSet(Objects(a, p)) \ {x} :
                           Bytes(a, x) \cap Bytes(a, y) = {}
    BY DEF ObjectsDisjoint
  <2>1. p \in Page
    BY SlabPagesAre
  <2>2. Room(a) \in Nat \ {0}
    BY ShiftIs
  <2>3. \A y \in ToSet(Objects(a, p)) : \E k \in 1 .. Room(a) : y = Object(a, p, k)
    BY ObjectsIs DEF ToSet
  <2>4. PICK j \in 1 .. Room(a) : x = Object(a, p, j)
    BY <2>3
  <2>5. /\ x \in Nat /\ x % obj_align[a] = 0 /\ x - NODE >= p * PAGE_SIZE
        /\ x + obj_size[a] - 1 <= p * PAGE_SIZE + PAGE_SIZE - SLAB - 1
    BY <2>1, <2>4, ObjectIs
  <2>6. /\ NODE \in Nat /\ obj_size[a] \in Nat /\ PAGE_SIZE \in Nat /\ SLAB \in Nat
        /\ p \in Nat
    BY <2>1, ConstantsAre, SlabAssumption
  <2>7. (p + 1) * PAGE_SIZE = p * PAGE_SIZE + PAGE_SIZE /\ p * PAGE_SIZE \in Nat
    BY <2>6
  <2>8. Bytes(a, x) \subseteq p * PAGE_SIZE .. (p + 1) * PAGE_SIZE - SLAB - 1
    <3> DEFINE b == p * PAGE_SIZE
    <3>1. b \in Nat /\ (p + 1) * PAGE_SIZE = b + PAGE_SIZE
      BY <2>7
    <3>2. x - NODE >= b /\ x + obj_size[a] - 1 <= b + PAGE_SIZE - SLAB - 1
      BY <2>5
    <3> HIDE DEF b
    <3> DEFINE c == (p + 1) * PAGE_SIZE
    <3>3. c = b + PAGE_SIZE
      BY <3>1
    <3> HIDE DEF c
    <3>4. Bytes(a, x) \subseteq b .. c - SLAB - 1
      BY <2>5, <2>6, <3>1, <3>2, <3>3 DEF Bytes
    <3> QED BY <3>4 DEF b, c
  <2>9. ASSUME NEW y \in ToSet(Objects(a, p)) \ {x}
        PROVE  Bytes(a, x) \cap Bytes(a, y) = {}
    <3>1. PICK k \in 1 .. Room(a) : y = Object(a, p, k)
      BY <2>3
    <3>2. y \in Nat
      BY <2>1, <3>1, ObjectIs
    <3>3. j # k /\ j \in Nat /\ k \in Nat
      BY <2>2, <2>4, <2>9, <3>1
    <3>4. CASE j < k
      <4>1. Object(a, p, k) + obj_size[a] <= Object(a, p, j) - NODE
        BY <2>1, <3>4, ObjectsApart
      <4> QED BY <2>4, <2>5, <2>6, <3>1, <3>2, <4>1 DEF Bytes
    <3>5. CASE k < j
      <4>1. Object(a, p, j) + obj_size[a] <= Object(a, p, k) - NODE
        BY <2>1, <3>5, ObjectsApart
      <4> QED BY <2>4, <2>5, <2>6, <3>1, <3>2, <4>1 DEF Bytes
    <3> QED BY <3>3, <3>4, <3>5
  <2> QED BY <2>5, <2>8, <2>9
<1> QED BY <1>1, SlabInvariant, PTL

(* __slab_alloc: while a thread gets a page for an allocator it has its    *)
(* lock, and no slab of the allocator has a free object all the while.     *)
THEOREM SlabsGrowWhenFull == Spec => []GrowsOnlyWhenFull
<1>1. SlabInv => GrowsOnlyWhenFull
  BY DEF SlabInv
<1> QED BY <1>1, SlabInvariant, PTL
=============================================================================
