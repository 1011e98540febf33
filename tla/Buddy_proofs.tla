---------------------------- MODULE Buddy_proofs ----------------------------
(***************************************************************************)
(* Proofs about the page allocator: that its blocks are aligned and share  *)
(* out the available memory, that its lists and the marks inside blocks    *)
(* are in order, and that it implements PageAllocator, for any number of   *)
(* pages and levels and any available pages.                               *)
(***************************************************************************)
EXTENDS Buddy, TLAPS, FiniteSetTheorems, WellFoundedInduction

----------------------------------------------------------------------------
(* Numbers, products, and the powers of 2.                                 *)

LEMMA TimesPositive ==
  ASSUME NEW m \in Nat \ {0}, NEW e \in Int, e >= 1
  PROVE  m * e >= m /\ m * e \in Int
OBVIOUS

LEMMA TimesNegative ==
  ASSUME NEW m \in Nat \ {0}, NEW e \in Int, e <= -1
  PROVE  m * e <= -m /\ m * e \in Int
OBVIOUS

LEMMA DivMod ==
  ASSUME NEW m \in Nat \ {0}, NEW x \in Int
  PROVE  x \div m \in Int /\ x % m \in 0 .. m - 1 /\ x = m * (x \div m) + (x % m)
OBVIOUS

LEMMA DivIs ==
  ASSUME NEW m \in Nat \ {0}, NEW q \in Int, NEW r \in 0 .. m - 1
  PROVE  (m * q + r) \div m = q /\ (m * q + r) % m = r
<1>1. m * q \in Int
  OBVIOUS
<1> DEFINE x == m * q + r
           d == x \div m
           e == q - d
<1>2. x \in Int
  BY <1>1
<1> HIDE DEF x
<1>3. d \in Int /\ x % m \in 0 .. m - 1 /\ x = m * d + (x % m)
  BY <1>2, DivMod
<1>4. e \in Int /\ m * e = (x % m) - r
  <2>1. m * (q - d) = m * q - m * d
    BY <1>3
  <2> QED BY <2>1, <1>3 DEF x
<1>5. ~ (e >= 1)
  <2>1. e >= 1 => m * e >= m
    BY <1>4, TimesPositive
  <2> QED BY <2>1, <1>3, <1>4
<1>6. ~ (e <= -1)
  <2>1. e <= -1 => m * e <= -m
    BY <1>4, TimesNegative
  <2> QED BY <2>1, <1>3, <1>4
<1>7. e = 0
  <2>1. e \in Int
    BY <1>4
  <2> HIDE DEF e
  <2> QED BY <2>1, <1>5, <1>6
<1>8. q = d
  <2>1. d \in Int
    BY <1>3
  <2> HIDE DEF d
  <2> QED BY <2>1, <1>7
<1>9. m * q + r = m * q + (x % m) /\ x % m \in Int
  <2> HIDE DEF d, e
  <2> QED BY <1>1, <1>3, <1>8 DEF x
<1> QED BY <1>1, <1>8, <1>9 DEF x

LEMMA LeastNumber ==
  ASSUME NEW T, T \subseteq Nat, T # {}
  PROVE  \E m \in T : \A k \in T : m <= k
<1> DEFINE R == OpToRel(<, Nat)
<1>1. IsWellFoundedOn(R, Nat)
  BY NatLessThanWellFounded
<1>2. \A x, y \in Nat : <<y, x>> \in R <=> y < x
  BY DEF OpToRel
<1> HIDE DEF R
<1>3. PICK x \in T : \A y \in T : ~ (<<y, x>> \in R)
  BY <1>1, WFMin
<1>4. ASSUME NEW k \in T PROVE x <= k
  <2>1. x \in Nat /\ k \in Nat /\ ~ (k < x)
    BY <1>2, <1>3
  <2> QED BY <2>1
<1> QED BY <1>4

LEMMA PowerIs ==
  ASSUME NEW n \in Nat
  PROVE  /\ IsFiniteSet(SUBSET (1 .. n)) /\ Cardinality(SUBSET (1 .. n)) = 2^n
         /\ 2^n \in Nat \ {0}
<1>1. 1 \in Int /\ n \in Int
  OBVIOUS
<1>2. IsFiniteSet(1 .. n) /\ Cardinality(1 .. n) = IF 1 > n THEN 0 ELSE n - 1 + 1
  BY <1>1, FS_Interval
<1>3. Cardinality(1 .. n) = n
  BY <1>2
<1>4. IsFiniteSet(SUBSET (1 .. n)) /\ Cardinality(SUBSET (1 .. n)) = 2^n
  BY <1>2, <1>3, FS_SUBSET
<1>5. 2^n \in Nat
  BY <1>4, FS_CardinalityType
<1>6. SUBSET (1 .. n) # {}
  OBVIOUS
<1>7. 2^n # 0
  BY <1>4, <1>6, FS_EmptySet
<1> QED BY <1>4, <1>5, <1>7

(* The subsets of 1 .. n + 1 are those of 1 .. n, without n + 1 and with it*)
LEMMA PowerDoubles ==
  ASSUME NEW n \in Nat
  PROVE  2^(n + 1) = 2^n + 2^n
<1> DEFINE A == SUBSET (1 .. n)
           B == {U \cup {n + 1} : U \in A}
           C == SUBSET (1 .. n + 1)
           f == [U \in A |-> U \cup {n + 1}]
<1>1. n + 1 \notin 1 .. n /\ 1 .. n + 1 = (1 .. n) \cup {n + 1}
  OBVIOUS
<1>2. f \in Injection(A, B)
  <2>1. f \in [A -> B]
    OBVIOUS
  <2>2. ASSUME NEW U \in A, NEW V \in A, f[U] = f[V] PROVE U = V
    <3>1. U \cup {n + 1} = V \cup {n + 1}
      BY <2>2
    <3>2. n + 1 \notin U /\ n + 1 \notin V
      BY <1>1
    <3> QED BY <3>1, <3>2
  <2> HIDE DEF f
  <2> QED BY <2>1, <2>2 DEF Injection, IsInjective
<1>3. f \in Surjection(A, B)
  <2>1. f \in [A -> B] /\ \A V \in B : \E U \in A : f[U] = V
    OBVIOUS
  <2> QED BY <2>1 DEF Surjection
<1>4. ExistsBijection(A, B)
  BY <1>2, <1>3 DEF ExistsBijection, Bijection
<1>5. IsFiniteSet(A) /\ Cardinality(A) = 2^n /\ 2^n \in Nat
  BY PowerIs
<1>6. IsFiniteSet(B) /\ Cardinality(B) = 2^n
  BY <1>4, <1>5, FS_Bijection
<1>7. A \cap B = {}
  BY <1>1
<1>8. A \cup B = C
  <2>1. A \subseteq C /\ B \subseteq C
    BY <1>1
  <2>2. ASSUME NEW V \in C, V \notin A PROVE V \in B
    <3>1. n + 1 \in V
      BY <1>1, <2>2
    <3>2. V \ {n + 1} \in A /\ V = (V \ {n + 1}) \cup {n + 1}
      BY <1>1, <3>1
    <3> QED BY <3>2
  <2> HIDE DEF A, B, C
  <2> QED BY <2>1, <2>2
<1>9. Cardinality(C) = 2^(n + 1)
  <2>1. n + 1 \in Nat
    OBVIOUS
  <2> QED BY <2>1, PowerIs
<1>10. Cardinality(A \cup B) = Cardinality(A) + Cardinality(B) - Cardinality(A \cap B)
  <2> HIDE DEF A, B
  <2> QED BY <1>5, <1>6, FS_Union
<1>11. Cardinality(A \cap B) = 0
  BY <1>7, FS_EmptySet
<1> HIDE DEF A, B, C
<1> QED BY <1>5, <1>6, <1>8, <1>9, <1>10, <1>11

LEMMA PowerGrows ==
  ASSUME NEW l \in Nat, NEW m \in Nat, l <= m
  PROVE  2^l <= 2^m
<1> DEFINE T == {k \in Nat : l <= k /\ ~ (2^l <= 2^k)}
<1> SUFFICES ASSUME T # {} PROVE FALSE
  OBVIOUS
<1>1. PICK k \in T : \A j \in T : k <= j
  BY LeastNumber
<1>2. k \in Nat /\ l <= k /\ ~ (2^l <= 2^k) /\ k # l
  <2>1. 2^l \in Nat
    BY PowerIs
  <2> QED BY <2>1
<1>3. k - 1 \in Nat /\ l <= k - 1 /\ k - 1 \notin T
  BY <1>1, <1>2
<1>4. 2^l <= 2^(k - 1)
  BY <1>3
<1>5. 2^((k - 1) + 1) = 2^(k - 1) + 2^(k - 1)
  BY <1>3, PowerDoubles
<1>6. (k - 1) + 1 = k
  BY <1>2
<1>7. 2^k = 2^(k - 1) + 2^(k - 1)
  BY <1>5, <1>6
<1>8. 2^(k - 1) \in Nat /\ 2^l \in Nat
  BY <1>2, <1>3, PowerIs
<1> QED BY <1>2, <1>4, <1>7, <1>8

LEMMA TimesLess ==
  ASSUME NEW d \in Nat \ {0}, NEW a \in Int, NEW b \in Int, d * a < d * b
  PROVE  a < b
<1>1. a - b \in Int /\ d * (a - b) = d * a - d * b /\ d * a \in Int /\ d * b \in Int
  OBVIOUS
<1>2. CASE a - b >= 1
  <2>1. d * (a - b) >= d
    BY <1>1, <1>2, TimesPositive
  <2> QED BY <1>1, <2>1
<1>3. CASE a = b
  BY <1>1, <1>3
<1> QED BY <1>1, <1>2, <1>3

LEMMA TimesAtMost ==
  ASSUME NEW d \in Nat \ {0}, NEW a \in Int, NEW b \in Int, a <= b
  PROVE  d * a <= d * b
<1>1. b - a \in Int /\ d * (b - a) = d * b - d * a /\ d * a \in Int /\ d * b \in Int
  OBVIOUS
<1>2. CASE b - a >= 1
  <2>1. d * (b - a) >= d
    BY <1>1, <1>2, TimesPositive
  <2> QED BY <1>1, <2>1
<1>3. CASE a = b
  BY <1>1, <1>3
<1> QED BY <1>1, <1>2, <1>3

LEMMA PowerDivides ==
  ASSUME NEW i \in Nat, NEW j \in Nat, i <= j
  PROVE  \E c \in Nat \ {0} : 2^j = 2^i * c
<1> DEFINE T == {k \in Nat : i <= k /\ ~ \E c \in Nat \ {0} : 2^k = 2^i * c}
<1> SUFFICES ASSUME T # {} PROVE FALSE
  OBVIOUS
<1>1. PICK k \in T : \A l \in T : k <= l
  BY LeastNumber
<1>2. k \in Nat /\ i <= k /\ ~ \E c \in Nat \ {0} : 2^k = 2^i * c
  OBVIOUS
<1>3. 2^i \in Nat \ {0}
  BY PowerIs
<1>4. k # i
  <2>1. 2^i = 2^i * 1 /\ 1 \in Nat \ {0}
    BY <1>3
  <2> QED BY <1>2, <2>1
<1>5. k - 1 \in Nat /\ i <= k - 1 /\ ~ (k <= k - 1) /\ (k - 1) + 1 = k
  BY <1>2, <1>4
<1>6. k - 1 \notin T
  BY <1>1, <1>5
<1>7. PICK c \in Nat \ {0} : 2^(k - 1) = 2^i * c
  BY <1>5, <1>6
<1>8. 2^((k - 1) + 1) = 2^(k - 1) + 2^(k - 1)
  BY <1>5, PowerDoubles
<1>9. 2^k = 2^(k - 1) + 2^(k - 1)
  BY <1>5, <1>8
<1>10. c + c \in Nat \ {0} /\ 2^i * c + 2^i * c = 2^i * (c + c)
  BY <1>3
<1>11. 2^k = 2^i * (c + c)
  BY <1>7, <1>9, <1>10
<1> QED BY <1>2, <1>10, <1>11

----------------------------------------------------------------------------
(* Blocks: aligned ranges of 2^k pages.                                    *)

Aligned(n, k) == n % 2^k = 0
Span(n, k)    == n .. n + 2^k - 1

LEMMA AlignedIs ==
  ASSUME NEW n \in Nat, NEW k \in Nat
  PROVE  Aligned(n, k) <=> \E q \in Int : n = 2^k * q
<1>1. 2^k \in Nat \ {0}
  BY PowerIs
<1> DEFINE m == 2^k
<1>2. m \in Nat \ {0}
  BY <1>1
<1> HIDE DEF m
<1>3. ASSUME n % m = 0 PROVE \E q \in Int : n = m * q
  <2>1. n \div m \in Int /\ n = m * (n \div m) + (n % m)
    BY <1>2, DivMod
  <2>2. n = m * (n \div m)
    BY <1>2, <1>3, <2>1
  <2> QED BY <2>1, <2>2
<1>4. ASSUME NEW q \in Int, n = m * q PROVE n % m = 0
  <2>1. 0 \in 0 .. m - 1
    BY <1>2
  <2>2. (m * q + 0) % m = 0
    BY <1>2, <2>1, DivIs
  <2> QED BY <1>2, <1>4, <2>2
<1> QED BY <1>3, <1>4 DEF m, Aligned

LEMMA AlignedDown ==
  ASSUME NEW n \in Nat, NEW i \in Nat, NEW j \in Nat, i <= j, Aligned(n, j)
  PROVE  Aligned(n, i)
<1>1. PICK q \in Int : n = 2^j * q
  BY AlignedIs
<1>2. PICK c \in Nat \ {0} : 2^j = 2^i * c
  BY PowerDivides
<1>3. 2^i \in Nat \ {0}
  BY PowerIs
<1>4. (2^i * c) * q = 2^i * (c * q) /\ c * q \in Int
  BY <1>3
<1>5. n = 2^i * (c * q)
  BY <1>1, <1>2, <1>4
<1> QED BY <1>4, <1>5, AlignedIs

(* A page has one level at which it is an upper half.                      *)
LEMMA OneLevel ==
  ASSUME NEW n \in Nat, NEW k \in Nat, NEW l \in Nat, Aligned(n, k), ~Aligned(n, k + 1),
         Aligned(n, l), ~Aligned(n, l + 1)
  PROVE  k = l
<1>1. CASE k < l
  <2>1. k + 1 \in Nat /\ k + 1 <= l
    BY <1>1
  <2> QED BY <2>1, AlignedDown
<1>2. CASE l < k
  <2>1. l + 1 \in Nat /\ l + 1 <= k
    BY <1>2
  <2> QED BY <2>1, AlignedDown
<1> QED BY <1>1, <1>2

(* A block is a lower half or an upper one.                                *)
LEMMA HalvesAre ==
  ASSUME NEW n \in Nat, NEW k \in Nat, Aligned(n, k)
  PROVE  \/ /\ Aligned(n, k + 1) /\ BuddyOf(n, k) = n + 2^k
            /\ Aligned(n + 2^k, k) /\ ~Aligned(n + 2^k, k + 1)
         \/ /\ ~Aligned(n, k + 1) /\ BuddyOf(n, k) = n - 2^k
            /\ n - 2^k \in Nat /\ Aligned(n - 2^k, k + 1)
<1> DEFINE m == 2^k
           q == n \div m
           s == q \div 2
<1>1. m \in Nat \ {0} /\ 2^(k + 1) = m + m /\ k + 1 \in Nat
  <2>1. 2^k \in Nat \ {0}
    BY PowerIs
  <2>2. 2^(k + 1) = 2^k + 2^k
    BY PowerDoubles
  <2> QED BY <2>1, <2>2
<1> HIDE DEF m
<1>2. n % m = 0
  BY DEF Aligned, m
<1>3. q \in Int /\ n = m * q
  <2>1. q \in Int /\ n = m * q + (n % m)
    BY <1>1, DivMod
  <2> QED BY <1>1, <1>2, <2>1
<1>4. BuddyOf(n, k) = IF q % 2 = 0 THEN n + m ELSE n - m
  BY DEF BuddyOf, m
<1> HIDE DEF q
<1>5. s \in Int /\ q % 2 \in 0 .. 1 /\ q = 2 * s + (q % 2)
  <2>1. 2 \in Nat \ {0} /\ 2 - 1 = 1
    OBVIOUS
  <2>2. s \in Int /\ q % 2 \in 0 .. 2 - 1 /\ q = 2 * s + (q % 2)
    BY <1>3, <2>1, DivMod
  <2> QED BY <2>1, <2>2
<1> HIDE DEF s
<1>6. m + m \in Nat \ {0} /\ 0 \in 0 .. (m + m) - 1 /\ m \in 0 .. (m + m) - 1
  BY <1>1
<1>7. ((m + m) * s + 0) % (m + m) = 0
  BY <1>5, <1>6, DivIs
<1>8. ((m + m) * s + m) % (m + m) = m
  BY <1>5, <1>6, DivIs
<1>9. (m + m) * s + 0 = m * (2 * s) /\ (m + m) * s + m = m * (2 * s + 1)
      /\ (m + m) * s \in Int /\ 2 * s \in Int
  BY <1>1, <1>5
<1>10. CASE q % 2 = 0
  <2>1. q = 2 * s
    BY <1>5, <1>10
  <2>2. n = (m + m) * s + 0
    BY <1>3, <1>9, <2>1
  <2>3. Aligned(n, k + 1)
    BY <1>1, <1>7, <2>2 DEF Aligned
  <2>4. n + m = (m + m) * s + m
    BY <1>1, <1>9, <2>2
  <2>5. ~Aligned(n + m, k + 1)
    BY <1>1, <1>8, <2>4 DEF Aligned
  <2>6. Aligned(n + m, k)
    <3>1. n + m = m * (2 * s + 1) /\ 2 * s + 1 \in Int /\ n + m \in Nat
      BY <1>1, <1>9, <2>4
    <3> QED BY <3>1, AlignedIs DEF m
  <2> QED BY <1>4, <1>10, <2>3, <2>5, <2>6 DEF m
<1>11. CASE q % 2 # 0
  <2>1. q = 2 * s + 1
    BY <1>5, <1>11
  <2>2. n = (m + m) * s + m
    BY <1>3, <1>9, <2>1
  <2>3. ~Aligned(n, k + 1)
    BY <1>1, <1>8, <2>2 DEF Aligned
  <2>4. n - m = (m + m) * s + 0
    BY <1>1, <1>9, <2>2
  <2>5. Aligned(n - m, k + 1)
    BY <1>1, <1>7, <2>4 DEF Aligned
  <2>6. n - m \in Nat
    <3>1. ~ (s <= -1)
      <4>1. s <= -1 => (m + m) * s <= -(m + m)
        BY <1>5, <1>6, TimesNegative
      <4> QED BY <1>1, <1>9, <2>2, <4>1
    <3>2. s >= 1 => (m + m) * s >= m + m
      BY <1>5, <1>6, TimesPositive
    <3>3. s = 0 => (m + m) * s = 0
      BY <1>6
    <3>4. (m + m) * s >= 0
      BY <1>1, <1>5, <1>9, <3>1, <3>2, <3>3
    <3> QED BY <1>9, <2>4, <3>4
  <2> QED BY <1>4, <1>11, <2>3, <2>5, <2>6 DEF m
<1> QED BY <1>10, <1>11

(* Of two blocks with a common page the smaller one is inside the other.   *)
LEMMA Nested ==
  ASSUME NEW i \in Nat, NEW j \in Nat, i <= j, NEW n \in Nat, NEW m \in Nat,
         Aligned(n, i), Aligned(m, j), NEW x \in Span(n, i), x \in Span(m, j)
  PROVE  Span(n, i) \subseteq Span(m, j) /\ m <= n
<1> DEFINE d == 2^i
<1>1. d \in Nat \ {0}
  BY PowerIs
<1>2. PICK c \in Nat \ {0} : 2^j = d * c
  BY PowerDivides
<1>3. PICK a \in Int : n = d * a
  BY AlignedIs
<1>4. PICK e \in Int : m = 2^j * e
  BY AlignedIs
<1> HIDE DEF d
<1> DEFINE b == c * e
<1>5. b \in Int /\ m = d * b
  <2>1. (d * c) * e = d * (c * e) /\ c * e \in Int
    BY <1>1
  <2> QED BY <1>2, <1>4, <2>1
<1> HIDE DEF b
<1>6. /\ x \in Int /\ n <= x /\ x < n + d /\ m <= x /\ x < m + d * c
      /\ d * c \in Nat
  <2>1. d * c \in Nat
    BY <1>1
  <2> QED BY <1>1, <1>2, <2>1 DEF Span, d
<1>7. d * (b + c) = d * b + d * c /\ d * (a + 1) = d * a + d
  BY <1>1, <1>5
<1>8. a < b + c
  <2>1. d * a < d * (b + c)
    BY <1>1, <1>3, <1>5, <1>6, <1>7
  <2> QED BY <1>1, <1>5, <2>1, TimesLess
<1>9. b < a + 1
  <2>1. d * b < d * (a + 1)
    BY <1>1, <1>3, <1>5, <1>6, <1>7
  <2> QED BY <1>1, <1>5, <2>1, TimesLess
<1>10. d * (a + 1) <= d * (b + c)
  <2>1. a + 1 <= b + c /\ a + 1 \in Int /\ b + c \in Int
    BY <1>5, <1>8
  <2> QED BY <1>1, <2>1, TimesAtMost
<1>11. d * b <= d * a
  <2>1. b <= a
    BY <1>5, <1>9
  <2> QED BY <1>1, <1>5, <2>1, TimesAtMost
<1>12. n + d <= m + d * c /\ m <= n
  BY <1>1, <1>3, <1>5, <1>6, <1>7, <1>10, <1>11
<1>13. n .. n + d - 1 \subseteq m .. m + d * c - 1
  BY <1>1, <1>6, <1>12
<1>14. 2^j = d * c
  BY <1>2
<1> QED BY <1>12, <1>13, <1>14 DEF Span, d

LEMMA SpanIs ==
  ASSUME NEW n \in Nat, NEW k \in Nat
  PROVE  /\ n \in Span(n, k) /\ Span(n, k) \subseteq Nat
         /\ \A x \in Span(n, k) : n <= x
         /\ n + 2^k \in Nat /\ n < n + 2^k
         /\ Span(n, k + 1) = Span(n, k) \cup Span(n + 2^k, k)
         /\ Span(n, k) \cap Span(n + 2^k, k) = {}
<1> DEFINE m == 2^k
<1>1. m \in Nat \ {0}
  BY PowerIs
<1>2. 2^(k + 1) = m + m
  BY PowerDoubles
<1> HIDE DEF m
<1>3. n .. n + (m + m) - 1 = (n .. n + m - 1) \cup (n + m .. (n + m) + m - 1)
  BY <1>1
<1>4. (n .. n + m - 1) \cap (n + m .. (n + m) + m - 1) = {}
  BY <1>1
<1>5. n \in n .. n + m - 1 /\ n .. n + m - 1 \subseteq Nat /\ n < n + m /\ n + m \in Nat
      /\ \A x \in n .. n + m - 1 : n <= x
  BY <1>1
<1> QED BY <1>2, <1>3, <1>4, <1>5 DEF Span, m

(* A set of blocks that shares out the available pages.                    *)
BlockSet(S) ==
  /\ \A b \in S : /\ b = <<b[1], b[2]>> /\ b[1] \in Nat /\ b[2] \in 0 .. LEVELS - 2
                  /\ Aligned(b[1], b[2]) /\ Span(b[1], b[2]) \subseteq Free0
  /\ \A b, d \in S : b # d => Span(b[1], b[2]) \cap Span(d[1], d[2]) = {}
  /\ \A p \in Free0 : \E b \in S : p \in Span(b[1], b[2])

(* The nodes inside blocks are what merging has made of them.              *)
Half(n, k) == k \in Nat /\ Aligned(n, k) /\ ~Aligned(n, k + 1)
Marks(S, marked, at) ==
  \A b \in S : \A n \in Span(b[1], b[2]) \ {b[1]} : marked[n] /\ Half(n, at[n])

(* No block of the last level is available.                                *)
LEMMA NoLastLevel ==
  ASSUME NEW n \in Nat, NEW k \in Nat, Aligned(n, k), Span(n, k) \subseteq Free0, k <= LEVELS - 1
  PROVE  k <= LEVELS - 2 /\ n \in 1 .. nodes_count - 1
<1>1. LEVELS \in Nat /\ LEVELS >= 2 /\ LEVELS - 1 \in Nat /\ (LEVELS - 1) + 1 = LEVELS
      /\ Free0 \subseteq 1 .. nodes_count - 1 /\ nodes_count \in 1 .. 2^LEVELS - 1
  BY BuddyAssumption
<1> DEFINE m == 2^(LEVELS - 1)
<1>2. m \in Nat \ {0}
  BY <1>1, PowerIs
<1>3. 2^((LEVELS - 1) + 1) = m + m
  BY <1>1, PowerDoubles
<1> HIDE DEF m
<1>4. 2^LEVELS = m + m
  BY <1>1, <1>3
<1>5. n \in Span(n, k)
  BY SpanIs
<1>6. n \in 1 .. nodes_count - 1
  BY <1>1, <1>5
<1>7. k # LEVELS - 1
  <2>1. SUFFICES ASSUME k = LEVELS - 1 PROVE FALSE
    OBVIOUS
  <2>2. PICK q \in Int : n = 2^k * q
    BY AlignedIs
  <2>3. n = m * q
    BY <2>1, <2>2 DEF m
  <2>4. q >= 1
    <3>1. q = 0 => n = 0
      BY <1>2, <2>3
    <3>2. q <= -1 => m * q <= -m
      BY <1>2, TimesNegative
    <3> QED BY <1>1, <1>2, <1>6, <2>3, <3>1, <3>2
  <2>5. m * q >= m
    BY <1>2, <2>4, TimesPositive
  <2>6. Span(n, k) = n .. n + m - 1
    BY <2>1 DEF Span, m
  <2>7. n + m - 1 \in Span(n, k)
    BY <1>2, <2>6
  <2>8. n + m - 1 \in 1 .. nodes_count - 1
    BY <1>1, <2>7
  <2>9. n + m - 1 <= (m + m) - 2
    BY <1>1, <1>2, <1>4, <2>8
  <2> QED BY <1>2, <2>3, <2>5, <2>9
<1> QED BY <1>1, <1>6, <1>7

LEMMA SplitBlock ==
  ASSUME NEW S, BlockSet(S), NEW n \in Nat, NEW k \in Nat, <<n, k + 1>> \in S
  PROVE  /\ BlockSet((S \ {<<n, k + 1>>}) \cup {<<n, k>>, <<n + 2^k, k>>})
         /\ BuddyOf(n, k) = n + 2^k /\ n + 2^k \in Span(n, k + 1) \ {n}
         /\ n + 2^k \in Nat /\ Half(n + 2^k, k)
<1> DEFINE m == n + 2^k
           old == <<n, k + 1>>
           low == <<n, k>>
           up == <<m, k>>
           N == (S \ {old}) \cup {low, up}
<1>1. k + 1 \in 0 .. LEVELS - 2 /\ Aligned(n, k + 1) /\ Span(n, k + 1) \subseteq Free0
  <2>1. old[1] = n /\ old[2] = k + 1
    OBVIOUS
  <2> QED BY <2>1 DEF BlockSet
<1>2. k \in 0 .. LEVELS - 2
  BY <1>1, BuddyAssumption
<1>3. Aligned(n, k)
  <2>1. k + 1 \in Nat /\ k <= k + 1
    OBVIOUS
  <2> QED BY <1>1, <2>1, AlignedDown
<1>4. BuddyOf(n, k) = m /\ Aligned(m, k) /\ ~Aligned(m, k + 1)
  BY <1>1, <1>3, HalvesAre
<1>5. /\ m \in Nat /\ n < m /\ m \in Span(m, k)
      /\ Span(n, k + 1) = Span(n, k) \cup Span(m, k) /\ Span(n, k) \cap Span(m, k) = {}
  BY SpanIs
<1> HIDE DEF m
<1>6. low[1] = n /\ low[2] = k /\ up[1] = m /\ up[2] = k /\ old[1] = n /\ old[2] = k + 1
  OBVIOUS
<1>7. \A b \in S : b # old => Span(b[1], b[2]) \cap Span(n, k + 1) = {}
  BY <1>6 DEF BlockSet
<1> HIDE DEF old, low, up
<1>8. \A b \in N : /\ b = <<b[1], b[2]>> /\ b[1] \in Nat /\ b[2] \in 0 .. LEVELS - 2
                   /\ Aligned(b[1], b[2]) /\ Span(b[1], b[2]) \subseteq Free0
  <2> TAKE b \in N
  <2>1. CASE b \in S
    BY <2>1 DEF BlockSet
  <2>2. CASE b = low
    <3>1. b = <<b[1], b[2]>>
      BY <2>2 DEF low
    <3> QED BY <1>1, <1>2, <1>3, <1>5, <1>6, <2>2, <3>1
  <2>3. CASE b = up
    <3>1. b = <<b[1], b[2]>>
      BY <2>3 DEF up
    <3> QED BY <1>1, <1>2, <1>4, <1>5, <1>6, <2>3, <3>1
  <2> QED BY <2>1, <2>2, <2>3
<1>9. ASSUME NEW b \in N, NEW d \in N, b # d
      PROVE  Span(b[1], b[2]) \cap Span(d[1], d[2]) = {}
  <2>1. CASE b \in S \ {old} /\ d \in S \ {old}
    BY <1>9, <2>1 DEF BlockSet
  <2>2. CASE b \in S \ {old} /\ d \in {low, up}
    BY <1>5, <1>6, <1>7, <2>2
  <2>3. CASE b \in {low, up} /\ d \in S \ {old}
    BY <1>5, <1>6, <1>7, <2>3
  <2>4. CASE b \in {low, up} /\ d \in {low, up}
    BY <1>5, <1>6, <1>9, <2>4
  <2> QED BY <2>1, <2>2, <2>3, <2>4
<1>10. ASSUME NEW p \in Free0 PROVE \E b \in N : p \in Span(b[1], b[2])
  <2>1. PICK b \in S : p \in Span(b[1], b[2])
    BY DEF BlockSet
  <2> QED BY <1>5, <1>6, <2>1
<1>11. BlockSet(N)
  BY <1>8, <1>9, <1>10 DEF BlockSet
<1>12. m \in Span(n, k + 1) \ {n} /\ Half(m, k)
  BY <1>4, <1>5 DEF Half
<1> QED BY <1>4, <1>5, <1>11, <1>12 DEF m, old, low, up

LEMMA JoinBlocks ==
  ASSUME NEW S, BlockSet(S), NEW n \in Nat, NEW k \in Nat, Aligned(n, k + 1),
         <<n, k>> \in S, <<n + 2^k, k>> \in S
  PROVE  /\ BlockSet((S \ {<<n, k>>, <<n + 2^k, k>>}) \cup {<<n, k + 1>>})
         /\ k + 1 \in 0 .. LEVELS - 2
         /\ n + 2^k \in Nat /\ Half(n + 2^k, k)
<1> DEFINE m == n + 2^k
           new == <<n, k + 1>>
           low == <<n, k>>
           up == <<m, k>>
           N == (S \ {low, up}) \cup {new}
<1>1. low[1] = n /\ low[2] = k /\ up[1] = m /\ up[2] = k /\ new[1] = n /\ new[2] = k + 1
  OBVIOUS
<1>2. k \in 0 .. LEVELS - 2 /\ Aligned(n, k) /\ Span(n, k) \subseteq Free0
      /\ Aligned(m, k) /\ Span(m, k) \subseteq Free0
  BY <1>1 DEF BlockSet
<1>3. /\ m \in Nat /\ n < m
      /\ Span(n, k + 1) = Span(n, k) \cup Span(m, k) /\ Span(n, k) \cap Span(m, k) = {}
  BY SpanIs
<1>4. BuddyOf(n, k) = m /\ Aligned(m, k) /\ ~Aligned(m, k + 1)
  BY <1>2, HalvesAre
<1> HIDE DEF m
<1>5. k + 1 \in 0 .. LEVELS - 2
  <2>1. Span(n, k + 1) \subseteq Free0
    BY <1>2, <1>3
  <2>2. k + 1 \in Nat /\ k + 1 <= LEVELS - 1
    BY <1>2, BuddyAssumption
  <2>3. k + 1 <= LEVELS - 2
    BY <2>1, <2>2, NoLastLevel
  <2> QED BY <2>2, <2>3, BuddyAssumption
<1> HIDE DEF new, low, up
<1>6. \A b \in S : b \notin {low, up} => Span(b[1], b[2]) \cap Span(n, k + 1) = {}
  <2> TAKE b \in S
  <2>1. b # low => Span(b[1], b[2]) \cap Span(low[1], low[2]) = {}
    BY DEF BlockSet, low
  <2>2. b # up => Span(b[1], b[2]) \cap Span(up[1], up[2]) = {}
    BY DEF BlockSet, up, m
  <2> QED BY <1>1, <1>3, <2>1, <2>2
<1>7. \A b \in N : /\ b = <<b[1], b[2]>> /\ b[1] \in Nat /\ b[2] \in 0 .. LEVELS - 2
                   /\ Aligned(b[1], b[2]) /\ Span(b[1], b[2]) \subseteq Free0
  <2> TAKE b \in N
  <2>1. CASE b \in S
    BY <2>1 DEF BlockSet
  <2>2. CASE b = new
    <3>1. b = <<b[1], b[2]>>
      BY <2>2 DEF new
    <3> QED BY <1>1, <1>2, <1>3, <1>5, <2>2, <3>1
  <2> QED BY <2>1, <2>2
<1>8. ASSUME NEW b \in N, NEW d \in N, b # d
      PROVE  Span(b[1], b[2]) \cap Span(d[1], d[2]) = {}
  <2>1. CASE b \in S \ {low, up} /\ d \in S \ {low, up}
    BY <1>8, <2>1 DEF BlockSet
  <2>2. CASE b \in S \ {low, up} /\ d = new
    BY <1>1, <1>6, <2>2
  <2>3. CASE b = new /\ d \in S \ {low, up}
    BY <1>1, <1>6, <2>3
  <2> QED BY <1>8, <2>1, <2>2, <2>3
<1>9. ASSUME NEW p \in Free0 PROVE \E b \in N : p \in Span(b[1], b[2])
  <2>1. PICK b \in S : p \in Span(b[1], b[2])
    BY DEF BlockSet
  <2> QED BY <1>1, <1>3, <2>1
<1>10. BlockSet(N)
  BY <1>7, <1>8, <1>9 DEF BlockSet
<1>11. Half(m, k)
  BY <1>4 DEF Half
<1> QED BY <1>3, <1>5, <1>10, <1>11 DEF m, new, low, up

(* A buddy that looks free is where a block begins.                        *)
LEMMA BuddyBegins ==
  ASSUME NEW S, BlockSet(S), NEW marked, NEW at, Marks(S, marked, at),
         NEW n \in Nat, NEW k \in Nat, <<n, k>> \in S,
         BuddyOf(n, k) \in Free0, at[BuddyOf(n, k)] = k
  PROVE  \E b \in S : b[1] = BuddyOf(n, k)
<1> DEFINE m == BuddyOf(n, k)
<1>1. k \in 0 .. LEVELS - 2 /\ Aligned(n, k)
  <2>1. <<n, k>>[1] = n /\ <<n, k>>[2] = k
    OBVIOUS
  <2> QED BY <2>1 DEF BlockSet
<1>2. PICK low \in Nat : /\ Aligned(low, k + 1)
                         /\ n \in Span(low, k + 1) /\ m \in Span(low, k + 1)
  <2>1. CASE Aligned(n, k + 1)
    <3>1. m = n + 2^k
      BY <1>1, <2>1, HalvesAre
    <3>2. /\ n \in Span(n, k) /\ n + 2^k \in Nat
          /\ Span(n, k + 1) = Span(n, k) \cup Span(n + 2^k, k)
      BY SpanIs
    <3>3. n + 2^k \in Span(n + 2^k, k)
      BY <3>2, SpanIs
    <3> QED BY <2>1, <3>1, <3>2, <3>3
  <2>2. CASE ~Aligned(n, k + 1)
    <3>1. m = n - 2^k /\ m \in Nat /\ Aligned(m, k + 1)
      BY <1>1, <2>2, HalvesAre
    <3>2. m + 2^k = n
      <4>1. 2^k \in Nat
        BY PowerIs
      <4> QED BY <3>1, <4>1
    <3> HIDE DEF m
    <3>3. /\ m \in Span(m, k) /\ Span(m, k + 1) = Span(m, k) \cup Span(m + 2^k, k)
      BY <3>1, SpanIs
    <3>4. n \in Span(n, k)
      BY SpanIs
    <3>5. n \in Span(m, k + 1) /\ m \in Span(m, k + 1)
      BY <3>2, <3>3, <3>4
    <3> QED BY <3>1, <3>5 DEF m
  <2> QED BY <2>1, <2>2
<1>3. m \in Nat /\ m \in Free0 /\ at[m] = k
  <2>1. Free0 \subseteq Nat
    BY BuddyAssumption
  <2>2. m \in Free0 /\ at[m] = k
    OBVIOUS
  <2> HIDE DEF m
  <2> QED BY <2>1, <2>2
<1> HIDE DEF m
<1>4. PICK b \in S : m \in Span(b[1], b[2])
  BY <1>3 DEF BlockSet
<1>5. b[1] \in Nat /\ b[2] \in Nat /\ Aligned(b[1], b[2])
  BY <1>4, BuddyAssumption DEF BlockSet
<1>6. SUFFICES ASSUME b[1] # m PROVE FALSE
  BY DEF m
<1>7. Half(m, k)
  BY <1>3, <1>4, <1>6 DEF Marks
<1>8. b[1] <= m
  <2>1. \A x \in Span(b[1], b[2]) : b[1] <= x
    BY <1>5, SpanIs
  <2> QED BY <1>4, <2>1
<1>9. CASE b[2] <= k
  <2>1. Aligned(m, k) /\ m \in Span(m, k)
    BY <1>3, <1>7, SpanIs DEF Half
  <2>2. m <= b[1]
    BY <1>3, <1>4, <1>5, <1>9, <2>1, Nested
  <2> QED BY <1>3, <1>5, <1>6, <1>8, <2>2
<1>10. CASE b[2] > k
  <2>1. k + 1 \in Nat /\ k + 1 <= b[2]
    BY <1>5, <1>10
  <2>2. Span(low, k + 1) \subseteq Span(b[1], b[2])
    BY <1>2, <1>4, <1>5, <2>1, Nested
  <2>3. n \in Span(n, k) /\ n \in Span(b[1], b[2])
    BY <1>2, <2>2, SpanIs
  <2>4. <<n, k>>[1] = n /\ <<n, k>>[2] = k
    OBVIOUS
  <2>5. b = <<n, k>>
    BY <2>3, <2>4 DEF BlockSet
  <2>6. b[2] = k
    BY <2>4, <2>5
  <2> QED BY <1>10, <2>6
<1> QED BY <1>5, <1>9, <1>10

(* An aligned range of smaller blocks holds two that are each other's buddy*)
LEMMA TwoHalves ==
  ASSUME NEW S, BlockSet(S), NEW n \in Nat, NEW r \in Nat,
         Aligned(n, r), Span(n, r) \subseteq Free0,
         \A b \in S : Span(b[1], b[2]) \cap Span(n, r) # {} => b[2] < r
  PROVE  \E b, d \in S : /\ Span(b[1], b[2]) \subseteq Span(n, r)
                         /\ Span(d[1], d[2]) \subseteq Span(n, r)
                         /\ b[2] = d[2] /\ d[1] = BuddyOf(b[1], b[2])
<1> DEFINE T == {b \in S : Span(b[1], b[2]) \cap Span(n, r) # {}}
           L == {b[2] : b \in T}
<1>1. \A b \in S : b[1] \in Nat /\ b[2] \in Nat /\ Aligned(b[1], b[2])
  BY BuddyAssumption DEF BlockSet
<1>2. ASSUME NEW b \in T PROVE Span(b[1], b[2]) \subseteq Span(n, r)
  <2>1. PICK x \in Span(b[1], b[2]) : x \in Span(n, r)
    OBVIOUS
  <2>2. b \in S /\ Span(b[1], b[2]) \cap Span(n, r) # {}
    OBVIOUS
  <2>3. b[1] \in Nat /\ b[2] \in Nat /\ Aligned(b[1], b[2]) /\ b[2] < r
    BY <1>1, <2>2
  <2>4. b[2] <= r
    BY <2>3
  <2> QED BY <2>1, <2>3, <2>4, Nested
<1>3. L \subseteq Nat /\ L # {}
  <2>1. n \in Span(n, r)
    BY SpanIs
  <2>2. n \in Free0
    BY <2>1
  <2>3. PICK b \in S : n \in Span(b[1], b[2])
    BY <2>2 DEF BlockSet
  <2>4. b \in T
    BY <2>1, <2>3
  <2>5. \A x \in L : x \in Nat
    BY <1>1
  <2> QED BY <2>4, <2>5
<1>4. PICK j \in L : \A k \in L : j <= k
  <2> HIDE DEF L
  <2> QED BY <1>3, LeastNumber
<1>5. PICK b \in T : b[2] = j
  OBVIOUS
<1> DEFINE c == b[1]
           m == BuddyOf(c, j)
<1>6. j \in Nat /\ j < r /\ c \in Nat /\ Aligned(c, j) /\ b \in S /\ j + 1 \in Nat
  BY <1>1, <1>5
<1>7. c \in Span(c, j) /\ Span(c, j) \subseteq Span(n, r)
  BY <1>2, <1>5, <1>6, SpanIs
<1> HIDE DEF c
<1>8. PICK low \in Nat : /\ Aligned(low, j + 1) /\ m \in Nat /\ Aligned(m, j)
                         /\ c \in Span(low, j + 1) /\ m \in Span(low, j + 1)
  <2>1. CASE Aligned(c, j + 1)
    <3>1. m = c + 2^j /\ Aligned(m, j)
      BY <1>6, <2>1, HalvesAre
    <3>2. /\ c \in Span(c, j) /\ c + 2^j \in Nat
          /\ Span(c, j + 1) = Span(c, j) \cup Span(c + 2^j, j)
      BY <1>6, SpanIs
    <3>3. c + 2^j \in Span(c + 2^j, j)
      BY <1>6, <3>2, SpanIs
    <3> QED BY <1>6, <2>1, <3>1, <3>2, <3>3
  <2>2. CASE ~Aligned(c, j + 1)
    <3>1. m = c - 2^j /\ m \in Nat /\ Aligned(m, j + 1)
      BY <1>6, <2>2, HalvesAre
    <3>2. m + 2^j = c
      <4>1. 2^j \in Nat
        BY <1>6, PowerIs
      <4> QED BY <1>6, <3>1, <4>1
    <3> HIDE DEF m
    <3>3. m \in Span(m, j) /\ Span(m, j + 1) = Span(m, j) \cup Span(m + 2^j, j)
      BY <1>6, <3>1, SpanIs
    <3>4. c \in Span(m, j + 1) /\ m \in Span(m, j + 1)
      BY <1>7, <3>2, <3>3
    <3>5. Aligned(m, j)
      <4>1. j <= j + 1
        BY <1>6
      <4> QED BY <1>6, <3>1, <4>1, AlignedDown
    <3> QED BY <3>1, <3>4, <3>5
  <2> QED BY <2>1, <2>2
<1> HIDE DEF m
<1>9. Span(low, j + 1) \subseteq Span(n, r)
  <2>1. j + 1 <= r /\ c \in Span(n, r)
    BY <1>6, <1>7
  <2> QED BY <1>6, <1>8, <2>1, Nested
<1>10. PICK d \in S : m \in Span(d[1], d[2])
  BY <1>8, <1>9 DEF BlockSet
<1>11. d \in T /\ j <= d[2]
  <2>1. d \in T
    BY <1>8, <1>9, <1>10
  <2> QED BY <1>4, <2>1
<1>12. ~ (d[2] > j)
  <2> SUFFICES ASSUME d[2] > j PROVE FALSE
    OBVIOUS
  <2>1. j + 1 <= d[2]
    BY <1>1, <1>6
  <2>2. Span(low, j + 1) \subseteq Span(d[1], d[2])
    BY <1>1, <1>6, <1>8, <1>10, <2>1, Nested
  <2>3. c \in Span(b[1], b[2]) /\ c \in Span(d[1], d[2])
    BY <1>5, <1>7, <1>8, <2>2 DEF c
  <2>4. b = d
    BY <1>6, <2>3 DEF BlockSet
  <2> QED BY <1>5, <1>6, <2>4
<1>13. d[2] = j
  BY <1>1, <1>6, <1>11, <1>12
<1>14. m \in Span(m, j) /\ m \in Span(d[1], j)
  BY <1>6, <1>8, <1>10, <1>13, SpanIs
<1>15. d[1] \in Nat /\ Aligned(d[1], j) /\ j <= j
  BY <1>1, <1>6, <1>13
<1>16. m <= d[1]
  BY <1>6, <1>8, <1>14, <1>15, Nested
<1>17. d[1] <= m
  BY <1>6, <1>14, <1>15, SpanIs
<1>18. d[1] = m
  BY <1>8, <1>15, <1>16, <1>17
<1> QED BY <1>2, <1>5, <1>6, <1>11, <1>13, <1>18 DEF m, c

----------------------------------------------------------------------------
(* The free lists.                                                         *)

LEMMA NumbersAre ==
  /\ LEVELS \in Nat /\ NULL \in Num /\ NULL \in Int /\ NULL < 0 /\ 0 \in Real
  /\ Real \subseteq Num /\ Real \subseteq Nat /\ Start(LEVELS - 1) = 0
  /\ \A k \in 0 .. LEVELS - 2 :
       Start(k) \in Num /\ Start(k) \in Int /\ NULL < Start(k) /\ Start(k) < 0
  /\ \A k, j \in 0 .. LEVELS - 2 : Start(k) = Start(j) => k = j
<1>1. LEVELS \in Nat /\ LEVELS >= 2 /\ nodes_count \in Nat /\ nodes_count >= 1
  <2>1. 2^LEVELS \in Nat
    BY BuddyAssumption, PowerIs
  <2> QED BY <2>1, BuddyAssumption
<1> QED BY <1>1 DEF NULL, Num, Real, Start

(* F are the nodes on the lists; rank falls along each of them.            *)
ListsAre(l, at, F, rank, top) ==
  /\ l \in [prev : [Num -> Num], next : [Num -> Num]]
  /\ F \subseteq Real \ {0} /\ rank \in [Real -> Nat] /\ top \in Nat
  /\ \A n \in F : at[n] \in 0 .. LEVELS - 2 /\ rank[n] < top
  /\ \A n \in F : \/ l.prev[n] = Start(at[n])
                  \/ /\ l.prev[n] \in F /\ at[l.prev[n]] = at[n]
                     /\ rank[n] < rank[l.prev[n]]
  /\ \A n \in F : l.next[l.prev[n]] = n
  /\ \A n \in F : l.next[n] = NULL \/ (l.next[n] \in F /\ l.prev[l.next[n]] = n)
  /\ \A k \in 0 .. LEVELS - 2 :
       \/ l.next[Start(k)] = NULL
       \/ l.next[Start(k)] \in F /\ l.prev[l.next[Start(k)]] = Start(k)
  /\ l.prev[0] = NULL /\ l.next[0] = NULL

LEMMA InsertIs ==
  ASSUME NEW l \in [prev : [Num -> Num], next : [Num -> Num]],
         NEW n \in Num, NEW before \in Num, before # n, l.next[before] # n
  PROVE  LET after == l.next[before]
             new == Insert(l, n, before)
         IN /\ new \in [prev : [Num -> Num], next : [Num -> Num]]
            /\ \A x \in Num : new.next[x] = IF x = before THEN n
                                            ELSE IF x = n THEN after ELSE l.next[x]
            /\ \A x \in Num : new.prev[x] = IF x = n THEN before
                                            ELSE IF x = after /\ after # NULL THEN n
                                            ELSE l.prev[x]
<1> DEFINE after == l.next[before]
           nx == [l.next EXCEPT ![n] = after, ![before] = n]
           pv == IF after = NULL THEN [l.prev EXCEPT ![n] = before]
                 ELSE [l.prev EXCEPT ![n] = before, ![after] = n]
<1>1. l.next \in [Num -> Num] /\ l.prev \in [Num -> Num] /\ after \in Num
  OBVIOUS
<1>2. Insert(l, n, before) = [next |-> nx, prev |-> pv]
  BY DEF Insert
<1>3. Insert(l, n, before).next = nx /\ Insert(l, n, before).prev = pv
  BY <1>2
<1>4. nx \in [Num -> Num] /\ pv \in [Num -> Num]
  BY <1>1
<1>5. \A x \in Num : nx[x] = IF x = before THEN n ELSE IF x = n THEN after ELSE l.next[x]
  BY <1>1
<1>6. \A x \in Num : pv[x] = IF x = n THEN before
                             ELSE IF x = after /\ after # NULL THEN n ELSE l.prev[x]
  BY <1>1
<1>7. [next |-> nx, prev |-> pv] \in [prev : [Num -> Num], next : [Num -> Num]]
  BY <1>4
<1> QED BY <1>2, <1>3, <1>5, <1>6, <1>7

LEMMA DeleteIs ==
  ASSUME NEW l \in [prev : [Num -> Num], next : [Num -> Num]],
         NEW n \in Num, l.prev[n] # 0, l.next[n] # 0, l.prev[n] # n, l.next[n] # n
  PROVE  LET p == l.prev[n]
             q == l.next[n]
             new == Delete(l, n)
         IN /\ new \in [prev : [Num -> Num], next : [Num -> Num]]
            /\ \A x \in Num : new.next[x] = IF x = n THEN NULL ELSE IF x = p THEN q ELSE l.next[x]
            /\ \A x \in Num : new.prev[x] = IF x = n THEN NULL ELSE IF x = q THEN p ELSE l.prev[x]
<1> DEFINE p == l.prev[n]
           q == l.next[n]
           nx == [l.next EXCEPT ![p] = q, ![n] = NULL]
           pv == [l.prev EXCEPT ![q] = p, ![n] = NULL]
<1>1. l.next \in [Num -> Num] /\ l.prev \in [Num -> Num] /\ p \in Num /\ q \in Num
      /\ NULL \in Num
  BY NumbersAre
<1>2. Delete(l, n) = [next |-> nx, prev |-> pv]
  BY DEF Delete
<1>3. Delete(l, n).next = nx /\ Delete(l, n).prev = pv
  BY <1>2
<1>4. nx \in [Num -> Num] /\ pv \in [Num -> Num]
  BY <1>1
<1>5. \A x \in Num : nx[x] = IF x = n THEN NULL ELSE IF x = p THEN q ELSE l.next[x]
  BY <1>1
<1>6. \A x \in Num : pv[x] = IF x = n THEN NULL ELSE IF x = q THEN p ELSE l.prev[x]
  BY <1>1
<1>7. [next |-> nx, prev |-> pv] \in [prev : [Num -> Num], next : [Num -> Num]]
  BY <1>4
<1> QED BY <1>2, <1>3, <1>5, <1>6, <1>7

LEMMA InsertKeeps ==
  ASSUME NEW l, NEW at, NEW F, NEW rank, NEW top, ListsAre(l, at, F, rank, top),
         NEW n \in Real \ {0}, n \notin F, at[n] \in 0 .. LEVELS - 2
  PROVE  ListsAre(Insert(l, n, Start(at[n])), at, F \cup {n}, [rank EXCEPT ![n] = top], top + 1)
<1> DEFINE s == Start(at[n])
           after == l.next[s]
           new == Insert(l, n, s)
           rank2 == [rank EXCEPT ![n] = top]
<1>1. /\ l \in [prev : [Num -> Num], next : [Num -> Num]]
      /\ F \subseteq Real \ {0} /\ rank \in [Real -> Nat] /\ top \in Nat
  BY DEF ListsAre
<1>2. s \in Num /\ s \in Int /\ NULL < s /\ s < 0 /\ NULL \in Int /\ NULL < 0
  BY NumbersAre
<1>3. n \in Num /\ n \in Nat /\ n # 0 /\ \A x \in F : x \in Num /\ x \in Nat /\ x # 0 /\ x # n
  BY <1>1, NumbersAre
<1>4. after = NULL \/ (after \in F /\ l.prev[after] = s)
  BY DEF ListsAre
<1>5. after \in F => at[after] = at[n]
  <2> SUFFICES ASSUME after \in F PROVE at[after] = at[n]
    OBVIOUS
  <2>1. l.prev[after] = s
    BY <1>2, <1>3, <1>4
  <2>2. l.prev[after] \notin F
    BY <1>2, <1>3, <2>1
  <2>3. s = Start(at[after]) /\ at[after] \in 0 .. LEVELS - 2
    BY <2>1, <2>2 DEF ListsAre
  <2> QED BY <2>3, NumbersAre
<1>6. s # n /\ after # n /\ after # 0 /\ after # s
  BY <1>2, <1>3, <1>4
<1>7. /\ new \in [prev : [Num -> Num], next : [Num -> Num]]
      /\ \A x \in Num : new.next[x] = IF x = s THEN n
                                      ELSE IF x = n THEN after ELSE l.next[x]
      /\ \A x \in Num : new.prev[x] = IF x = n THEN s
                                      ELSE IF x = after /\ after # NULL THEN n ELSE l.prev[x]
  BY <1>1, <1>2, <1>3, <1>6, InsertIs
<1>8. \A x \in F : \/ l.prev[x] = Start(at[x])
                   \/ l.prev[x] \in F /\ at[l.prev[x]] = at[x] /\ rank[x] < rank[l.prev[x]]
  BY DEF ListsAre
<1>9. \A x \in F : at[x] \in 0 .. LEVELS - 2 /\ rank[x] < top
  BY DEF ListsAre
<1>10. rank2 \in [Real -> Nat] /\ rank2[n] = top /\ \A x \in F : rank2[x] = rank[x]
  BY <1>1, <1>3
<1>11. \A x \in F : Start(at[x]) \in Num /\ Start(at[x]) < 0 /\ Start(at[x]) \in Int
                    /\ NULL < Start(at[x])
  BY <1>9, NumbersAre
<1>12. \A x \in F : l.prev[x] \in Num /\ l.prev[x] # n
  BY <1>3, <1>8, <1>11
<1>13. \A x \in F : l.next[l.prev[x]] = x
  BY DEF ListsAre
<1>14. \A x \in F : x # after => l.prev[x] # s
  BY <1>13
<1>15. \A x \in F : new.prev[x] = IF x = after THEN n ELSE l.prev[x]
  BY <1>2, <1>3, <1>4, <1>7
<1>16. new.next[s] = n /\ new.next[n] = after /\ new.prev[n] = s
  BY <1>2, <1>3, <1>6, <1>7
<1>17. \A x \in F : new.next[x] = l.next[x]
  BY <1>2, <1>3, <1>7
<1> HIDE DEF new, s, rank2
<1>18. \A x \in F \cup {n} : at[x] \in 0 .. LEVELS - 2 /\ rank2[x] < top + 1
  BY <1>1, <1>9, <1>10
<1>19. ASSUME NEW x \in F \cup {n}
       PROVE  \/ new.prev[x] = Start(at[x])
              \/ /\ new.prev[x] \in F \cup {n} /\ at[new.prev[x]] = at[x]
                 /\ rank2[x] < rank2[new.prev[x]]
  <2>1. CASE x = n
    BY <1>16, <2>1 DEF s
  <2>2. CASE x \in F /\ x = after
    BY <1>5, <1>9, <1>10, <1>15, <2>2
  <2>3. CASE x \in F /\ x # after
    BY <1>8, <1>10, <1>15, <2>3
  <2> QED BY <2>1, <2>2, <2>3
<1>20. ASSUME NEW x \in F \cup {n} PROVE new.next[new.prev[x]] = x
  <2>1. CASE x = n
    BY <1>16, <2>1
  <2>2. CASE x \in F /\ x = after
    BY <1>15, <1>16, <2>2
  <2>3. CASE x \in F /\ x # after
    <3>1. new.prev[x] = l.prev[x] /\ l.prev[x] # s /\ l.prev[x] # n /\ l.prev[x] \in Num
      BY <1>12, <1>14, <1>15, <2>3
    <3>2. new.next[l.prev[x]] = l.next[l.prev[x]]
      BY <1>7, <3>1
    <3> QED BY <1>13, <2>3, <3>1, <3>2
  <2> QED BY <2>1, <2>2, <2>3
<1>21. ASSUME NEW x \in F \cup {n}
       PROVE  new.next[x] = NULL \/ (new.next[x] \in F \cup {n} /\ new.prev[new.next[x]] = x)
  <2>1. CASE x = n
    BY <1>4, <1>15, <1>16, <2>1
  <2>2. CASE x \in F
    <3>1. new.next[x] = l.next[x]
      BY <1>17, <2>2
    <3>2. l.next[x] = NULL \/ (l.next[x] \in F /\ l.prev[l.next[x]] = x)
      BY <2>2 DEF ListsAre
    <3>3. l.next[x] # NULL => l.next[x] # after
      BY <1>2, <1>3, <1>4, <2>2, <3>2
    <3> QED BY <1>15, <3>1, <3>2, <3>3
  <2> QED BY <2>1, <2>2
<1>22. ASSUME NEW k \in 0 .. LEVELS - 2
       PROVE  \/ new.next[Start(k)] = NULL
              \/ new.next[Start(k)] \in F \cup {n} /\ new.prev[new.next[Start(k)]] = Start(k)
  <2>1. CASE Start(k) = s
    BY <1>16, <2>1
  <2>2. CASE Start(k) # s
    <3>1. Start(k) \in Num /\ Start(k) \in Int /\ Start(k) < 0
      BY NumbersAre
    <3>2. new.next[Start(k)] = l.next[Start(k)]
      BY <1>3, <1>7, <2>2, <3>1
    <3>3. \/ l.next[Start(k)] = NULL
          \/ l.next[Start(k)] \in F /\ l.prev[l.next[Start(k)]] = Start(k)
      BY DEF ListsAre
    <3>4. l.next[Start(k)] # NULL => l.next[Start(k)] # after
      BY <1>4, <2>2, <3>3
    <3> QED BY <1>15, <3>2, <3>3, <3>4
  <2> QED BY <2>1, <2>2
<1>23. new.prev[0] = NULL /\ new.next[0] = NULL
  <2>1. 0 \in Num /\ 0 # n /\ 0 # s
    BY <1>2, <1>3, NumbersAre
  <2>2. l.prev[0] = NULL /\ l.next[0] = NULL
    BY DEF ListsAre
  <2> QED BY <1>6, <1>7, <2>1, <2>2
<1>24. F \cup {n} \subseteq Real \ {0} /\ top + 1 \in Nat
  BY <1>1
<1>25. ListsAre(new, at, F \cup {n}, rank2, top + 1)
  BY <1>7, <1>10, <1>18, <1>19, <1>20, <1>21, <1>22, <1>23, <1>24 DEF ListsAre
<1> QED BY <1>25 DEF new, s, rank2

LEMMA DeleteKeeps ==
  ASSUME NEW l, NEW at, NEW F, NEW rank, NEW top, ListsAre(l, at, F, rank, top), NEW n \in F
  PROVE  ListsAre(Delete(l, n), at, F \ {n}, rank, top)
<1> DEFINE p == l.prev[n]
           q == l.next[n]
           new == Delete(l, n)
<1>1. /\ l \in [prev : [Num -> Num], next : [Num -> Num]]
      /\ F \subseteq Real \ {0} /\ rank \in [Real -> Nat] /\ top \in Nat
  BY DEF ListsAre
<1>2. \A x \in F : x \in Num /\ x \in Nat /\ x # 0 /\ rank[x] \in Nat
  BY <1>1, NumbersAre
<1>3. NULL \in Int /\ NULL < 0 /\ NULL # 0
  BY NumbersAre
<1>4. \A x \in F : \/ l.prev[x] = Start(at[x])
                   \/ l.prev[x] \in F /\ at[l.prev[x]] = at[x] /\ rank[x] < rank[l.prev[x]]
  BY DEF ListsAre
<1>5. \A x \in F : at[x] \in 0 .. LEVELS - 2 /\ rank[x] < top
  BY DEF ListsAre
<1>6. \A x \in F : l.next[l.prev[x]] = x
  BY DEF ListsAre
<1>7. \A x \in F : l.next[x] = NULL \/ (l.next[x] \in F /\ l.prev[l.next[x]] = x)
  BY DEF ListsAre
<1>8. \A x \in F : Start(at[x]) \in Num /\ Start(at[x]) < 0 /\ Start(at[x]) \in Int
                    /\ NULL < Start(at[x])
  BY <1>5, NumbersAre
<1>9. p # 0 /\ p # n /\ p \in Num
  BY <1>2, <1>4, <1>8
<1>10. q # 0 /\ q # n
  BY <1>2, <1>3, <1>7, <1>9
<1>11. /\ new \in [prev : [Num -> Num], next : [Num -> Num]]
       /\ \A x \in Num : new.next[x] = IF x = n THEN NULL ELSE IF x = p THEN q ELSE l.next[x]
       /\ \A x \in Num : new.prev[x] = IF x = n THEN NULL ELSE IF x = q THEN p ELSE l.prev[x]
  <2>1. n \in Num
    BY <1>2
  <2> QED BY <1>1, <1>9, <1>10, <2>1, DeleteIs
<1>12. q = NULL \/ (q \in F /\ l.prev[q] = n)
  BY <1>7
<1>13. p = Start(at[n]) \/ (p \in F /\ at[p] = at[n] /\ rank[n] < rank[p])
  BY <1>4
<1>14. l.next[p] = n
  BY <1>6
<1>15. \A x \in F : x # q => l.prev[x] # n
  BY <1>6
<1>16. \A x \in F : x # n => l.prev[x] # p
  BY <1>6
<1>17. \A x \in F : l.prev[x] \in Num
  BY <1>2, <1>4, <1>8
<1> HIDE DEF new, p, q
<1>18. \A x \in F \ {n} : new.prev[x] = IF x = q THEN p ELSE l.prev[x]
  BY <1>2, <1>11
<1>19. \A x \in F \ {n} : new.next[x] = IF x = p THEN q ELSE l.next[x]
  BY <1>2, <1>11
<1>20. q \in F => at[q] = at[n] /\ rank[q] < rank[n]
  <2> SUFFICES ASSUME q \in F PROVE at[q] = at[n] /\ rank[q] < rank[n]
    OBVIOUS
  <2>1. l.prev[q] = n
    BY <1>2, <1>3, <1>12
  <2>2. n # Start(at[q])
    BY <1>2, <1>8
  <2> QED BY <1>4, <2>1, <2>2
<1>21. ASSUME NEW x \in F \ {n}
       PROVE  \/ new.prev[x] = Start(at[x])
              \/ /\ new.prev[x] \in F \ {n} /\ at[new.prev[x]] = at[x]
                 /\ rank[x] < rank[new.prev[x]]
  <2>1. CASE x = q
    <3>1. new.prev[x] = p /\ at[x] = at[n] /\ rank[x] < rank[n]
      BY <1>18, <1>20, <2>1
    <3>2. CASE p = Start(at[n])
      BY <3>1, <3>2
    <3>3. CASE p \in F /\ at[p] = at[n] /\ rank[n] < rank[p]
      <4>1. rank[x] \in Nat /\ rank[n] \in Nat /\ rank[p] \in Nat
        BY <1>2, <3>3
      <4>2. rank[x] < rank[p]
        BY <3>1, <3>3, <4>1
      <4> QED BY <1>9, <3>1, <3>3, <4>2
    <3> QED BY <1>13, <3>2, <3>3
  <2>2. CASE x # q
    BY <1>4, <1>15, <1>18, <2>2
  <2> QED BY <2>1, <2>2
<1>22. ASSUME NEW x \in F \ {n} PROVE new.next[new.prev[x]] = x
  <2>1. CASE x = q
    <3>1. new.prev[x] = p
      BY <1>18, <2>1
    <3>2. new.next[p] = q
      BY <1>9, <1>11
    <3> QED BY <2>1, <3>1, <3>2
  <2>2. CASE x # q
    <3>1. new.prev[x] = l.prev[x] /\ l.prev[x] # n /\ l.prev[x] # p /\ l.prev[x] \in Num
      BY <1>15, <1>16, <1>17, <1>18, <2>2
    <3>2. new.next[l.prev[x]] = l.next[l.prev[x]]
      BY <1>11, <3>1
    <3> QED BY <1>6, <3>1, <3>2
  <2> QED BY <2>1, <2>2
<1>23. ASSUME NEW x \in F \ {n}
       PROVE  new.next[x] = NULL \/ (new.next[x] \in F \ {n} /\ new.prev[new.next[x]] = x)
  <2>1. CASE x = p
    <3>1. new.next[x] = q
      BY <1>19, <2>1
    <3>2. q \in F => q \in F \ {n} /\ new.prev[q] = p
      BY <1>10, <1>18
    <3> QED BY <1>12, <2>1, <3>1, <3>2
  <2>2. CASE x # p
    <3> DEFINE y == l.next[x]
    <3>1. new.next[x] = y
      BY <1>19, <2>2
    <3>2. y = NULL \/ (y \in F /\ l.prev[y] = x)
      BY <1>7
    <3>3. y # NULL => y # n /\ y # q
      <4> SUFFICES ASSUME y # NULL PROVE y # n /\ y # q
        OBVIOUS
      <4>1. y \in F /\ l.prev[y] = x
        BY <3>2
      <4>2. y # n
        BY <2>2, <4>1 DEF p
      <4>3. y # q
        BY <1>12, <3>2, <4>1
      <4> QED BY <4>2, <4>3
    <3> HIDE DEF y
    <3> QED BY <1>18, <3>1, <3>2, <3>3
  <2> QED BY <2>1, <2>2
<1>24. ASSUME NEW k \in 0 .. LEVELS - 2
       PROVE  \/ new.next[Start(k)] = NULL
              \/ new.next[Start(k)] \in F \ {n} /\ new.prev[new.next[Start(k)]] = Start(k)
  <2>1. Start(k) \in Num /\ Start(k) \in Int /\ Start(k) < 0 /\ Start(k) # n
    BY <1>2, NumbersAre
  <2>2. CASE Start(k) = p
    <3>1. new.next[Start(k)] = q
      BY <1>11, <2>1, <2>2
    <3>2. q \in F => q \in F \ {n} /\ new.prev[q] = p
      BY <1>10, <1>18
    <3> QED BY <1>12, <2>2, <3>1, <3>2
  <2>3. CASE Start(k) # p
    <3> DEFINE y == l.next[Start(k)]
    <3>1. new.next[Start(k)] = y
      BY <1>11, <2>1, <2>3
    <3>2. y = NULL \/ (y \in F /\ l.prev[y] = Start(k))
      BY DEF ListsAre
    <3>3. y # NULL => y # n /\ y # q
      <4> SUFFICES ASSUME y # NULL PROVE y # n /\ y # q
        OBVIOUS
      <4>1. y \in F /\ l.prev[y] = Start(k)
        BY <3>2
      <4>2. y # n
        BY <2>3, <4>1 DEF p
      <4>3. y # q
        BY <1>12, <2>1, <4>1
      <4> QED BY <4>2, <4>3
    <3> HIDE DEF y
    <3> QED BY <1>18, <3>1, <3>2, <3>3
  <2> QED BY <2>2, <2>3
<1>25. new.prev[0] = NULL /\ new.next[0] = NULL
  <2>1. 0 \in Num /\ 0 # n
    BY <1>2, NumbersAre
  <2>2. l.prev[0] = NULL /\ l.next[0] = NULL
    BY DEF ListsAre
  <2> QED BY <1>9, <1>10, <1>11, <2>1, <2>2
<1>26. F \ {n} \subseteq Real \ {0} /\ \A x \in F \ {n} : at[x] \in 0 .. LEVELS - 2 /\ rank[x] < top
  BY <1>1, <1>5
<1>27. ListsAre(new, at, F \ {n}, rank, top)
  BY <1>1, <1>11, <1>21, <1>22, <1>23, <1>24, <1>25, <1>26 DEF ListsAre
<1> QED BY <1>27 DEF new

(* What comes next on a list is of the same level.                         *)
LEMMA NextIs ==
  ASSUME NEW l, NEW at, NEW F, NEW rank, NEW top, ListsAre(l, at, F, rank, top)
  PROVE  /\ \A n \in F : l.next[n] # NULL =>
              l.next[n] \in F /\ at[l.next[n]] = at[n] /\ rank[l.next[n]] < rank[n]
         /\ \A k \in 0 .. LEVELS - 2 : l.next[Start(k)] # NULL =>
              l.next[Start(k)] \in F /\ at[l.next[Start(k)]] = k
<1>1. \A n \in F : n \in Nat /\ at[n] \in 0 .. LEVELS - 2
  BY NumbersAre DEF ListsAre
<1>2. \A n \in F : Start(at[n]) \in Int /\ Start(at[n]) < 0
  BY <1>1, NumbersAre
<1>3. ASSUME NEW n \in F, l.next[n] # NULL
      PROVE  l.next[n] \in F /\ at[l.next[n]] = at[n] /\ rank[l.next[n]] < rank[n]
  <2> DEFINE y == l.next[n]
  <2>1. y \in F /\ l.prev[y] = n
    BY <1>3 DEF ListsAre
  <2> HIDE DEF y
  <2>2. n # Start(at[y])
    BY <1>1, <1>2, <2>1
  <2>3. at[n] = at[y] /\ rank[y] < rank[n]
    BY <2>1, <2>2 DEF ListsAre
  <2> QED BY <2>1, <2>3 DEF y
<1>4. ASSUME NEW k \in 0 .. LEVELS - 2, l.next[Start(k)] # NULL
      PROVE  l.next[Start(k)] \in F /\ at[l.next[Start(k)]] = k
  <2> DEFINE y == l.next[Start(k)]
  <2>1. y \in F /\ l.prev[y] = Start(k)
    BY <1>4 DEF ListsAre
  <2> HIDE DEF y
  <2>2. Start(k) \notin F
    <3>1. Start(k) \in Int /\ Start(k) < 0
      BY NumbersAre
    <3> QED BY <1>1, <3>1
  <2>3. Start(k) = Start(at[y])
    BY <2>1, <2>2 DEF ListsAre
  <2>4. at[y] \in 0 .. LEVELS - 2
    BY <1>1, <2>1
  <2>5. k = at[y]
    BY <2>3, <2>4, NumbersAre
  <2> QED BY <2>1, <2>5 DEF y
<1> QED BY <1>3, <1>4

(* All nodes of a level are met from the head of its list.                 *)
LEMMA AllOnList ==
  ASSUME NEW l, NEW at, NEW F, NEW rank, NEW top, ListsAre(l, at, F, rank, top),
         NEW k \in 0 .. LEVELS - 2, NEW W,
         l.next[Start(k)] # NULL => l.next[Start(k)] \in W,
         \A n \in F : n \in W /\ at[n] = k /\ l.next[n] # NULL => l.next[n] \in W
  PROVE  \A n \in F : at[n] = k => n \in W
<1> DEFINE A == {n \in F : at[n] = k /\ n \notin W}
           T == {top - rank[n] : n \in A}
<1> SUFFICES ASSUME A # {} PROVE FALSE
  OBVIOUS
<1>1. top \in Nat /\ \A n \in F : n \in Nat /\ rank[n] \in Nat /\ rank[n] < top /\ n # NULL
  BY NumbersAre DEF ListsAre
<1>2. \A x \in T : x \in Nat
  BY <1>1
<1>3. T # {} /\ T \subseteq Nat
  BY <1>2
<1>4. PICK t \in T : \A x \in T : t <= x
  <2> HIDE DEF T
  <2> QED BY <1>3, LeastNumber
<1>5. PICK n \in A : t = top - rank[n]
  OBVIOUS
<1>6. \A m \in A : rank[m] <= rank[n]
  <2> TAKE m \in A
  <2>1. top - rank[n] <= top - rank[m]
    BY <1>4, <1>5
  <2>2. rank[m] \in Nat /\ rank[n] \in Nat
    BY <1>1
  <2> QED BY <1>1, <2>1, <2>2
<1>7. n \in F /\ at[n] = k /\ n \notin W
  OBVIOUS
<1>8. l.next[l.prev[n]] = n
  BY <1>7 DEF ListsAre
<1>9. CASE l.prev[n] = Start(k)
  BY <1>1, <1>7, <1>8, <1>9
<1>10. CASE l.prev[n] \in F /\ at[l.prev[n]] = k /\ rank[n] < rank[l.prev[n]]
  <2> DEFINE m == l.prev[n]
  <2>1. m \in F /\ at[m] = k /\ rank[n] < rank[m]
    BY <1>10
  <2>2. ~ (rank[m] <= rank[n])
    BY <1>1, <1>7, <2>1
  <2>3. m \in W
    BY <1>6, <2>1, <2>2
  <2> QED BY <1>1, <1>7, <1>8, <2>1, <2>3
<1> QED BY <1>7, <1>9, <1>10 DEF ListsAre

(* OnList's function.                                                      *)
IsWalk(g, first, next, m) ==
  g = [i \in 0 .. m |-> IF i = 0 THEN first
                        ELSE IF g[i - 1] = NULL THEN NULL ELSE next[g[i - 1]]]

LEMMA WalkExists ==
  ASSUME NEW first, NEW next, NEW m \in Nat
  PROVE  \E g : IsWalk(g, first, next, m)
<1> DEFINE Is(g, j) == IsWalk(g, first, next, j)
           T == {j \in Nat : ~ \E g : Is(g, j)}
<1> SUFFICES ASSUME T # {} PROVE FALSE
  OBVIOUS
<1>1. PICK j \in T : \A i \in T : j <= i
  BY LeastNumber
<1>2. j \in Nat /\ ~ \E g : Is(g, j)
  OBVIOUS
<1>3. CASE j = 0
  <2> DEFINE g == [i \in 0 .. 0 |-> first]
  <2>1. Is(g, 0)
    BY DEF IsWalk
  <2> QED BY <1>2, <1>3, <2>1
<1>4. CASE j # 0
  <2>1. j - 1 \in Nat /\ ~ (j <= j - 1)
    BY <1>2, <1>4
  <2>2. \E g : Is(g, j - 1)
    BY <1>1, <2>1
  <2>3. PICK g : Is(g, j - 1)
    BY <2>2
  <2> DEFINE v(i) == IF g[i - 1] = NULL THEN NULL ELSE next[g[i - 1]]
             h == [i \in 0 .. j |-> IF i = j THEN v(j) ELSE g[i]]
  <2>4. \A i \in 0 .. j - 1 : g[i] = IF i = 0 THEN first ELSE v(i)
    BY <2>3 DEF IsWalk
  <2> HIDE DEF Is, v
  <2>5. \A i \in 0 .. j - 1 : h[i] = g[i] /\ i \in 0 .. j
    BY <1>2
  <2>6. \A i \in 0 .. j : i # 0 => i - 1 \in 0 .. j - 1
    BY <1>2
  <2>7. \A i \in 0 .. j : h[i] = IF i = 0 THEN first ELSE v(i)
    BY <1>2, <1>4, <2>4
  <2>8. \A i \in 0 .. j : i # 0 => v(i) = IF h[i - 1] = NULL THEN NULL ELSE next[h[i - 1]]
    BY <2>5, <2>6 DEF v
  <2>9. h = [i \in 0 .. j |-> h[i]]
    OBVIOUS
  <2> HIDE DEF h
  <2>10. Is(h, j)
    BY <2>7, <2>8, <2>9 DEF Is, IsWalk
  <2> QED BY <1>2, <2>10
<1> QED BY <1>3, <1>4

(* A walk of nodes_count steps from the head meets the level's nodes.      *)
LEMMA WalkIs ==
  ASSUME NEW l, NEW at, NEW F, NEW rank, NEW top, ListsAre(l, at, F, rank, top),
         NEW k \in 0 .. LEVELS - 2, NEW g,
         \A i \in 0 .. nodes_count :
           g[i] = IF i = 0 THEN l.next[Start(k)]
                  ELSE IF g[i - 1] = NULL THEN NULL ELSE l.next[g[i - 1]]
  PROVE  {g[i] : i \in 0 .. nodes_count} \ {NULL} = {n \in F : at[n] = k}
<1> DEFINE N == nodes_count
           K == {n \in F : at[n] = k}
           W == {g[i] : i \in 0 .. N}
<1>1. N \in Nat /\ F \subseteq Real /\ rank \in [Real -> Nat] /\ NULL \notin F
      /\ \A n \in F : rank[n] \in Nat
  <2>1. \A n \in F : n \in Nat
    BY NumbersAre DEF ListsAre
  <2>2. nodes_count \in Nat
    BY NumbersAre, BuddyAssumption
  <2> QED BY <2>1, <2>2, NumbersAre DEF ListsAre
<1>2. \A i \in 0 .. N : i # 0 => i - 1 \in 0 .. N
  BY <1>1
<1> HIDE DEF N
<1>3. g[0] = l.next[Start(k)] /\ 0 \in 0 .. N
  BY <1>1 DEF N
<1>4. \A i \in 0 .. N : i # 0 => g[i] = IF g[i - 1] = NULL THEN NULL ELSE l.next[g[i - 1]]
  BY DEF N
<1>5. \A i \in 0 .. N : g[i] = NULL \/ g[i] \in K
  <2> DEFINE T == {i \in 0 .. N : ~ (g[i] = NULL \/ g[i] \in K)}
  <2> SUFFICES ASSUME T # {} PROVE FALSE
    OBVIOUS
  <2>1. T \subseteq Nat
    BY <1>1
  <2>2. PICK i \in T : \A j \in T : i <= j
    <3> HIDE DEF T
    <3> QED BY <2>1, LeastNumber
  <2>3. i \in 0 .. N /\ i \in Nat /\ g[i] # NULL /\ g[i] \notin K
    BY <2>1
  <2>4. i # 0
    BY <1>3, <2>3, NextIs
  <2>5. i - 1 \in 0 .. N /\ ~ (i <= i - 1)
    BY <1>2, <2>3, <2>4
  <2>6. g[i - 1] = NULL \/ g[i - 1] \in K
    BY <2>2, <2>5
  <2>7. g[i - 1] # NULL /\ g[i] = l.next[g[i - 1]]
    BY <1>4, <2>3, <2>4
  <2> QED BY <2>3, <2>6, <2>7, NextIs
<1>6. \A i \in 0 .. N : i # 0 /\ g[i] # NULL =>
        g[i - 1] # NULL /\ g[i] \in F /\ g[i - 1] \in F /\ rank[g[i]] < rank[g[i - 1]]
  <2> SUFFICES ASSUME NEW i \in 0 .. N, i # 0, g[i] # NULL
               PROVE  g[i - 1] # NULL /\ g[i] \in F /\ g[i - 1] \in F
                      /\ rank[g[i]] < rank[g[i - 1]]
    OBVIOUS
  <2>1. g[i - 1] # NULL /\ g[i] = l.next[g[i - 1]]
    BY <1>4
  <2>2. g[i - 1] \in F
    BY <1>2, <1>5, <2>1
  <2> QED BY <2>1, <2>2, NextIs
<1>7. g[N] = NULL
  <2> SUFFICES ASSUME g[N] # NULL PROVE FALSE
    OBVIOUS
  <2>1. \A i \in 0 .. N : g[i] # NULL
    <3> DEFINE T == {j \in 0 .. N : g[N - j] = NULL}
    <3>1. T \subseteq Nat
      BY <1>1
    <3>2. SUFFICES ASSUME T # {} PROVE FALSE
      <4> SUFFICES ASSUME NEW i \in 0 .. N, g[i] = NULL PROVE FALSE
        OBVIOUS
      <4>1. N - i \in 0 .. N /\ N - (N - i) = i
        BY <1>1
      <4>2. N - i \in T
        BY <4>1
      <4> QED BY <3>2, <4>2
    <3>3. PICK j \in T : \A i \in T : j <= i
      <4> HIDE DEF T
      <4> QED BY <3>1, <3>2, LeastNumber
    <3>4. j \in 0 .. N /\ j \in Nat /\ g[N - j] = NULL
      BY <3>1
    <3>5. j # 0
      BY <1>1, <3>4
    <3>6. j - 1 \in 0 .. N /\ ~ (j <= j - 1) /\ N - (j - 1) \in 0 .. N
          /\ N - (j - 1) # 0 /\ (N - (j - 1)) - 1 = N - j
      BY <1>1, <3>4, <3>5
    <3>7. g[N - (j - 1)] # NULL
      BY <3>3, <3>6
    <3>8. g[(N - (j - 1)) - 1] # NULL
      BY <1>6, <3>6, <3>7
    <3> QED BY <3>4, <3>6, <3>8
  <2>2. \A i \in 0 .. N : g[i] \in F
    BY <1>5, <2>1
  <2>3. ASSUME NEW i \in 0 .. N, NEW j \in 0 .. N, i < j PROVE rank[g[j]] < rank[g[i]]
    <3> DEFINE T == {x \in 0 .. N : i < x /\ ~ (rank[g[x]] < rank[g[i]])}
    <3>1. T \subseteq Nat
      BY <1>1
    <3>2. SUFFICES ASSUME T # {} PROVE FALSE
      BY <2>3
    <3>3. PICK x \in T : \A y \in T : x <= y
      <4> HIDE DEF T
      <4> QED BY <3>1, <3>2, LeastNumber
    <3>4. x \in 0 .. N /\ x \in Nat /\ i < x /\ ~ (rank[g[x]] < rank[g[i]])
      BY <3>1
    <3>5. x # 0 /\ x - 1 \in 0 .. N /\ ~ (x <= x - 1) /\ (i = x - 1 \/ i < x - 1)
      BY <1>1, <3>4
    <3>6. rank[g[x]] < rank[g[x - 1]]
      BY <1>6, <2>1, <3>4, <3>5
    <3>7. i < x - 1 => rank[g[x - 1]] < rank[g[i]]
      BY <3>3, <3>5
    <3>8. rank[g[x]] \in Nat /\ rank[g[x - 1]] \in Nat /\ rank[g[i]] \in Nat
      BY <1>1, <2>2, <3>4, <3>5
    <3>9. CASE i = x - 1
      BY <3>4, <3>6, <3>9
    <3>10. CASE i < x - 1
      BY <3>4, <3>6, <3>7, <3>8, <3>10
    <3> QED BY <3>5, <3>9, <3>10
  <2>4. IsFiniteSet(0 .. N) /\ Cardinality(0 .. N) = N + 1
    BY <1>1, FS_Interval
  <2>5. IsFiniteSet(Real) /\ Cardinality(Real) = N
    <3>1. 0 \in Int /\ N - 1 \in Int /\ N >= 1
      BY <1>1, BuddyAssumption DEF N
    <3>2. IsFiniteSet(0 .. N - 1) /\ Cardinality(0 .. N - 1) = IF 0 > N - 1 THEN 0 ELSE (N - 1) - 0 + 1
      BY <3>1, FS_Interval
    <3>3. Cardinality(0 .. N - 1) = N
      BY <1>1, <3>1, <3>2
    <3> QED BY <3>2, <3>3 DEF Real, N
  <2> DEFINE f == [i \in 0 .. N |-> g[i]]
  <2>6. f \in [0 .. N -> Real]
    BY <1>1, <2>2
  <2>7. Cardinality(Real) < Cardinality(0 .. N)
    BY <1>1, <2>4, <2>5
  <2> HIDE DEF f
  <2>8. \E i, j \in 0 .. N : i # j /\ f[i] = f[j]
    <3> DEFINE A == 0 .. N
    <3>1. IsFiniteSet(A) /\ Cardinality(Real) < Cardinality(A) /\ f \in [A -> Real]
      BY <2>4, <2>6, <2>7
    <3> HIDE DEF A
    <3>2. \E i, j \in A : i # j /\ f[i] = f[j]
      BY <2>5, <3>1, FS_PigeonHole
    <3> QED BY <3>2 DEF A
  <2>9. PICK i \in 0 .. N, j \in 0 .. N : i # j /\ f[i] = f[j]
    BY <2>8
  <2>10. g[i] = g[j] /\ rank[g[i]] \in Nat
    BY <1>1, <2>2, <2>9 DEF f
  <2>11. i < j \/ j < i
    BY <1>1, <2>9
  <2> QED BY <2>3, <2>10, <2>11
<1>8. l.next[Start(k)] # NULL => l.next[Start(k)] \in W
  BY <1>3
<1>9. ASSUME NEW n \in F, n \in W, at[n] = k, l.next[n] # NULL PROVE l.next[n] \in W
  <2>1. PICK i \in 0 .. N : n = g[i]
    BY <1>9
  <2>2. i # N /\ g[i] # NULL
    BY <1>1, <1>7, <2>1
  <2>3. i + 1 \in 0 .. N /\ i + 1 # 0 /\ (i + 1) - 1 = i
    BY <1>1, <2>2
  <2>4. g[i + 1] = l.next[n]
    BY <1>4, <2>1, <2>2, <2>3
  <2> QED BY <2>3, <2>4
<1>10. \A n \in F : at[n] = k => n \in W
  <2> HIDE DEF W
  <2> QED BY <1>8, <1>9, AllOnList
<1>11. W \ {NULL} = K
  BY <1>1, <1>5, <1>10
<1> QED BY <1>11 DEF N

LEMMA OnListIs ==
  ASSUME NEW F, NEW rank, NEW top, ListsAre(link, level, F, rank, top), NEW k \in 0 .. LEVELS - 2
  PROVE  OnList(k) = {n \in F : level[n] = k}
<1> DEFINE next == link.next
           first == next[Start(k)]
           walk == CHOOSE g : IsWalk(g, first, next, nodes_count)
<1>1. nodes_count \in Nat /\ k # LEVELS - 1
  <2>1. LEVELS \in Nat
    BY NumbersAre
  <2> QED BY <2>1, BuddyAssumption
<1>2. FirstOf(k) = first
  BY <1>1 DEF FirstOf
<1>3. OnList(k) = {walk[i] : i \in 0 .. nodes_count} \ {NULL}
  BY <1>2 DEF OnList, IsWalk
<1> HIDE DEF first, next
<1>4. \E g : IsWalk(g, first, next, nodes_count)
  BY <1>1, WalkExists
<1>5. IsWalk(walk, first, next, nodes_count)
  BY <1>4
<1> HIDE DEF walk
<1>6. \A i \in 0 .. nodes_count :
        walk[i] = IF i = 0 THEN first
                  ELSE IF walk[i - 1] = NULL THEN NULL ELSE next[walk[i - 1]]
  BY <1>5 DEF IsWalk
<1> QED BY <1>3, <1>6, WalkIs DEF first, next

LEMMA SameLevels ==
  ASSUME NEW l, NEW at, NEW F, NEW rank, NEW top, ListsAre(l, at, F, rank, top),
         NEW at2, \A n \in F : at2[n] = at[n]
  PROVE  ListsAre(l, at2, F, rank, top)
BY DEF ListsAre

(* Taking the missing head of the last list off its list changes no other. *)
LEMMA DeleteZero ==
  ASSUME NEW l, NEW at, NEW F, NEW rank, NEW top, ListsAre(l, at, F, rank, top)
  PROVE  ListsAre(Delete(l, 0), at, F, rank, top)
<1> DEFINE new == Delete(l, 0)
<1>1. /\ l \in [prev : [Num -> Num], next : [Num -> Num]]
      /\ F \subseteq Real \ {0} /\ rank \in [Real -> Nat] /\ top \in Nat
      /\ l.prev[0] = NULL /\ l.next[0] = NULL
  BY DEF ListsAre
<1>2. NULL \in Num /\ NULL \in Int /\ NULL < 0 /\ 0 \in Num /\ \A x \in F : x \in Num /\ x \in Nat /\ x # 0
  BY <1>1, NumbersAre
<1>3. l.prev[0] # 0 /\ l.next[0] # 0
  BY <1>1, <1>2
<1>4. /\ new \in [prev : [Num -> Num], next : [Num -> Num]]
      /\ \A x \in Num : new.next[x] = IF x = 0 THEN NULL ELSE IF x = NULL THEN NULL ELSE l.next[x]
      /\ \A x \in Num : new.prev[x] = IF x = 0 THEN NULL ELSE IF x = NULL THEN NULL ELSE l.prev[x]
  BY <1>1, <1>2, <1>3, DeleteIs
<1> HIDE DEF new
<1>5. \A x \in F : new.next[x] = l.next[x] /\ new.prev[x] = l.prev[x]
  BY <1>2, <1>4
<1>6. \A k \in 0 .. LEVELS - 2 : new.next[Start(k)] = l.next[Start(k)]
  <2> TAKE k \in 0 .. LEVELS - 2
  <2>1. Start(k) \in Num /\ Start(k) \in Int /\ NULL < Start(k) /\ Start(k) < 0
    BY NumbersAre
  <2> QED BY <1>2, <1>4, <2>1
<1>7. \A x \in F : new.next[new.prev[x]] = x
  <2> TAKE x \in F
  <2>1. CASE l.prev[x] = Start(at[x])
    <3>1. at[x] \in 0 .. LEVELS - 2
      BY DEF ListsAre
    <3>2. new.next[Start(at[x])] = l.next[Start(at[x])]
      BY <1>6, <3>1
    <3> QED BY <1>5, <2>1, <3>2 DEF ListsAre
  <2>2. CASE l.prev[x] \in F
    BY <1>5, <2>2 DEF ListsAre
  <2> QED BY <2>1, <2>2 DEF ListsAre
<1>8. \A x \in F : new.next[x] = NULL \/ (new.next[x] \in F /\ new.prev[new.next[x]] = x)
  BY <1>5 DEF ListsAre
<1>9. \A k \in 0 .. LEVELS - 2 :
        \/ new.next[Start(k)] = NULL
        \/ new.next[Start(k)] \in F /\ new.prev[new.next[Start(k)]] = Start(k)
  BY <1>5, <1>6 DEF ListsAre
<1>10. \A n \in F : \/ new.prev[n] = Start(at[n])
                    \/ /\ new.prev[n] \in F /\ at[new.prev[n]] = at[n]
                       /\ rank[n] < rank[new.prev[n]]
  BY <1>5 DEF ListsAre
<1>11. new.prev[0] = NULL /\ new.next[0] = NULL
  BY <1>2, <1>4
<1>12. \A n \in F : at[n] \in 0 .. LEVELS - 2 /\ rank[n] < top
  BY DEF ListsAre
<1>13. ListsAre(new, at, F, rank, top)
  BY <1>1, <1>4, <1>7, <1>8, <1>9, <1>10, <1>11, <1>12 DEF ListsAre
<1> QED BY <1>13 DEF new

(* Where buddy_alloc looks.                                                *)
LEMMA SourceIs ==
  ASSUME NEW F, NEW rank, NEW top, ListsAre(link, level, F, rank, top),
         NEW k \in 0 .. LEVELS - 1
  PROVE  \/ FirstOf(Source(k)) = 0 /\ \A n \in F : level[n] < k
         \/ FirstOf(Source(k)) \in F /\ k <= level[FirstOf(Source(k))]
<1> DEFINE T == {j \in k .. LEVELS - 1 : FirstOf(j) # NULL}
           s == Source(k)
<1>1. LEVELS \in Nat /\ NULL # 0 /\ LEVELS - 1 \in k .. LEVELS - 1 /\ k \in Nat
  <2>1. LEVELS \in Nat /\ LEVELS >= 2
    BY BuddyAssumption
  <2> QED BY <2>1, NumbersAre
<1>2. FirstOf(LEVELS - 1) = 0
  BY DEF FirstOf
<1>3. T \subseteq Nat /\ T # {}
  BY <1>1, <1>2
<1>4. PICK t \in T : \A i \in T : t <= i
  <2> HIDE DEF T
  <2> QED BY <1>3, LeastNumber
<1>5. \A i \in k .. t - 1 : FirstOf(i) = NULL
  <2> TAKE i \in k .. t - 1
  <2>1. i \in k .. LEVELS - 1 /\ ~ (t <= i)
    BY <1>1
  <2> QED BY <1>4, <2>1
<1>6. t \in k .. LEVELS - 1 /\ FirstOf(t) # NULL
  OBVIOUS
<1> HIDE DEF T
<1>7. s \in k .. LEVELS - 1 /\ FirstOf(s) # NULL /\ \A i \in k .. s - 1 : FirstOf(i) = NULL
  BY <1>5, <1>6 DEF Source
<1> HIDE DEF s
<1>8. CASE s = LEVELS - 1
  <2>1. ASSUME NEW n \in F PROVE level[n] < k
    <3> SUFFICES ASSUME ~ (level[n] < k) PROVE FALSE
      OBVIOUS
    <3> DEFINE j == level[n]
    <3>1. j \in 0 .. LEVELS - 2 /\ j \in k .. s - 1
      <4>1. j \in 0 .. LEVELS - 2
        BY DEF ListsAre
      <4> HIDE DEF j
      <4> QED BY <1>1, <1>8, <4>1 DEF j
    <3>2. level[n] = j
      OBVIOUS
    <3> HIDE DEF j
    <3>3. FirstOf(j) = NULL /\ j # LEVELS - 1
      BY <1>1, <1>7, <3>1
    <3>4. link.next[Start(j)] = NULL
      BY <3>3 DEF FirstOf
    <3> DEFINE W == {}
    <3>5. link.next[Start(j)] # NULL => link.next[Start(j)] \in W
      BY <3>4
    <3>6. \A x \in F : x \in W /\ level[x] = j /\ link.next[x] # NULL => link.next[x] \in W
      OBVIOUS
    <3>7. W = {}
      OBVIOUS
    <3> HIDE DEF W
    <3>8. \A x \in F : level[x] = j => x \in W
      BY <3>1, <3>5, <3>6, AllOnList
    <3> QED BY <3>2, <3>7, <3>8
  <2> QED BY <1>2, <1>8, <2>1 DEF s
<1>9. CASE s # LEVELS - 1
  <2>1. s \in 0 .. LEVELS - 2 /\ k <= s
    BY <1>1, <1>7, <1>9
  <2>2. FirstOf(s) = link.next[Start(s)]
    BY <1>9 DEF FirstOf
  <2>3. link.next[Start(s)] \in F /\ level[link.next[Start(s)]] = s
    BY <1>7, <2>1, <2>2, NextIs
  <2> QED BY <2>1, <2>2, <2>3 DEF s
<1> QED BY <1>8, <1>9

(* node ^ (1 << level) is its own inverse.                                 *)
LEMMA BuddyTwice ==
  ASSUME NEW n \in Nat, NEW k \in Nat, Aligned(n, k)
  PROVE  BuddyOf(n, k) \in Nat /\ BuddyOf(BuddyOf(n, k), k) = n /\ BuddyOf(n, k) # n
<1> DEFINE d == 2^k
<1>1. d \in Nat \ {0}
  BY PowerIs
<1>2. CASE Aligned(n, k + 1)
  <2> DEFINE m == n + 2^k
  <2>1. BuddyOf(n, k) = m /\ Aligned(m, k) /\ ~Aligned(m, k + 1)
    BY <1>2, HalvesAre
  <2>2. m = n + d
    OBVIOUS
  <2> HIDE DEF d, m
  <2>3. m \in Nat
    BY <1>1, <2>2
  <2>4. BuddyOf(m, k) = m - 2^k
    BY <2>1, <2>3, HalvesAre
  <2>5. BuddyOf(m, k) = m - d
    BY <2>4 DEF d
  <2> QED BY <1>1, <2>1, <2>2, <2>3, <2>5
<1>3. CASE ~Aligned(n, k + 1)
  <2> DEFINE m == n - 2^k
  <2>1. BuddyOf(n, k) = m /\ m \in Nat /\ Aligned(m, k + 1)
    BY <1>3, HalvesAre
  <2>2. m = n - d
    OBVIOUS
  <2> HIDE DEF d, m
  <2>3. Aligned(m, k)
    <3>1. k + 1 \in Nat /\ k <= k + 1
      OBVIOUS
    <3> QED BY <2>1, <3>1, AlignedDown
  <2>4. BuddyOf(m, k) = m + 2^k
    BY <2>1, <2>3, HalvesAre
  <2>5. BuddyOf(m, k) = m + d
    BY <2>4 DEF d
  <2> QED BY <1>1, <2>1, <2>2, <2>5
<1> QED BY <1>2, <1>3

LEMMA SpanZero ==
  ASSUME NEW n \in Nat
  PROVE  Span(n, 0) = {n} /\ Aligned(n, 0)
<1>1. 2^0 = 1
  <2>1. IsFiniteSet(SUBSET (1 .. 0)) /\ Cardinality(SUBSET (1 .. 0)) = 2^0
    BY PowerIs
  <2>2. SUBSET (1 .. 0) = {{}}
    OBVIOUS
  <2>3. Cardinality({{}}) = 1
    BY FS_Singleton
  <2> QED BY <2>1, <2>2, <2>3
<1>2. n % 1 = 0 /\ n .. n + 1 - 1 = {n}
  OBVIOUS
<1> QED BY <1>1, <1>2 DEF Span, Aligned

----------------------------------------------------------------------------
(* The inductive invariant.  F are the nodes on the free lists.            *)

BlocksOf(F) == {<<n, level[n]>> : n \in F} \cup owned \cup InHand

NodesMarked(F) ==
  /\ \A n \in F : is_free[n]
  /\ \A b \in owned \cup InHand : ~is_free[b[1]] /\ level[b[1]] = b[2]
  /\ \A n \in Real \ Free0 : ~is_free[n]
  /\ level[0] = 0

(* Between calls no two buddies of one level are free: all are merged.     *)
CallsFit(F) ==
  /\ pc = "idle" => node = 0
  /\ pc = "merge" => node \in F
  /\ pc = "split" /\ node # 0 => request <= level[node]
  /\ pc = "split" /\ node = 0 => \A n \in F : level[n] < request
  /\ \A n, m \in F : level[m] = level[n] /\ m = BuddyOf(n, level[n]) =>
       pc = "merge" /\ (node = n \/ node = m)
  /\ InHand \cap owned = {}

FreeAre(F, rank, top) ==
  /\ ListsAre(link, level, F, rank, top)
  /\ BlockSet(BlocksOf(F))
  /\ Marks(BlocksOf(F), is_free, level)
  /\ NodesMarked(F)
  /\ CallsFit(F)

BuddyInv == TypeOK /\ \E F, rank, top : FreeAre(F, rank, top)

LEMMA BlocksAre ==
  ASSUME TypeOK, NEW F, NEW rank, NEW top, FreeAre(F, rank, top)
  PROVE  /\ \A n \in F : /\ <<n, level[n]>> \in BlocksOf(F) /\ n \in Free0 /\ n \in Real
                         /\ n \in Nat /\ n # 0 /\ level[n] \in 0 .. LEVELS - 2
         /\ \A b \in owned \cup InHand :
              b \in BlocksOf(F) /\ b[1] \in Free0 /\ b[1] \in Real /\ b[1] \in Nat
              /\ b[2] = level[b[1]] /\ b = <<b[1], level[b[1]]>> /\ b[1] # 0 /\ b[1] \notin F
         /\ \A b \in BlocksOf(F) : b[1] \in Span(b[1], b[2]) /\ b[1] \in Nat /\ b[2] = level[b[1]]
                                   /\ b = <<b[1], b[2]>> /\ b[2] \in 0 .. LEVELS - 2
         /\ \A b, d \in BlocksOf(F) : b # d => Span(b[1], b[2]) \cap Span(d[1], d[2]) = {}
         /\ \A b, d \in BlocksOf(F) : b[1] = d[1] => b = d
<1> DEFINE B == BlocksOf(F)
<1>1. \A b \in B : /\ b = <<b[1], b[2]>> /\ b[1] \in Nat /\ b[2] \in 0 .. LEVELS - 2
                   /\ Aligned(b[1], b[2]) /\ Span(b[1], b[2]) \subseteq Free0
  BY DEF FreeAre, BlockSet
<1>2. \A b, d \in B : b # d => Span(b[1], b[2]) \cap Span(d[1], d[2]) = {}
  BY DEF FreeAre, BlockSet
<1>3. \A b \in B : b[1] \in Span(b[1], b[2])
  <2> TAKE b \in B
  <2>1. b[1] \in Nat /\ b[2] \in Nat
    BY <1>1, NumbersAre
  <2> QED BY <2>1, SpanIs
<1>4. Free0 \subseteq Real /\ Real \subseteq Nat /\ 0 \notin Free0
  BY BuddyAssumption, NumbersAre DEF Real
<1>5. \A n \in F : <<n, level[n]>> \in B /\ <<n, level[n]>>[1] = n /\ <<n, level[n]>>[2] = level[n]
  BY DEF BlocksOf
<1>6. owned \subseteq B /\ InHand \subseteq B
  BY DEF BlocksOf
<1>7. \A b \in owned \cup InHand : b[2] = level[b[1]] /\ b[1] \notin F
  BY DEF FreeAre, NodesMarked
<1>8. \A b \in B : b[2] = level[b[1]]
  BY <1>7 DEF BlocksOf
<1>9. \A n \in F : n \in Free0 /\ n \in Nat /\ n \in Real /\ n # 0 /\ level[n] \in 0 .. LEVELS - 2
  <2> TAKE n \in F
  <2> DEFINE b == <<n, level[n]>>
  <2>1. b \in B /\ b[1] = n /\ b[2] = level[n]
    BY <1>5
  <2> HIDE DEF b
  <2> QED BY <1>1, <1>3, <1>4, <2>1
<1>10. \A b \in owned \cup InHand :
         b[1] \in Free0 /\ b[1] \in Real /\ b[1] \in Nat /\ b[1] # 0 /\ b = <<b[1], level[b[1]]>>
  BY <1>1, <1>3, <1>4, <1>6, <1>7
<1>11. \A b, d \in B : b[1] = d[1] => b = d
  BY <1>2, <1>3
<1> QED BY <1>1, <1>2, <1>3, <1>5, <1>6, <1>7, <1>8, <1>9, <1>10, <1>11

LEMMA BuddyInit ==
  ASSUME Init
  PROVE  BuddyInv
<1>1. LEVELS \in Nat /\ LEVELS >= 2 /\ 0 \in 0 .. LEVELS - 1 /\ 0 \in 0 .. LEVELS - 2
      /\ Free0 \subseteq Real /\ Real \subseteq Nat /\ Real \subseteq Num /\ 0 \in Real
      /\ 0 \notin Free0 /\ NULL \in Num
  BY BuddyAssumption, NumbersAre DEF Real
<1>2. TypeOK
  BY <1>1 DEF Init, TypeOK
<1> DEFINE F == {}
           rank == [n \in Real |-> 0]
<1>3. ListsAre(link, level, F, rank, 0)
  <2>1. \A k \in 0 .. LEVELS - 2 : link.next[Start(k)] = NULL
    BY NumbersAre DEF Init
  <2>2. link.prev[0] = NULL /\ link.next[0] = NULL
    BY <1>1 DEF Init
  <2>3. link \in [prev : [Num -> Num], next : [Num -> Num]]
    BY <1>1 DEF Init
  <2>4. rank \in [Real -> Nat]
    OBVIOUS
  <2> HIDE DEF rank
  <2> QED BY <2>1, <2>2, <2>3, <2>4 DEF ListsAre
<1>4. InHand = {}
  BY DEF InHand, Init
<1>5. BlocksOf(F) = owned /\ owned = {<<p, 0>> : p \in Free0}
  BY <1>4 DEF BlocksOf, Init
<1>6. \A b \in owned : b = <<b[1], b[2]>> /\ b[1] \in Free0 /\ b[2] = 0 /\ b[1] \in Nat
  BY <1>1, <1>5
<1>7. \A b \in owned : Span(b[1], b[2]) = {b[1]} /\ Aligned(b[1], b[2])
  <2> TAKE b \in owned
  <2>1. b[1] \in Nat /\ b[2] = 0
    BY <1>6
  <2> QED BY <2>1, SpanZero
<1>8. \A p \in Free0 : \E b \in owned : p \in Span(b[1], b[2])
  <2> TAKE p \in Free0
  <2> DEFINE b == <<p, 0>>
  <2>1. b \in owned /\ b[1] = p
    BY <1>5
  <2> HIDE DEF b
  <2> QED BY <1>7, <2>1
<1>9. \A b, d \in owned : b # d => b[1] # d[1]
  BY <1>6
<1>10. BlockSet(owned)
  <2>1. \A b \in owned : /\ b = <<b[1], b[2]>> /\ b[1] \in Nat /\ b[2] \in 0 .. LEVELS - 2
                        /\ Aligned(b[1], b[2]) /\ Span(b[1], b[2]) \subseteq Free0
    BY <1>1, <1>6, <1>7
  <2>2. \A b, d \in owned : b # d => Span(b[1], b[2]) \cap Span(d[1], d[2]) = {}
    BY <1>7, <1>9
  <2> QED BY <1>8, <2>1, <2>2 DEF BlockSet
<1>11. Marks(owned, is_free, level)
  BY <1>7 DEF Marks
<1>12. NodesMarked(F)
  <2>1. \A n \in Real : ~is_free[n] /\ level[n] = 0
    BY DEF Init
  <2> QED BY <1>1, <1>4, <1>6, <2>1 DEF NodesMarked
<1>13. CallsFit(F)
  BY <1>4 DEF CallsFit, Init
<1> HIDE DEF F, rank
<1>14. FreeAre(F, rank, 0)
  BY <1>3, <1>5, <1>10, <1>11, <1>12, <1>13 DEF FreeAre
<1> QED BY <1>2, <1>14 DEF BuddyInv

LEMMA AllocKeeps ==
  ASSUME BuddyInv, NEW k \in 0 .. LEVELS - 1, Alloc(k)
  PROVE  BuddyInv'
<1>1. PICK F, rank, top : FreeAre(F, rank, top)
  BY DEF BuddyInv
<1>2. TypeOK
  BY DEF BuddyInv
<1>3. ListsAre(link, level, F, rank, top) /\ BlockSet(BlocksOf(F))
      /\ Marks(BlocksOf(F), is_free, level) /\ NodesMarked(F) /\ CallsFit(F)
  BY <1>1 DEF FreeAre
<1>4. PICK n : n = FirstOf(Source(k))
  OBVIOUS
<1>5. /\ pc = "idle" /\ is_free' = [is_free EXCEPT ![n] = FALSE] /\ link' = Delete(link, n)
      /\ pc' = "split" /\ node' = n /\ request' = k
      /\ level' = level /\ result' = result /\ owned' = owned
  BY <1>4 DEF Alloc
<1>6. InHand = {} /\ ~ \E x, y \in F : level[y] = level[x] /\ y = BuddyOf(x, level[x])
  BY <1>3, <1>5 DEF InHand, CallsFit
<1>7. /\ \A m \in F : m \in Real /\ m # 0 /\ <<m, level[m]>> \in BlocksOf(F)
      /\ \A b \in owned : b[1] \in Real /\ b[1] # 0 /\ b[1] \notin F /\ b[2] = level[b[1]]
      /\ \A b, d \in BlocksOf(F) : b # d => Span(b[1], b[2]) \cap Span(d[1], d[2]) = {}
      /\ \A b \in BlocksOf(F) : b[1] \in Span(b[1], b[2])
  BY <1>1, <1>2, BlocksAre
<1>8. is_free \in [Real -> BOOLEAN] /\ 0 \in Real /\ 0 \notin Free0
  BY <1>2, NumbersAre, BuddyAssumption DEF TypeOK
<1>9. CASE n = 0 /\ \A m \in F : level[m] < k
  <2>1. is_free' = is_free
    BY <1>3, <1>5, <1>8, <1>9 DEF NodesMarked
  <2>2. ListsAre(link, level, F, rank, top)'
    BY <1>3, <1>5, <1>9, DeleteZero
  <2>3. InHand' = {}
    BY <1>5, <1>9 DEF InHand
  <2>4. BlocksOf(F)' = BlocksOf(F)
    BY <1>5, <1>6, <2>3 DEF BlocksOf
  <2>5. NodesMarked(F)'
    BY <1>3, <1>5, <1>6, <2>1, <2>3 DEF NodesMarked
  <2>6. CallsFit(F)'
    BY <1>5, <1>6, <1>9, <2>3 DEF CallsFit
  <2>7. BlockSet(BlocksOf(F))' /\ Marks(BlocksOf(F), is_free, level)'
    BY <1>3, <1>5, <2>1, <2>4 DEF BlockSet, Marks
  <2>8. FreeAre(F, rank, top)'
    BY <2>2, <2>5, <2>6, <2>7 DEF FreeAre
  <2>9. TypeOK'
    BY <1>2, <1>5, <1>8, <1>9, <2>1, <2>2 DEF TypeOK, ListsAre
  <2> QED BY <2>8, <2>9 DEF BuddyInv
<1>10. CASE n \in F /\ k <= level[n]
  <2>1. PICK F2 : F2 = F \ {n}
    OBVIOUS
  <2>2. ListsAre(link, level, F2, rank, top)'
    BY <1>3, <1>5, <1>10, <2>1, DeleteKeeps
  <2>3. n \in Real /\ n # 0 /\ is_free[n] /\ \A m \in Real : m # n => is_free'[m] = is_free[m]
    BY <1>3, <1>5, <1>7, <1>8, <1>10 DEF NodesMarked
  <2>4. is_free'[n] = FALSE
    BY <1>5, <1>8, <2>3
  <2>5. InHand' = {<<n, level[n]>>}
    BY <1>5, <2>3 DEF InHand
  <2>6. BlocksOf(F2)' = BlocksOf(F)
    BY <1>5, <1>6, <1>10, <2>1, <2>5 DEF BlocksOf
  <2>7. NodesMarked(F2)'
    <3>1. \A m \in F2 : is_free'[m]
      BY <1>3, <1>7, <2>1, <2>3 DEF NodesMarked
    <3>2. \A b \in owned : ~is_free'[b[1]] /\ level[b[1]] = b[2]
      BY <1>3, <1>7, <1>10, <2>3 DEF NodesMarked
    <3>3. \A b \in {<<n, level[n]>>} : ~is_free'[b[1]] /\ level[b[1]] = b[2]
      BY <2>4
    <3>4. \A m \in Real \ Free0 : ~is_free'[m]
      BY <1>3, <2>3, <2>4 DEF NodesMarked
    <3> QED BY <1>3, <1>5, <2>5, <3>1, <3>2, <3>3, <3>4 DEF NodesMarked
  <2>8. CallsFit(F2)'
    <3>1. <<n, level[n]>> \notin owned
      BY <1>7, <1>10
    <3> QED BY <1>5, <1>6, <1>10, <2>1, <2>3, <2>5, <3>1 DEF CallsFit
  <2>9. Marks(BlocksOf(F), is_free', level)
    <3> SUFFICES ASSUME NEW b \in BlocksOf(F), NEW x \in Span(b[1], b[2]) \ {b[1]}
                 PROVE  is_free'[x] /\ Half(x, level[x])
      BY DEF Marks
    <3>1. is_free[x] /\ Half(x, level[x])
      BY <1>3 DEF Marks
    <3>2. x # n
      <4> DEFINE d == <<n, level[n]>>
      <4>1. d \in BlocksOf(F) /\ d[1] = n
        BY <1>7, <1>10
      <4> HIDE DEF d
      <4>2. b # d => x # n
        BY <1>7, <4>1
      <4> QED BY <4>1, <4>2
    <3>3. x \in Real
      <4>1. x \in Free0
        BY <1>3 DEF BlockSet
      <4> QED BY <4>1, BuddyAssumption DEF Real
    <3> QED BY <2>3, <3>1, <3>2, <3>3
  <2>10. BlockSet(BlocksOf(F2))' /\ Marks(BlocksOf(F2), is_free, level)'
    BY <1>3, <1>5, <2>6, <2>9 DEF BlockSet, Marks
  <2>11. FreeAre(F2, rank, top)'
    BY <2>2, <2>7, <2>8, <2>10 DEF FreeAre
  <2>12. TypeOK'
    BY <1>2, <1>5, <1>8, <2>2, <2>3 DEF TypeOK, ListsAre
  <2> QED BY <2>11, <2>12 DEF BuddyInv
<1>11. (n = 0 /\ \A m \in F : level[m] < k) \/ (n \in F /\ k <= level[n])
  BY <1>3, <1>4, SourceIs
<1> QED BY <1>9, <1>10, <1>11

LEMMA AllocReturnKeeps ==
  ASSUME BuddyInv, AllocReturn
  PROVE  BuddyInv'
<1>1. PICK F, rank, top : FreeAre(F, rank, top)
  BY DEF BuddyInv
<1>2. TypeOK
  BY DEF BuddyInv
<1>3. ListsAre(link, level, F, rank, top) /\ BlockSet(BlocksOf(F))
      /\ Marks(BlocksOf(F), is_free, level) /\ NodesMarked(F) /\ CallsFit(F)
  BY <1>1 DEF FreeAre
<1>4. /\ pc = "split" /\ level[node] <= request /\ pc' = "idle" /\ result' = node
      /\ owned' = IF node = 0 THEN owned ELSE owned \cup {<<node, request>>}
      /\ node' = 0 /\ request' = 0 /\ level' = level /\ is_free' = is_free /\ link' = link
  BY DEF AllocReturn
<1>5. node # 0 => request = level[node]
  <2>1. level[node] \in Nat /\ request \in Nat
    BY <1>2, NumbersAre DEF TypeOK
  <2> QED BY <1>3, <1>4, <2>1 DEF CallsFit
<1>6. InHand' = {}
  BY <1>4 DEF InHand
<1>7. owned' = owned \cup InHand
  BY <1>4, <1>5 DEF InHand
<1>8. BlocksOf(F)' = BlocksOf(F)
  BY <1>4, <1>6, <1>7 DEF BlocksOf
<1>9. NodesMarked(F)'
  BY <1>3, <1>4, <1>6, <1>7 DEF NodesMarked
<1>10. CallsFit(F)'
  BY <1>3, <1>4, <1>6 DEF CallsFit
<1>11. BlockSet(BlocksOf(F))' /\ Marks(BlocksOf(F), is_free, level)'
  BY <1>3, <1>4, <1>8 DEF BlockSet, Marks
<1>12. FreeAre(F, rank, top)'
  BY <1>3, <1>4, <1>9, <1>10, <1>11 DEF FreeAre, ListsAre
<1>13. TypeOK'
  <2>1. 0 \in 0 .. LEVELS - 1 /\ 0 \in Real
    BY BuddyAssumption, NumbersAre
  <2> QED BY <1>2, <1>4, <2>1 DEF TypeOK
<1> QED BY <1>12, <1>13 DEF BuddyInv

LEMMA SplitKeeps ==
  ASSUME BuddyInv, Split
  PROVE  BuddyInv'
<1>1. PICK F, rank, top : FreeAre(F, rank, top)
  BY DEF BuddyInv
<1>2. TypeOK
  BY DEF BuddyInv
<1>3. ListsAre(link, level, F, rank, top) /\ BlockSet(BlocksOf(F))
      /\ Marks(BlocksOf(F), is_free, level) /\ NodesMarked(F) /\ CallsFit(F)
  BY <1>1 DEF FreeAre
<1>4. PICK n : n = node
  OBVIOUS
<1>5. PICK k : k = level[n] - 1
  OBVIOUS
<1>6. /\ pc = "split" /\ level[n] > request /\ level' = [level EXCEPT ![n] = k]
      /\ link' = Insert(link, BuddyOf(n, k), Start(k)) /\ node' = n
      /\ pc' = pc /\ is_free' = is_free /\ request' = request /\ result' = result
      /\ owned' = owned
  BY <1>4, <1>5 DEF Split
<1>7. n \in Real /\ level[n] \in 0 .. LEVELS - 1 /\ request \in 0 .. LEVELS - 1
      /\ level \in [Real -> 0 .. LEVELS - 1]
  BY <1>2, <1>4 DEF TypeOK
<1>8. k \in Nat /\ level[n] = k + 1 /\ n # 0 /\ request <= k /\ LEVELS \in Nat
  <2>1. LEVELS \in Nat
    BY NumbersAre
  <2>2. level[0] = 0
    BY <1>3 DEF NodesMarked
  <2> QED BY <1>5, <1>6, <1>7, <2>1, <2>2
<1>9. InHand = {<<n, k + 1>>}
  BY <1>4, <1>6, <1>8 DEF InHand
<1> DEFINE old == <<n, k + 1>>
<1>10. old \in BlocksOf(F) /\ old[1] = n /\ old[2] = k + 1
  BY <1>9 DEF BlocksOf
<1>11. n \in Nat /\ n \notin F /\ n \in Free0
  BY <1>1, <1>2, <1>9, <1>10, BlocksAre
<1>12. PICK m : m = n + 2^k
  OBVIOUS
<1>13. /\ BlockSet((BlocksOf(F) \ {<<n, k + 1>>}) \cup {<<n, k>>, <<n + 2^k, k>>})
       /\ BuddyOf(n, k) = n + 2^k /\ n + 2^k \in Span(n, k + 1) \ {n}
       /\ n + 2^k \in Nat /\ Half(n + 2^k, k)
  BY <1>3, <1>8, <1>10, <1>11, SplitBlock
<1> DEFINE N == (BlocksOf(F) \ {old}) \cup {<<n, k>>, <<m, k>>}
<1>14. /\ BlockSet(N) /\ BuddyOf(n, k) = m /\ m \in Span(n, k + 1) \ {n} /\ m \in Nat
       /\ Half(m, k)
  BY <1>12, <1>13
<1>15. is_free[m] /\ Half(m, level[m])
  BY <1>3, <1>10, <1>14 DEF Marks
<1>16. level[m] = k
  <2>1. level[m] \in Nat
    BY <1>15 DEF Half
  <2> QED BY <1>8, <1>14, <1>15, <2>1, OneLevel DEF Half
<1> HIDE DEF old
<1>17. m \in Free0 /\ m \in Real /\ m # 0 /\ m # n
  <2>1. m \in Free0
    BY <1>3, <1>10, <1>14 DEF BlockSet
  <2> QED BY <1>14, <2>1, BuddyAssumption DEF Real
<1>18. m \notin F
  <2> SUFFICES ASSUME m \in F PROVE FALSE
    OBVIOUS
  <2> DEFINE d == <<m, level[m]>>
  <2>1. d \in BlocksOf(F) /\ d[1] = m
    BY DEF BlocksOf
  <2> HIDE DEF d
  <2>2. m \in Span(d[1], d[2]) /\ d # old
    BY <1>1, <1>2, <1>10, <1>17, <2>1, BlocksAre
  <2>3. Span(d[1], d[2]) \cap Span(old[1], old[2]) = {}
    BY <1>10, <2>1, <2>2, <1>3 DEF BlockSet
  <2> QED BY <1>10, <1>14, <2>2, <2>3
<1>19. k \in 0 .. LEVELS - 2
  BY <1>7, <1>8
<1>20. PICK F2 : F2 = F \cup {m}
  OBVIOUS
<1>21. PICK rank2 : rank2 = [rank EXCEPT ![m] = top]
  OBVIOUS
<1>22. PICK top2 : top2 = top + 1
  OBVIOUS
<1>23. \A x \in Real : x # n => level'[x] = level[x]
  BY <1>6, <1>7
<1>24. level'[n] = k
  BY <1>6, <1>7
<1>25. ListsAre(link, level, F2, rank2, top2)'
  <2>1. ListsAre(Insert(link, m, Start(level[m])), level, F \cup {m}, [rank EXCEPT ![m] = top], top + 1)
    BY <1>3, <1>16, <1>17, <1>18, <1>19, InsertKeeps
  <2>2. ListsAre(link', level, F2, rank2, top2)
    BY <1>6, <1>14, <1>16, <1>20, <1>21, <1>22, <2>1
  <2>3. F2 \subseteq Real /\ n \notin F2
    BY <1>11, <1>17, <1>20, <2>2 DEF ListsAre
  <2>4. \A x \in F2 : level'[x] = level[x]
    BY <1>23, <2>3
  <2> QED BY <2>2, <2>4, SameLevels
<1>26. InHand' = {<<n, k>>}
  BY <1>6, <1>8, <1>24 DEF InHand
<1>27. BlocksOf(F2)' = N
  <2>1. old \notin owned
    BY <1>3, <1>9 DEF CallsFit, old
  <2>2. old \notin {<<x, level[x]>> : x \in F}
    BY <1>11 DEF old
  <2>3. {<<x, level[x]>> : x \in F2}' = {<<x, level[x]>> : x \in F} \cup {<<m, k>>}
    <3>1. \A x \in F2 : x \in Real /\ x # n
      BY <1>1, <1>2, <1>11, <1>17, <1>20, BlocksAre
    <3>2. \A x \in F2 : level'[x] = level[x]
      BY <1>23, <3>1
    <3> QED BY <1>16, <1>20, <3>2
  <2>4. BlocksOf(F2)' = ({<<x, level[x]>> : x \in F} \cup {<<m, k>>}) \cup owned \cup {<<n, k>>}
    BY <1>6, <1>26, <2>3 DEF BlocksOf
  <2>5. BlocksOf(F) = {<<x, level[x]>> : x \in F} \cup owned \cup {old}
    BY <1>9 DEF BlocksOf, old
  <2> QED BY <2>1, <2>2, <2>4, <2>5
<1>28. \A b \in owned : b[1] # n /\ b[1] \in Real
  <2> TAKE b \in owned
  <2>1. b \in BlocksOf(F) /\ b[1] \in Real
    BY <1>1, <1>2, BlocksAre
  <2>2. b # old
    BY <1>3, <1>9 DEF CallsFit, old
  <2> QED BY <1>1, <1>2, <1>10, <2>1, <2>2, BlocksAre
<1>29. NodesMarked(F2)'
  <2>1. \A x \in F2 : is_free[x]
    BY <1>3, <1>15, <1>20 DEF NodesMarked
  <2>2. \A b \in owned : ~is_free[b[1]] /\ level'[b[1]] = b[2]
    BY <1>3, <1>23, <1>28 DEF NodesMarked
  <2>3. ~is_free[n]
    BY <1>3, <1>9, <1>10 DEF NodesMarked, old
  <2>4. \A b \in {<<n, k>>} : ~is_free[b[1]] /\ level'[b[1]] = b[2]
    BY <1>24, <2>3
  <2>5. level'[0] = 0
    BY <1>3, <1>8, <1>23, NumbersAre DEF NodesMarked
  <2> QED BY <1>3, <1>6, <1>26, <2>1, <2>2, <2>4, <2>5 DEF NodesMarked
<1>30. CallsFit(F2)'
  <2>1. ASSUME NEW x \in F2, NEW y \in F2, level'[y] = level'[x], y = BuddyOf(x, level'[x])
        PROVE  FALSE
    <3>1. x \in Real /\ y \in Real /\ x # n /\ y # n /\ x \in Nat /\ y \in Nat
      <4>1. \A z \in F : z \in Real /\ z \in Nat /\ z # n
        BY <1>1, <1>2, <1>11, BlocksAre
      <4>2. \A z \in F2 : z \in Real /\ z \in Nat /\ z # n
        BY <1>14, <1>17, <1>20, <4>1
      <4> QED BY <4>2
    <3>2. level[y] = level[x] /\ y = BuddyOf(x, level[x])
      BY <1>23, <2>1, <3>1
    <3>3. CASE x \in F /\ y \in F
      BY <1>3, <1>6, <3>2, <3>3, <1>4, <3>1 DEF CallsFit
    <3>4. Aligned(n, k) /\ BuddyOf(m, k) = n
      <4>1. Aligned(n, k)
        <5>1. <<n, k>>[1] = n /\ <<n, k>>[2] = k /\ <<n, k>> \in N
          OBVIOUS
        <5> HIDE DEF N
        <5> QED BY <1>14, <5>1 DEF BlockSet
      <4>2. BuddyOf(BuddyOf(n, k), k) = n
        BY <1>8, <1>11, <4>1, BuddyTwice
      <4> QED BY <1>14, <4>1, <4>2
    <3>5. CASE x = m
      BY <1>16, <3>1, <3>2, <3>4, <3>5
    <3>6. CASE y = m /\ x \in F
      <4>1. level[x] = k
        BY <1>16, <3>2, <3>6
      <4>2. Aligned(x, k)
        <5> DEFINE d == <<x, k>>
        <5>1. d \in BlocksOf(F) /\ d[1] = x /\ d[2] = k
          BY <3>6, <4>1 DEF BlocksOf
        <5> HIDE DEF d
        <5> QED BY <1>3, <5>1 DEF BlockSet
      <4>3. BuddyOf(BuddyOf(x, k), k) = x
        BY <1>8, <3>1, <4>2, BuddyTwice
      <4> QED BY <3>1, <3>2, <3>4, <3>6, <4>1, <4>3
    <3> QED BY <1>20, <3>3, <3>5, <3>6
  <2>2. <<n, k>> \notin owned
    <3>1. <<n, k>>[1] = n
      OBVIOUS
    <3> QED BY <1>28, <3>1
  <2>3. request' <= level'[n]
    BY <1>6, <1>8, <1>24
  <2> QED BY <1>6, <1>8, <1>26, <2>1, <2>2, <2>3 DEF CallsFit
<1>31. Marks(N, is_free, level')
  <2> DEFINE low == <<n, k>>
             up == <<m, k>>
  <2>1. /\ low[1] = n /\ low[2] = k /\ up[1] = m /\ up[2] = k /\ low # up /\ low \in N /\ up \in N
        /\ \A b \in N : b = low \/ b = up \/ (b \in BlocksOf(F) /\ b # old)
    BY <1>17
  <2>2. \A b \in N : Span(b[1], b[2]) \subseteq Real
    <3>1. Free0 \subseteq Real
      BY BuddyAssumption DEF Real
    <3> HIDE DEF N
    <3> QED BY <1>14, <3>1 DEF BlockSet
  <2>3. n \in Span(n, k) /\ Span(n, k + 1) = Span(n, k) \cup Span(m, k)
        /\ Span(n, k) \cap Span(m, k) = {}
    BY <1>8, <1>11, <1>12, SpanIs
  <2> HIDE DEF N, low, up
  <2>4. \A b \in BlocksOf(F) : b # old => n \notin Span(b[1], b[2])
    <3>1. n \in Span(old[1], old[2])
      BY <1>10, <2>3
    <3> QED BY <1>3, <1>10, <3>1 DEF BlockSet
  <2>5. \A b \in N : \A x \in Span(b[1], b[2]) \ {b[1]} : x # n
    BY <2>1, <2>3, <2>4
  <2>6. \A b \in N : \A x \in Span(b[1], b[2]) \ {b[1]} :
          \/ \E d \in BlocksOf(F) : x \in Span(d[1], d[2]) \ {d[1]}
          \/ is_free[x] /\ Half(x, level[x])
    <3> TAKE b \in N
    <3> TAKE x \in Span(b[1], b[2]) \ {b[1]}
    <3>1. CASE b \in BlocksOf(F)
      BY <3>1
    <3>2. CASE b = low \/ b = up
      <4>1. x \in Span(n, k + 1) /\ x # n
        BY <2>1, <2>3, <3>2
      <4>2. x \in Span(old[1], old[2]) \ {old[1]}
        BY <1>10, <4>1
      <4> QED BY <1>10, <4>2
    <3> QED BY <2>1, <3>1, <3>2
  <2>7. ASSUME NEW b \in N, NEW x \in Span(b[1], b[2]) \ {b[1]}
        PROVE  is_free[x] /\ Half(x, level'[x])
    <3>1. is_free[x] /\ Half(x, level[x])
      BY <1>3, <2>6 DEF Marks
    <3>2. x # n /\ x \in Real
      BY <2>2, <2>5
    <3>3. level'[x] = level[x]
      BY <1>23, <3>2
    <3> QED BY <3>1, <3>3
  <2> QED BY <2>7 DEF Marks
<1> HIDE DEF N
<1>32. BlockSet(BlocksOf(F2))' /\ Marks(BlocksOf(F2), is_free, level)'
  BY <1>6, <1>14, <1>27, <1>31 DEF BlockSet, Marks
<1>33. FreeAre(F2, rank2, top2)'
  BY <1>25, <1>29, <1>30, <1>32 DEF FreeAre
<1>34. TypeOK'
  <2>1. level' \in [Real -> 0 .. LEVELS - 1]
    BY <1>6, <1>7, <1>8
  <2>2. link' \in [prev : [Num -> Num], next : [Num -> Num]]
    BY <1>25 DEF ListsAre
  <2> QED BY <1>2, <1>6, <1>7, <2>1, <2>2 DEF TypeOK
<1> QED BY <1>33, <1>34 DEF BuddyInv

LEMMA FreeKeeps ==
  ASSUME BuddyInv, NEW b \in owned, Free(b)
  PROVE  BuddyInv' /\ ~is_free[b[1]]
<1>1. PICK F, rank, top : FreeAre(F, rank, top)
  BY DEF BuddyInv
<1>2. TypeOK
  BY DEF BuddyInv
<1>3. ListsAre(link, level, F, rank, top) /\ BlockSet(BlocksOf(F))
      /\ Marks(BlocksOf(F), is_free, level) /\ NodesMarked(F) /\ CallsFit(F)
  BY <1>1 DEF FreeAre
<1>4. PICK n : n = b[1]
  OBVIOUS
<1>5. /\ b \in BlocksOf(F) /\ n \in Real /\ n \in Free0 /\ n # 0 /\ n \notin F
      /\ b = <<n, level[n]>> /\ level[n] \in 0 .. LEVELS - 2
  BY <1>1, <1>2, <1>4, BlocksAre
<1>6. ~is_free[n]
  BY <1>3, <1>4 DEF NodesMarked
<1>7. /\ pc = "idle" /\ owned' = owned \ {b} /\ is_free' = [is_free EXCEPT ![n] = TRUE]
      /\ link' = Insert(link, n, Start(level[n])) /\ pc' = "merge" /\ node' = n
      /\ level' = level /\ request' = request /\ result' = result
  BY <1>4, <1>6 DEF Free
<1>8. InHand = {} /\ InHand' = {}
  BY <1>7 DEF InHand
<1>9. is_free \in [Real -> BOOLEAN]
  BY <1>2 DEF TypeOK
<1>10. is_free'[n] /\ \A x \in Real : x # n => is_free'[x] = is_free[x]
  BY <1>5, <1>7, <1>9
<1>11. PICK F2 : F2 = F \cup {n}
  OBVIOUS
<1>12. PICK rank2 : rank2 = [rank EXCEPT ![n] = top]
  OBVIOUS
<1>13. PICK top2 : top2 = top + 1
  OBVIOUS
<1>14. ListsAre(link, level, F2, rank2, top2)'
  <2>1. ListsAre(Insert(link, n, Start(level[n])), level, F \cup {n}, [rank EXCEPT ![n] = top], top + 1)
    BY <1>3, <1>5, InsertKeeps
  <2> QED BY <1>7, <1>11, <1>12, <1>13, <2>1
<1>15. BlocksOf(F2)' = BlocksOf(F)
  <2>1. {<<x, level[x]>> : x \in F2}' = {<<x, level[x]>> : x \in F} \cup {b}
    BY <1>5, <1>7, <1>11
  <2> QED BY <1>7, <1>8, <2>1 DEF BlocksOf
<1>16. \A d \in owned \ {b} : d[1] # n /\ d[1] \in Real
  <2> TAKE d \in owned \ {b}
  <2>1. d \in BlocksOf(F) /\ d[1] \in Real
    BY <1>1, <1>2, BlocksAre
  <2>2. d # b
    OBVIOUS
  <2> QED BY <1>1, <1>2, <1>4, <1>5, <2>1, <2>2, BlocksAre
<1>17. NodesMarked(F2)'
  <2>1. \A x \in F2 : is_free'[x]
    <3>1. \A x \in F : x \in Real /\ is_free[x]
      BY <1>3 DEF NodesMarked, ListsAre
    <3> QED BY <1>10, <1>11, <3>1
  <2>2. \A d \in owned \ {b} : ~is_free'[d[1]] /\ level[d[1]] = d[2]
    BY <1>3, <1>10, <1>16 DEF NodesMarked
  <2>3. \A x \in Real \ Free0 : ~is_free'[x]
    BY <1>3, <1>5, <1>10 DEF NodesMarked
  <2> QED BY <1>3, <1>7, <1>8, <2>1, <2>2, <2>3 DEF NodesMarked
<1>18. CallsFit(F2)'
  BY <1>3, <1>7, <1>8, <1>11 DEF CallsFit
<1>19. Marks(BlocksOf(F), is_free', level)
  <2> SUFFICES ASSUME NEW d \in BlocksOf(F), NEW x \in Span(d[1], d[2]) \ {d[1]}
               PROVE  is_free'[x] /\ Half(x, level[x])
    BY DEF Marks
  <2>1. is_free[x] /\ Half(x, level[x])
    BY <1>3 DEF Marks
  <2>2. x \in Real
    <3>1. x \in Free0
      BY <1>3 DEF BlockSet
    <3> QED BY <3>1, BuddyAssumption DEF Real
  <2> QED BY <1>10, <2>1, <2>2
<1>20. BlockSet(BlocksOf(F2))' /\ Marks(BlocksOf(F2), is_free, level)'
  BY <1>3, <1>7, <1>15, <1>19 DEF BlockSet, Marks
<1>21. FreeAre(F2, rank2, top2)'
  BY <1>14, <1>17, <1>18, <1>20 DEF FreeAre
<1>22. TypeOK'
  <2>1. link' \in [prev : [Num -> Num], next : [Num -> Num]]
    BY <1>14 DEF ListsAre
  <2>2. is_free' \in [Real -> BOOLEAN]
    BY <1>7, <1>9
  <2> QED BY <1>2, <1>5, <1>7, <2>1, <2>2 DEF TypeOK
<1> QED BY <1>4, <1>6, <1>21, <1>22 DEF BuddyInv

LEMMA FreeReturnKeeps ==
  ASSUME BuddyInv, FreeReturn
  PROVE  BuddyInv'
<1>1. PICK F, rank, top : FreeAre(F, rank, top)
  BY DEF BuddyInv
<1>2. TypeOK
  BY DEF BuddyInv
<1>3. ListsAre(link, level, F, rank, top) /\ BlockSet(BlocksOf(F))
      /\ Marks(BlocksOf(F), is_free, level) /\ NodesMarked(F) /\ CallsFit(F)
  BY <1>1 DEF FreeAre
<1>4. /\ pc = "merge" /\ pc' = "idle" /\ node' = 0 /\ level' = level /\ is_free' = is_free
      /\ link' = link /\ request' = request /\ result' = result /\ owned' = owned
  BY DEF FreeReturn
<1>5. PICK found \in Found(BuddyOf(node, level[node])) : ~CanMerge(node, found)
  BY DEF FreeReturn
<1>6. InHand = {} /\ InHand' = {}
  BY <1>4 DEF InHand
<1>7. BlocksOf(F)' = BlocksOf(F)
  BY <1>4, <1>6 DEF BlocksOf
<1>8. node \in F
  BY <1>3, <1>4 DEF CallsFit
<1>9. \A y \in F : ~ (level[y] = level[node] /\ y = BuddyOf(node, level[node]))
  <2> SUFFICES ASSUME NEW y \in F, level[y] = level[node], y = BuddyOf(node, level[node])
               PROVE  FALSE
    OBVIOUS
  <2>1. y \in Real /\ is_free[y]
    BY <1>3 DEF NodesMarked, ListsAre
  <2>2. found = [is_free |-> is_free[y], level |-> level[y]]
    BY <1>5, <2>1 DEF Found
  <2>3. found.is_free /\ found.level = level[node]
    BY <2>1, <2>2
  <2>4. level[node] # LEVELS - 1
    <3>1. level[node] \in 0 .. LEVELS - 2 /\ LEVELS \in Nat
      BY <1>1, <1>2, <1>8, BlocksAre, NumbersAre
    <3> QED BY <3>1
  <2> QED BY <1>5, <2>3, <2>4 DEF CanMerge
<1>10. ASSUME NEW x \in F, NEW y \in F, level[y] = level[x], y = BuddyOf(x, level[x])
       PROVE  FALSE
  <2>1. node = x \/ node = y
    BY <1>3, <1>10 DEF CallsFit
  <2>2. CASE node = x
    BY <1>9, <1>10, <2>2
  <2>3. CASE node = y
    <3> DEFINE d == <<x, level[x]>>
    <3>1. d \in BlocksOf(F) /\ d[1] = x /\ d[2] = level[x]
      BY DEF BlocksOf
    <3> HIDE DEF d
    <3>2. x \in Nat /\ level[x] \in Nat /\ Aligned(x, level[x])
      <4>1. x \in Nat /\ level[x] \in 0 .. LEVELS - 2
        BY <1>1, <1>2, BlocksAre
      <4> QED BY <1>3, <3>1, <4>1, NumbersAre DEF BlockSet
    <3>3. BuddyOf(y, level[y]) = x
      BY <1>10, <3>2, BuddyTwice
    <3> QED BY <1>9, <1>10, <2>3, <3>3
  <2> QED BY <2>1, <2>2, <2>3
<1>11. NodesMarked(F)'
  BY <1>3, <1>4, <1>6 DEF NodesMarked
<1>12. CallsFit(F)'
  BY <1>4, <1>6, <1>10 DEF CallsFit
<1>13. BlockSet(BlocksOf(F))' /\ Marks(BlocksOf(F), is_free, level)'
  BY <1>3, <1>4, <1>7 DEF BlockSet, Marks
<1>14. FreeAre(F, rank, top)'
  BY <1>3, <1>4, <1>11, <1>12, <1>13 DEF FreeAre, ListsAre
<1>15. TypeOK'
  BY <1>2, <1>4, NumbersAre DEF TypeOK
<1> QED BY <1>14, <1>15 DEF BuddyInv

(* What is past the last node is taken for no buddy, by BuddyAssumption.   *)
LEMMA BuddyIsFree ==
  ASSUME TypeOK, NEW F, NEW rank, NEW top, FreeAre(F, rank, top), NEW n \in F,
         NEW found \in Found(BuddyOf(n, level[n])), CanMerge(n, found)
  PROVE  BuddyOf(n, level[n]) \in F /\ level[BuddyOf(n, level[n])] = level[n]
<1> DEFINE k == level[n]
           m == BuddyOf(n, k)
           b == <<n, k>>
<1>1. b \in BlocksOf(F) /\ b[1] = n /\ b[2] = k
  BY DEF BlocksOf
<1>2. n \in Nat /\ k \in Nat /\ k \in 0 .. LEVELS - 2
  <2>1. n \in Nat /\ k \in 0 .. LEVELS - 2
    BY BlocksAre
  <2> QED BY <2>1, NumbersAre
<1>3. found.is_free /\ found.level = k
  BY DEF CanMerge
<1>4. BlockSet(BlocksOf(F)) /\ Marks(BlocksOf(F), is_free, level) /\ NodesMarked(F)
  BY DEF FreeAre
<1> HIDE DEF b
<1>5. Aligned(n, k) /\ Span(n, k) \subseteq Free0
  BY <1>1, <1>4 DEF BlockSet
<1>6. m \in Nat
  BY <1>2, <1>5, BuddyTwice
<1>7. found \in Found(m)
  OBVIOUS
<1> HIDE DEF m, k
<1>8. CASE m \in Real
  <2>1. found = [is_free |-> is_free[m], level |-> level[m]]
    BY <1>7, <1>8 DEF Found
  <2>2. is_free[m] /\ level[m] = k
    BY <1>3, <2>1
  <2>3. m \in Free0
    BY <1>4, <1>8, <2>2 DEF NodesMarked
  <2>4. <<n, k>> \in BlocksOf(F)
    BY <1>1 DEF b
  <2>5. BuddyOf(n, k) \in Free0 /\ level[BuddyOf(n, k)] = k
    BY <2>2, <2>3 DEF m
  <2>6. \E d \in BlocksOf(F) : d[1] = BuddyOf(n, k)
    BY <1>2, <1>4, <2>4, <2>5, BuddyBegins
  <2>7. PICK d \in BlocksOf(F) : d[1] = m
    BY <2>6 DEF m
  <2>8. d \notin owned \cup InHand
    BY <1>4, <2>2, <2>7 DEF NodesMarked
  <2>9. m \in F
    BY <2>7, <2>8 DEF BlocksOf
  <2> QED BY <2>2, <2>9 DEF m, k
<1>9. CASE m \notin Real
  <2> DEFINE d == 2^k
  <2>1. d \in Nat \ {0}
    BY <1>2, PowerIs
  <2>2. Span(n, k) = n .. n + d - 1
    BY DEF Span
  <2>3. found \in PastTheEnd
    BY <1>7, <1>9 DEF Found
  <2>4. ~Aligned(nodes_count, k) \/ Aligned(nodes_count, k + 1)
    BY <1>3, <2>3, BuddyAssumption DEF Aligned
  <2>5. CASE Aligned(n, k + 1)
    <3>1. m = n + d /\ Aligned(m, k) /\ ~Aligned(m, k + 1)
      <4>1. BuddyOf(n, k) = n + 2^k /\ Aligned(n + 2^k, k) /\ ~Aligned(n + 2^k, k + 1)
        BY <1>2, <1>5, <2>5, HalvesAre
      <4> QED BY <4>1 DEF m
    <3> HIDE DEF d
    <3>2. n + d - 1 \in Span(n, k)
      BY <1>2, <2>1, <2>2
    <3>3. n + d - 1 \in 1 .. nodes_count - 1
      BY <1>5, <3>2, BuddyAssumption
    <3>4. nodes_count \in Nat
      BY BuddyAssumption
    <3>5. m \notin 0 .. nodes_count - 1
      BY <1>9 DEF Real
    <3>6. m = nodes_count
      BY <1>2, <1>6, <2>1, <3>1, <3>3, <3>4, <3>5
    <3> QED BY <2>4, <3>1, <3>6
  <2>6. CASE ~Aligned(n, k + 1)
    <3>1. m = n - d
      <4>1. BuddyOf(n, k) = n - 2^k
        BY <1>2, <1>5, <2>6, HalvesAre
      <4> QED BY <4>1 DEF m
    <3> HIDE DEF d
    <3>2. n \in Real
      BY DEF FreeAre, ListsAre
    <3>3. nodes_count \in Nat /\ n \in 0 .. nodes_count - 1 /\ m \notin 0 .. nodes_count - 1
      BY <1>9, <3>2, BuddyAssumption DEF Real
    <3> QED BY <1>6, <2>1, <3>1, <3>3
  <2> QED BY <2>5, <2>6
<1> QED BY <1>8, <1>9

LEMMA MergeKeeps ==
  ASSUME BuddyInv, Merge
  PROVE  BuddyInv'
<1>1. PICK F, rank, top : FreeAre(F, rank, top)
  BY DEF BuddyInv
<1>2. TypeOK
  BY DEF BuddyInv
<1>3. ListsAre(link, level, F, rank, top) /\ BlockSet(BlocksOf(F))
      /\ Marks(BlocksOf(F), is_free, level) /\ NodesMarked(F) /\ CallsFit(F)
  BY <1>1 DEF FreeAre
<1>4. PICK n : n = node
  OBVIOUS
<1>5. PICK k : k = level[n]
  OBVIOUS
<1>6. PICK m : m = BuddyOf(n, k)
  OBVIOUS
<1>7. PICK low : low = IF n < m THEN n ELSE m
  OBVIOUS
<1>8. /\ pc = "merge" /\ level' = [level EXCEPT ![low] = level[low] + 1]
      /\ link' = Insert(Delete(Delete(link, n), m), low, Start(level[low] + 1))
      /\ node' = low
      /\ pc' = pc /\ is_free' = is_free /\ request' = request /\ result' = result
      /\ owned' = owned
  BY <1>4, <1>5, <1>6, <1>7 DEF Merge
<1>9. PICK found \in Found(m) : CanMerge(n, found)
  BY <1>4, <1>5, <1>6 DEF Merge
<1>10. n \in F /\ m \in F /\ level[m] = k
  <2>1. n \in F
    BY <1>3, <1>4, <1>8 DEF CallsFit
  <2>2. found \in Found(BuddyOf(n, level[n]))
    BY <1>5, <1>6
  <2>3. BuddyOf(n, level[n]) \in F /\ level[BuddyOf(n, level[n])] = level[n]
    BY <1>1, <1>2, <1>9, <2>1, <2>2, BuddyIsFree
  <2> QED BY <1>5, <1>6, <2>1, <2>3
<1>11. /\ n \in Nat /\ n \in Real /\ n # 0 /\ m \in Nat /\ m \in Real /\ m # 0
       /\ k \in Nat /\ k \in 0 .. LEVELS - 2
       /\ <<n, k>> \in BlocksOf(F) /\ <<m, k>> \in BlocksOf(F)
  <2>1. \A x \in F : x \in Nat /\ x \in Real /\ x # 0 /\ level[x] \in 0 .. LEVELS - 2
                     /\ <<x, level[x]>> \in BlocksOf(F)
    BY <1>1, <1>2, BlocksAre
  <2> QED BY <1>5, <1>10, <2>1, NumbersAre
<1>12. Aligned(n, k) /\ Aligned(m, k)
  <2>1. \A x : <<x, k>>[1] = x /\ <<x, k>>[2] = k
    OBVIOUS
  <2> QED BY <1>3, <1>11, <2>1 DEF BlockSet
<1>13. PICK up : up = IF n < m THEN m ELSE n
  OBVIOUS
<1>14. Aligned(low, k + 1) /\ up = low + 2^k /\ {low, up} = {n, m} /\ low # up
  <2> DEFINE d == 2^k
  <2>1. d \in Nat \ {0}
    BY <1>11, PowerIs
  <2>2. CASE Aligned(n, k + 1)
    <3>1. m = n + d
      BY <1>6, <1>11, <1>12, <2>2, HalvesAre
    <3> HIDE DEF d
    <3>2. n < m /\ n # m
      BY <1>11, <2>1, <3>1
    <3> QED BY <1>7, <1>13, <2>2, <3>1, <3>2 DEF d
  <2>3. CASE ~Aligned(n, k + 1)
    <3>1. m = n - d /\ Aligned(m, k + 1)
      BY <1>6, <1>11, <1>12, <2>3, HalvesAre
    <3> HIDE DEF d
    <3>2. ~ (n < m) /\ n # m /\ n = m + d
      BY <1>11, <2>1, <3>1
    <3> QED BY <1>7, <1>13, <3>1, <3>2 DEF d
  <2> QED BY <2>2, <2>3
<1>15. /\ low \in F /\ up \in F /\ level[low] = k /\ level[up] = k /\ low \in Nat /\ up \in Nat
       /\ low \in Real /\ up \in Real /\ low # 0 /\ n # m
       /\ <<low, k>> \in BlocksOf(F) /\ <<up, k>> \in BlocksOf(F)
  BY <1>5, <1>7, <1>10, <1>11, <1>13, <1>14
<1> DEFINE N == (BlocksOf(F) \ {<<low, k>>, <<up, k>>}) \cup {<<low, k + 1>>}
<1>16. BlockSet(N) /\ k + 1 \in 0 .. LEVELS - 2 /\ Half(up, k)
  <2>1. <<low + 2^k, k>> \in BlocksOf(F)
    BY <1>14, <1>15
  <2>2. /\ BlockSet((BlocksOf(F) \ {<<low, k>>, <<low + 2^k, k>>}) \cup {<<low, k + 1>>})
        /\ k + 1 \in 0 .. LEVELS - 2 /\ Half(low + 2^k, k)
    BY <1>3, <1>11, <1>14, <1>15, <2>1, JoinBlocks
  <2> QED BY <1>14, <2>2
<1>17. /\ level' = [level EXCEPT ![low] = k + 1]
       /\ link' = Insert(Delete(Delete(link, n), m), low, Start(k + 1))
  BY <1>8, <1>15
<1>18. level \in [Real -> 0 .. LEVELS - 1]
  BY <1>2 DEF TypeOK
<1>19. level'[low] = k + 1 /\ \A x \in Real : x # low => level'[x] = level[x]
  BY <1>15, <1>17, <1>18
<1>20. PICK F1 : F1 = (F \ {n}) \ {m}
  OBVIOUS
<1>21. F1 = F \ {low, up} /\ low \notin F1 /\ F1 \subseteq Real
  BY <1>3, <1>14, <1>20 DEF ListsAre
<1>22. PICK F2 : F2 = F1 \cup {low}
  OBVIOUS
<1>23. PICK rank2 : rank2 = [rank EXCEPT ![low] = top]
  OBVIOUS
<1>24. PICK top2 : top2 = top + 1
  OBVIOUS
<1>25. ListsAre(link, level, F2, rank2, top2)'
  <2>1. ListsAre(Delete(link, n), level, F \ {n}, rank, top)
    BY <1>3, <1>10, DeleteKeeps
  <2>2. m \in F \ {n}
    BY <1>10, <1>15
  <2>3. ListsAre(Delete(Delete(link, n), m), level, (F \ {n}) \ {m}, rank, top)
    BY <2>1, <2>2, DeleteKeeps
  <2>4. ListsAre(Delete(Delete(link, n), m), level, F1, rank, top)
    BY <1>20, <2>3
  <2>5. \A x \in F1 : level'[x] = level[x]
    BY <1>19, <1>21
  <2>6. ListsAre(Delete(Delete(link, n), m), level', F1, rank, top)
    BY <2>4, <2>5, SameLevels
  <2>7. low \in Real \ {0} /\ level'[low] \in 0 .. LEVELS - 2
    BY <1>15, <1>16, <1>19
  <2>8. ListsAre(Insert(Delete(Delete(link, n), m), low, Start(level'[low])), level',
                 F1 \cup {low}, [rank EXCEPT ![low] = top], top + 1)
    BY <1>21, <2>6, <2>7, InsertKeeps
  <2>9. ListsAre(link', level', F2, rank2, top2)
    BY <1>17, <1>19, <1>22, <1>23, <1>24, <2>8
  <2> QED BY <2>9
<1>26. InHand = {} /\ InHand' = {}
  BY <1>8 DEF InHand
<1>27. BlocksOf(F2)' = N
  <2>1. \A b \in owned : b[1] \notin F
    BY <1>1, <1>2, BlocksAre
  <2>2. \A x : <<x, k>>[1] = x
    OBVIOUS
  <2>3. <<low, k>> \notin owned /\ <<up, k>> \notin owned
    BY <1>15, <2>1, <2>2
  <2>4. {<<x, level[x]>> : x \in F} = {<<x, level[x]>> : x \in F1} \cup {<<low, k>>, <<up, k>>}
    BY <1>15, <1>21
  <2>5. {<<x, level[x]>> : x \in F2}' = {<<x, level[x]>> : x \in F1} \cup {<<low, k + 1>>}
    BY <1>19, <1>21, <1>22
  <2>6. <<low, k>> \notin {<<x, level[x]>> : x \in F1} /\ <<up, k>> \notin {<<x, level[x]>> : x \in F1}
    BY <1>21
  <2>7. BlocksOf(F) = ({<<x, level[x]>> : x \in F1} \cup {<<low, k>>, <<up, k>>}) \cup owned
    BY <1>26, <2>4 DEF BlocksOf
  <2>8. BlocksOf(F2)' = ({<<x, level[x]>> : x \in F1} \cup {<<low, k + 1>>}) \cup owned
    BY <1>8, <1>26, <2>5 DEF BlocksOf
  <2> QED BY <2>3, <2>6, <2>7, <2>8
<1>28. NodesMarked(F2)'
  <2>1. \A x \in F2 : is_free[x]
    BY <1>3, <1>15, <1>21, <1>22 DEF NodesMarked
  <2>2. \A b \in owned : b[1] # low /\ b[1] \in Real
    BY <1>1, <1>2, <1>15, BlocksAre
  <2>3. \A b \in owned : ~is_free[b[1]] /\ level'[b[1]] = b[2]
    BY <1>3, <1>19, <2>2 DEF NodesMarked
  <2>4. level'[0] = 0
    BY <1>3, <1>15, <1>19, NumbersAre DEF NodesMarked
  <2> QED BY <1>3, <1>8, <1>26, <2>1, <2>3, <2>4 DEF NodesMarked
<1>29. CallsFit(F2)'
  <2>1. ASSUME NEW x \in F2, NEW y \in F2, level'[y] = level'[x], y = BuddyOf(x, level'[x])
        PROVE  low = x \/ low = y
    <3> SUFFICES ASSUME low # x, low # y PROVE FALSE
      OBVIOUS
    <3>1. x \in F1 /\ y \in F1 /\ x \in F /\ y \in F /\ x \in Real /\ y \in Real
      BY <1>21, <1>22
    <3>2. level[y] = level[x] /\ y = BuddyOf(x, level[x])
      BY <1>19, <2>1, <3>1
    <3>3. n = x \/ n = y
      BY <1>3, <1>4, <3>1, <3>2 DEF CallsFit
    <3> QED BY <1>20, <3>1, <3>3
  <2> QED BY <1>8, <1>22, <1>26, <2>1 DEF CallsFit
<1>30. Marks(N, is_free, level')
  <2> DEFINE new == <<low, k + 1>>
             lo == <<low, k>>
             hi == <<up, k>>
  <2>1. /\ new[1] = low /\ new[2] = k + 1 /\ lo[1] = low /\ lo[2] = k /\ hi[1] = up /\ hi[2] = k
        /\ lo \in BlocksOf(F) /\ hi \in BlocksOf(F)
        /\ \A b \in N : b = new \/ (b \in BlocksOf(F) /\ b # lo)
    BY <1>15
  <2>2. \A b \in N : Span(b[1], b[2]) \subseteq Real
    <3>1. Free0 \subseteq Real
      BY BuddyAssumption DEF Real
    <3> HIDE DEF N
    <3> QED BY <1>16, <3>1 DEF BlockSet
  <2>3. low \in Span(low, k) /\ Span(low, k + 1) = Span(low, k) \cup Span(up, k)
        /\ Span(low, k) \cap Span(up, k) = {}
    BY <1>11, <1>14, <1>15, SpanIs
  <2> HIDE DEF N, lo, hi, new
  <2>4. \A b \in BlocksOf(F) : b # lo => low \notin Span(b[1], b[2])
    BY <1>3, <2>1, <2>3 DEF BlockSet
  <2>5. \A b \in N : \A x \in Span(b[1], b[2]) \ {b[1]} : x # low
    BY <2>1, <2>4
  <2>6. ASSUME NEW b \in N, NEW x \in Span(b[1], b[2]) \ {b[1]}
        PROVE  is_free[x] /\ Half(x, level[x])
    <3>1. CASE b \in BlocksOf(F)
      BY <1>3, <3>1 DEF Marks
    <3>2. CASE b = new
      <4>1. x \in Span(low, k + 1) /\ x # low
        BY <2>1, <3>2
      <4>2. CASE x \in Span(low, k)
        <5>1. x \in Span(lo[1], lo[2]) \ {lo[1]}
          BY <2>1, <4>1, <4>2
        <5> QED BY <1>3, <2>1, <5>1 DEF Marks
      <4>3. CASE x \in Span(up, k) /\ x # up
        <5>1. x \in Span(hi[1], hi[2]) \ {hi[1]}
          BY <2>1, <4>3
        <5> QED BY <1>3, <2>1, <5>1 DEF Marks
      <4>4. CASE x = up
        BY <1>3, <1>15, <1>16, <4>4 DEF NodesMarked
      <4> QED BY <2>3, <4>1, <4>2, <4>3, <4>4
    <3> QED BY <2>1, <3>1, <3>2
  <2>7. ASSUME NEW b \in N, NEW x \in Span(b[1], b[2]) \ {b[1]}
        PROVE  is_free[x] /\ Half(x, level'[x])
    <3>1. x # low /\ x \in Real
      BY <2>2, <2>5
    <3>2. level'[x] = level[x]
      BY <1>19, <3>1
    <3> QED BY <2>6, <3>2
  <2> QED BY <2>7 DEF Marks
<1> HIDE DEF N
<1>31. BlockSet(BlocksOf(F2))' /\ Marks(BlocksOf(F2), is_free, level)'
  BY <1>8, <1>16, <1>27, <1>30 DEF BlockSet, Marks
<1>32. FreeAre(F2, rank2, top2)'
  BY <1>25, <1>28, <1>29, <1>31 DEF FreeAre
<1>33. TypeOK'
  <2>1. k + 1 \in 0 .. LEVELS - 1
    BY <1>16, BuddyAssumption
  <2>2. level' \in [Real -> 0 .. LEVELS - 1]
    BY <1>17, <1>18, <2>1
  <2>3. link' \in [prev : [Num -> Num], next : [Num -> Num]]
    BY <1>25 DEF ListsAre
  <2> QED BY <1>2, <1>8, <1>15, <2>2, <2>3 DEF TypeOK
<1> QED BY <1>32, <1>33 DEF BuddyInv

(* The inductive invariant: the nodes on the free lists, the blocks of the *)
(* callers and the one being split share out the available pages, no two   *)
(* free buddies of a level are left unmerged but the one at hand, and the  *)
(* nodes inside blocks are marked as the merges left them.                 *)
THEOREM BuddyInvariant == Spec => []BuddyInv
<1>1. Init => BuddyInv
  BY BuddyInit
<1>2. BuddyInv /\ [Next]_vars => BuddyInv'
  <2> SUFFICES ASSUME BuddyInv, [Next]_vars PROVE BuddyInv'
    OBVIOUS
  <2>1. ASSUME NEW k \in 0 .. LEVELS - 1, Alloc(k) PROVE BuddyInv'
    BY <2>1, AllocKeeps
  <2>2. CASE Split
    BY <2>2, SplitKeeps
  <2>3. CASE AllocReturn
    BY <2>3, AllocReturnKeeps
  <2>4. ASSUME NEW b \in owned, Free(b) PROVE BuddyInv'
    BY <2>4, FreeKeeps
  <2>5. CASE Merge
    BY <2>5, MergeKeeps
  <2>6. CASE FreeReturn
    BY <2>6, FreeReturnKeeps
  <2>7. CASE UNCHANGED vars
    <3>1. /\ level' = level /\ is_free' = is_free /\ link' = link /\ pc' = pc /\ node' = node
          /\ request' = request /\ result' = result /\ owned' = owned
      BY <2>7 DEF vars
    <3>2. PICK F, rank, top : FreeAre(F, rank, top)
      BY DEF BuddyInv
    <3>3. InHand' = InHand /\ BlocksOf(F)' = BlocksOf(F)
      BY <3>1 DEF InHand, BlocksOf
    <3>4. ListsAre(link, level, F, rank, top)'
      BY <3>1, <3>2 DEF FreeAre
    <3>5. BlockSet(BlocksOf(F))' /\ Marks(BlocksOf(F), is_free, level)'
      BY <3>1, <3>2, <3>3 DEF FreeAre, BlockSet, Marks
    <3>6. NodesMarked(F)' /\ CallsFit(F)'
      BY <3>1, <3>2, <3>3 DEF FreeAre, NodesMarked, CallsFit
    <3>7. FreeAre(F, rank, top)'
      BY <3>4, <3>5, <3>6 DEF FreeAre
    <3>8. TypeOK'
      BY <3>1 DEF BuddyInv, TypeOK
    <3> QED BY <3>7, <3>8 DEF BuddyInv
  <2> QED BY <2>1, <2>2, <2>3, <2>4, <2>5, <2>6, <2>7 DEF Next
<1> QED BY <1>1, <1>2, PTL DEF Spec

LEMMA FreeBlocksAre ==
  ASSUME NEW F, NEW rank, NEW top, ListsAre(link, level, F, rank, top)
  PROVE  FreeBlocks = {<<n, level[n]>> : n \in F}
<1>1. \A k \in 0 .. LEVELS - 2 : OnList(k) = {n \in F : level[n] = k}
  BY OnListIs
<1>2. \A n \in F : level[n] \in 0 .. LEVELS - 2
  BY DEF ListsAre
<1>3. ASSUME NEW b \in FreeBlocks PROVE b \in {<<n, level[n]>> : n \in F}
  <2>1. PICK k \in 0 .. LEVELS - 2 : b \in OnList(k) \X {k}
    BY DEF FreeBlocks
  <2> QED BY <1>1, <2>1
<1>4. ASSUME NEW n \in F PROVE <<n, level[n]>> \in FreeBlocks
  <2>1. PICK k \in 0 .. LEVELS - 2 : k = level[n]
    BY <1>2
  <2>2. <<n, k>> \in OnList(k) \X {k}
    BY <1>1, <2>1
  <2>3. <<n, k>> \in FreeBlocks
    BY <2>2 DEF FreeBlocks
  <2> QED BY <2>1, <2>3
<1> QED BY <1>3, <1>4

LEMMA PartitionHolds ==
  ASSUME BuddyInv
  PROVE  BlocksPartitionMemory
<1>1. PICK F, rank, top : FreeAre(F, rank, top)
  BY DEF BuddyInv
<1>2. TypeOK
  BY DEF BuddyInv
<1>3. FreeBlocks = {<<n, level[n]>> : n \in F}
  BY <1>1, FreeBlocksAre DEF FreeAre
<1> DEFINE B == FreeBlocks \cup owned \cup InHand
<1>4. B = BlocksOf(F)
  BY <1>3 DEF BlocksOf
<1>5. BlockSet(B)
  BY <1>1, <1>4 DEF FreeAre
<1> HIDE DEF B
<1>6. \A b : PagesOf(b) = Span(b[1], b[2])
  BY DEF PagesOf, Span
<1>7. \A b \in B : b[1] % 2^b[2] = 0
  BY <1>5 DEF BlockSet, Aligned
<1>8. \A b, d \in B : b # d => PagesOf(b) \cap PagesOf(d) = {}
  BY <1>5, <1>6 DEF BlockSet
<1>9. UNION {PagesOf(b) : b \in B} = Free0
  <2>1. \A b \in B : PagesOf(b) \subseteq Free0
    BY <1>5, <1>6 DEF BlockSet
  <2>2. \A p \in Free0 : \E b \in B : p \in PagesOf(b)
    BY <1>5, <1>6 DEF BlockSet
  <2> QED BY <2>1, <2>2
<1>10. FreeBlocks \cap (owned \cup InHand) = {}
  <2>1. \A b \in owned \cup InHand : b[1] \notin F
    BY <1>1, <1>2, BlocksAre
  <2>2. \A b \in FreeBlocks : b[1] \in F
    BY <1>3
  <2> QED BY <2>1, <2>2
<1> QED BY <1>7, <1>8, <1>9, <1>10 DEF BlocksPartitionMemory, B

(* The blocks on the free lists, the callers' and the one being split are  *)
(* aligned, and each available page is in exactly one of them.             *)
THEOREM PagesHaveOneBlock == Spec => []BlocksPartitionMemory
<1>1. BuddyInv => BlocksPartitionMemory
  BY PartitionHolds
<1> QED BY <1>1, BuddyInvariant, PTL

LEMMA HalvesHold ==
  ASSUME BuddyInv
  PROVE  HalvesReady
<1>1. PICK F, rank, top : FreeAre(F, rank, top)
  BY DEF BuddyInv
<1>2. FreeBlocks = {<<n, level[n]>> : n \in F}
  BY <1>1, FreeBlocksAre DEF FreeAre
<1>3. FreeBlocks \cup InHand \subseteq BlocksOf(F)
  BY <1>2 DEF BlocksOf
<1>4. Marks(BlocksOf(F), is_free, level)
  BY <1>1 DEF FreeAre
<1>5. \A b : PagesOf(b) = Span(b[1], b[2])
  BY DEF PagesOf, Span
<1>6. ASSUME NEW b \in FreeBlocks \cup InHand, NEW n \in PagesOf(b) \ {b[1]}
      PROVE  is_free[n] /\ n % 2^level[n] = 0 /\ n % 2^(level[n] + 1) # 0
  <2>1. b \in BlocksOf(F) /\ n \in Span(b[1], b[2]) \ {b[1]}
    BY <1>3, <1>5
  <2>2. is_free[n] /\ Half(n, level[n])
    BY <1>4, <2>1 DEF Marks
  <2> QED BY <2>2 DEF Half, Aligned
<1> QED BY <1>6 DEF HalvesReady

(* The nodes inside free blocks stay marked as the merges left them, so    *)
(* that __buddy_alloc can split without writing to the upper half.         *)
THEOREM HalvesAreReady == Spec => []HalvesReady
<1>1. BuddyInv => HalvesReady
  BY HalvesHold
<1> QED BY <1>1, BuddyInvariant, PTL

LEMMA ListsHold ==
  ASSUME BuddyInv
  PROVE  ListsWellFormed
<1>1. PICK F, rank, top : FreeAre(F, rank, top)
  BY DEF BuddyInv
<1>2. TypeOK
  BY DEF BuddyInv
<1>3. ListsAre(link, level, F, rank, top) /\ NodesMarked(F)
  BY <1>1 DEF FreeAre
<1>4. FreeBlocks = {<<n, level[n]>> : n \in F}
  BY <1>3, FreeBlocksAre
<1>5. \A b \in FreeBlocks : b[1] \in F /\ b[2] = level[b[1]]
  BY <1>4
<1>6. \A n \in F : /\ is_free[n] /\ link.next[link.prev[n]] = n
                   /\ link.next[n] # NULL => link.prev[link.next[n]] = n
  BY <1>3 DEF ListsAre, NodesMarked
<1> QED BY <1>2, <1>5, <1>6 DEF ListsWellFormed

(* The nodes of a free list are marked free with the list's level, and     *)
(* their links agree with their neighbours', head included.                *)
THEOREM ListsStayWellFormed == Spec => []ListsWellFormed
<1>1. BuddyInv => ListsWellFormed
  BY ListsHold
<1> QED BY <1>1, BuddyInvariant, PTL

----------------------------------------------------------------------------
(* The refinement.                                                         *)

LEMMA PagesMap ==
  /\ \A n, k : P!PagesOf(n, k) = Span(n, k)
  /\ P!None = -1
BY DEF P!PagesOf, P!None, Span

(* buddy_alloc finds no node only when no block of the size is available.  *)
LEMMA NullMeansNone ==
  ASSUME BuddyInv, pc = "split", node = 0
  PROVE  P!Available(request) = {}
<1>1. PICK F, rank, top : FreeAre(F, rank, top)
  BY DEF BuddyInv
<1>2. TypeOK
  BY DEF BuddyInv
<1>3. BlockSet(BlocksOf(F)) /\ CallsFit(F)
  BY <1>1 DEF FreeAre
<1> SUFFICES ASSUME NEW n \in P!Available(request) PROVE FALSE
  OBVIOUS
<1>4. request \in Nat
  BY <1>2, NumbersAre DEF TypeOK
<1>5. /\ n \in Free0 /\ n \in Nat /\ Aligned(n, request) /\ Span(n, request) \subseteq Free0
      /\ \A b \in owned : Span(b[1], b[2]) \cap Span(n, request) = {}
  <2>1. n \in Free0 /\ n % 2^request = 0 /\ P!PagesOf(n, request) \subseteq Free0 \ P!OwnedPages
    BY DEF P!Available
  <2>2. \A b \in owned : Span(b[1], b[2]) \subseteq P!OwnedPages
    BY PagesMap DEF P!OwnedPages
  <2>3. n \in Nat
    BY <2>1, BuddyAssumption
  <2> QED BY <2>1, <2>2, <2>3, PagesMap DEF Aligned
<1>6. InHand = {}
  BY DEF InHand
<1>7. \A b \in BlocksOf(F) : b \in owned \/ (b[1] \in F /\ b[2] = level[b[1]])
  BY <1>6 DEF BlocksOf
<1>8. \A b \in BlocksOf(F) : Span(b[1], b[2]) \cap Span(n, request) # {} =>
        b[1] \in F /\ b[2] = level[b[1]] /\ b[2] < request
  BY <1>3, <1>5, <1>7 DEF CallsFit
<1>9. PICK b \in BlocksOf(F), d \in BlocksOf(F) :
        /\ Span(b[1], b[2]) \subseteq Span(n, request)
        /\ Span(d[1], d[2]) \subseteq Span(n, request)
        /\ b[2] = d[2] /\ d[1] = BuddyOf(b[1], b[2])
  <2>1. \E b, d \in BlocksOf(F) : /\ Span(b[1], b[2]) \subseteq Span(n, request)
                                  /\ Span(d[1], d[2]) \subseteq Span(n, request)
                                  /\ b[2] = d[2] /\ d[1] = BuddyOf(b[1], b[2])
    BY <1>3, <1>4, <1>5, <1>8, TwoHalves
  <2> QED BY <2>1
<1>10. b[1] \in Span(b[1], b[2]) /\ d[1] \in Span(d[1], d[2])
  BY <1>1, <1>2, BlocksAre
<1>11. b[1] \in F /\ d[1] \in F /\ level[d[1]] = level[b[1]] /\ d[1] = BuddyOf(b[1], level[b[1]])
  BY <1>8, <1>9, <1>10
<1> QED BY <1>3, <1>11 DEF CallsFit

(* The block returned was available.                                       *)
LEMMA BlockWasAvailable ==
  ASSUME BuddyInv, AllocReturn, node # 0
  PROVE  request = level[node] /\ node \in P!Available(request)
<1>1. PICK F, rank, top : FreeAre(F, rank, top)
  BY DEF BuddyInv
<1>2. TypeOK
  BY DEF BuddyInv
<1>3. BlockSet(BlocksOf(F)) /\ CallsFit(F)
  BY <1>1 DEF FreeAre
<1>4. pc = "split" /\ level[node] <= request
  BY DEF AllocReturn
<1>5. request = level[node]
  <2>1. level[node] \in Nat /\ request \in Nat
    BY <1>2, NumbersAre DEF TypeOK
  <2> QED BY <1>3, <1>4, <2>1 DEF CallsFit
<1> DEFINE b == <<node, level[node]>>
<1>6. b \in InHand /\ b[1] = node /\ b[2] = request
  BY <1>4, <1>5 DEF InHand
<1> HIDE DEF b
<1>7. b \in BlocksOf(F) /\ b \notin owned /\ owned \subseteq BlocksOf(F)
  BY <1>3, <1>6 DEF BlocksOf, CallsFit
<1>8. Aligned(node, request) /\ Span(node, request) \subseteq Free0
  BY <1>3, <1>6, <1>7 DEF BlockSet
<1>9. node \in Free0
  BY <1>1, <1>2, <1>6, BlocksAre
<1>10. \A d \in owned : Span(d[1], d[2]) \cap Span(node, request) = {}
  <2> TAKE d \in owned
  <2>1. d \in BlocksOf(F) /\ d # b
    BY <1>7
  <2>2. Span(d[1], d[2]) \cap Span(b[1], b[2]) = {}
    BY <1>3, <1>7, <2>1 DEF BlockSet
  <2> QED BY <1>6, <2>2
<1>11. Span(node, request) \subseteq Free0 \ P!OwnedPages
  <2>1. \A d \in owned : P!PagesOf(d[1], d[2]) = Span(d[1], d[2])
    BY PagesMap
  <2> QED BY <1>8, <1>10, <2>1 DEF P!OwnedPages
<1> QED BY <1>5, <1>8, <1>9, <1>11, PagesMap DEF P!Available, Aligned

LEMMA StepsMap ==
  ASSUME BuddyInv, [Next]_vars
  PROVE  [P!Next]_(P!vars)
<1>1. request \in 0 .. LEVELS - 1 /\ LEVELS \in Nat
  BY NumbersAre DEF BuddyInv, TypeOK
<1>2. ASSUME NEW k \in 0 .. LEVELS - 1, Alloc(k) PROVE P!Alloc(k)
  BY <1>2, PagesMap DEF Alloc, P!Alloc
<1>3. CASE Split
  BY <1>3 DEF Split, P!vars
<1>4. CASE AllocReturn
  <2>1. /\ pc = "split" /\ pc' = "idle" /\ result' = node
        /\ owned' = IF node = 0 THEN owned ELSE owned \cup {<<node, request>>}
    BY <1>4 DEF AllocReturn
  <2>2. request # -1
    BY <1>1
  <2>3. ASSUME node = 0 PROVE P!AllocReturn
    BY <2>1, <2>2, <2>3, NullMeansNone, PagesMap DEF P!AllocReturn
  <2>4. ASSUME node # 0 PROVE P!AllocReturn
    <3>1. node \in P!Available(request)
      BY <1>4, <2>4, BlockWasAvailable
    <3> QED BY <2>1, <2>2, <2>4, <3>1, PagesMap DEF P!AllocReturn
  <2>5. P!AllocReturn
    BY <2>3, <2>4
  <2> QED BY <2>5 DEF P!Next
<1>5. ASSUME NEW b \in owned, Free(b) PROVE P!Free(b)
  <2>1. ~is_free[b[1]]
    BY <1>5, FreeKeeps
  <2> QED BY <1>5, <2>1, PagesMap DEF Free, P!Free
<1>6. CASE Merge
  BY <1>6 DEF Merge, P!vars
<1>7. CASE FreeReturn
  BY <1>7 DEF FreeReturn, P!vars
<1>8. CASE UNCHANGED vars
  BY <1>8 DEF vars, P!vars
<1> QED BY <1>2, <1>3, <1>4, <1>5, <1>6, <1>7, <1>8 DEF Next, P!Next

(* Refinement: buddy.c implements PageAllocator.  A request gets an aligned*)
(* block none of whose pages a caller has, and NULL only when there is no  *)
(* such block.                                                             *)
THEOREM BuddyImplementsPageAllocator == Spec => PageAllocatorSpec
<1>1. Init => P!Init
  BY DEF Init, P!Init, P!None
<1>2. BuddyInv /\ [Next]_vars => [P!Next]_(P!vars)
  BY StepsMap
<1> QED BY <1>1, <1>2, BuddyInvariant, PTL DEF Spec, PageAllocatorSpec, P!Spec
=============================================================================
