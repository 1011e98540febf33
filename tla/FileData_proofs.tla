--------------------------- MODULE FileData_proofs ---------------------------
(***************************************************************************)
(* Proofs about the data of a regular file: that its end stays inside its  *)
(* block, and that the file is the sequence of bytes that RegularFile says *)
(* it is, for blocks of any size, buffers of any length and any number of  *)
(* descriptors.                                                            *)
(***************************************************************************)
EXTENDS FileData, TLAPS, SequenceTheorems, FiniteSetTheorems, WellFoundedInduction

Values  == Byte \cup {Foreign}
Content == [k \in 1 .. size |-> ByteAt(k - 1)]

(* The block has the size that its level says, and holds the file unless a *)
(* write has moved the end past it.                                        *)
DataInv ==
  /\ size_level \in 0 .. MAX_LEVEL
  /\ size \in Nat
  /\ data \in [0 .. buddy_size(size_level) - 1 -> Byte]
  /\ pos \in [Desc -> Nat \cup {Closed}]
  /\ stranded \in BOOLEAN
  /\ size > buddy_size(size_level) => stranded

----------------------------------------------------------------------------
(* Numbers, and the powers of 2: 2^n is the number of subsets of 1 .. n.   *)

LEMMA LeastNumber ==
  ASSUME NEW T, T \subseteq Nat, T # {}
  PROVE  \E m \in T : \A k \in T : m <= k
<1> DEFINE R == OpToRel(<, Nat)
<1>1. IsWellFoundedOn(R, Nat)
  BY NatLessThanWellFounded
<1>2. \A x, y \in Nat : <<y, x>> \in R <=> y < x
  BY DEF OpToRel
<1> HIDE DEF R
<1>3. PICK x \in T : \A y \in T : ~ (<<y, x>> \in R)
  BY <1>1, WFMin
<1>4. ASSUME NEW k \in T PROVE x <= k
  <2>1. x \in Nat /\ k \in Nat /\ ~ (k < x)
    BY <1>2, <1>3
  <2> QED BY <2>1
<1> QED BY <1>4

LEMMA PowerIs ==
  ASSUME NEW n \in Nat
  PROVE  /\ IsFiniteSet(SUBSET (1 .. n)) /\ Cardinality(SUBSET (1 .. n)) = 2^n
         /\ 2^n \in Nat \ {0}
<1>1. 1 \in Int /\ n \in Int
  OBVIOUS
<1>2. IsFiniteSet(1 .. n) /\ Cardinality(1 .. n) = IF 1 > n THEN 0 ELSE n - 1 + 1
  BY <1>1, FS_Interval
<1>3. Cardinality(1 .. n) = n
  BY <1>2
<1>4. IsFiniteSet(SUBSET (1 .. n)) /\ Cardinality(SUBSET (1 .. n)) = 2^n
  BY <1>2, <1>3, FS_SUBSET
<1>5. 2^n \in Nat
  BY <1>4, FS_CardinalityType
<1>6. SUBSET (1 .. n) # {}
  OBVIOUS
<1>7. 2^n # 0
  BY <1>4, <1>6, FS_EmptySet
<1> QED BY <1>4, <1>5, <1>7

(* The subsets of 1 .. n + 1 are those of 1 .. n, without n + 1 and with it*)
LEMMA PowerDoubles ==
  ASSUME NEW n \in Nat
  PROVE  2^(n + 1) = 2^n + 2^n
<1> DEFINE A == SUBSET (1 .. n)
           B == {U \cup {n + 1} : U \in A}
           C == SUBSET (1 .. n + 1)
           f == [U \in A |-> U \cup {n + 1}]
<1>1. n + 1 \notin 1 .. n /\ 1 .. n + 1 = (1 .. n) \cup {n + 1}
  OBVIOUS
<1>2. f \in Injection(A, B)
  <2>1. f \in [A -> B]
    OBVIOUS
  <2>2. ASSUME NEW U \in A, NEW V \in A, f[U] = f[V] PROVE U = V
    <3>1. U \cup {n + 1} = V \cup {n + 1}
      BY <2>2
    <3>2. n + 1 \notin U /\ n + 1 \notin V
      BY <1>1
    <3> QED BY <3>1, <3>2
  <2> HIDE DEF f
  <2> QED BY <2>1, <2>2 DEF Injection, IsInjective
<1>3. f \in Surjection(A, B)
  <2>1. f \in [A -> B] /\ \A V \in B : \E U \in A : f[U] = V
    OBVIOUS
  <2> QED BY <2>1 DEF Surjection
<1>4. ExistsBijection(A, B)
  BY <1>2, <1>3 DEF ExistsBijection, Bijection
<1>5. IsFiniteSet(A) /\ Cardinality(A) = 2^n /\ 2^n \in Nat
  BY PowerIs
<1>6. IsFiniteSet(B) /\ Cardinality(B) = 2^n
  BY <1>4, <1>5, FS_Bijection
<1>7. A \cap B = {}
  BY <1>1
<1>8. A \cup B = C
  <2>1. A \subseteq C /\ B \subseteq C
    BY <1>1
  <2>2. ASSUME NEW V \in C, V \notin A PROVE V \in B
    <3>1. n + 1 \in V
      BY <1>1, <2>2
    <3>2. V \ {n + 1} \in A /\ V = (V \ {n + 1}) \cup {n + 1}
      BY <1>1, <3>1
    <3> QED BY <3>2
  <2> HIDE DEF A, B, C
  <2> QED BY <2>1, <2>2
<1>9. Cardinality(C) = 2^(n + 1)
  <2>1. n + 1 \in Nat
    OBVIOUS
  <2> QED BY <2>1, PowerIs
<1>10. Cardinality(A \cup B) = Cardinality(A) + Cardinality(B) - Cardinality(A \cap B)
  <2> HIDE DEF A, B
  <2> QED BY <1>5, <1>6, FS_Union
<1>11. Cardinality(A \cap B) = 0
  BY <1>7, FS_EmptySet
<1> HIDE DEF A, B, C
<1> QED BY <1>5, <1>6, <1>8, <1>9, <1>10, <1>11

LEMMA PowerGrows ==
  ASSUME NEW l \in Nat, NEW m \in Nat, l <= m
  PROVE  2^l <= 2^m
<1> DEFINE T == {k \in Nat : l <= k /\ ~ (2^l <= 2^k)}
<1> SUFFICES ASSUME T # {} PROVE FALSE
  OBVIOUS
<1>1. PICK k \in T : \A j \in T : k <= j
  BY LeastNumber
<1>2. k \in Nat /\ l <= k /\ ~ (2^l <= 2^k) /\ k # l
  <2>1. 2^l \in Nat
    BY PowerIs
  <2> QED BY <2>1
<1>3. k - 1 \in Nat /\ l <= k - 1 /\ k - 1 \notin T
  BY <1>1, <1>2
<1>4. 2^l <= 2^(k - 1)
  BY <1>3
<1>5. 2^((k - 1) + 1) = 2^(k - 1) + 2^(k - 1)
  BY <1>3, PowerDoubles
<1>6. (k - 1) + 1 = k
  BY <1>2
<1>7. 2^k = 2^(k - 1) + 2^(k - 1)
  BY <1>5, <1>6
<1>8. 2^(k - 1) \in Nat /\ 2^l \in Nat
  BY <1>2, <1>3, PowerIs
<1> QED BY <1>2, <1>4, <1>7, <1>8

LEMMA BlocksAre ==
  ASSUME NEW l \in Nat
  PROVE  /\ buddy_size(l) \in Nat \ {0} /\ buddy_size(0) = PAGE_SIZE
         /\ \A m \in Nat : l <= m => buddy_size(l) <= buddy_size(m)
<1>1. PAGE_SIZE \in Nat \ {0}
  BY DataAssumption
<1>2. \A x \in Nat \ {0} : PAGE_SIZE * x \in Nat \ {0}
  BY <1>1
<1>3. \A m \in Nat : 2^m \in Nat \ {0}
  BY PowerIs
<1>4. 2^0 = 1
  OBVIOUS
<1>5. ASSUME NEW x \in Nat, NEW y \in Nat, x <= y
      PROVE  PAGE_SIZE * x <= PAGE_SIZE * y
  <2>1. PAGE_SIZE * y = PAGE_SIZE * x + PAGE_SIZE * (y - x) /\ y - x \in Nat
    BY <1>1, <1>5
  <2>2. PAGE_SIZE * (y - x) \in Nat /\ PAGE_SIZE * x \in Nat
    BY <1>1, <2>1
  <2> QED BY <2>1, <2>2
<1>6. ASSUME NEW m \in Nat, l <= m PROVE buddy_size(l) <= buddy_size(m)
  <2>1. 2^l <= 2^m /\ 2^l \in Nat /\ 2^m \in Nat
    BY <1>3, <1>6, PowerGrows
  <2> QED BY <1>5, <2>1 DEF buddy_size
<1>7. buddy_size(l) \in Nat \ {0}
  BY <1>2, <1>3 DEF buddy_size
<1>8. buddy_size(0) = PAGE_SIZE
  BY <1>1, <1>4 DEF buddy_size
<1> QED BY <1>6, <1>7, <1>8

----------------------------------------------------------------------------
(* The invariant.                                                          *)

LEMMA InitHolds == ASSUME Init PROVE DataInv
<1>1. buddy_size(0) = PAGE_SIZE /\ buddy_size(0) \in Nat \ {0}
  BY BlocksAre
<1>2. 0 \in 0 .. MAX_LEVEL
  BY DataAssumption
<1>3. data \in [0 .. buddy_size(0) - 1 -> Byte]
  BY DEF Init, Contents
<1> QED BY <1>1, <1>2, <1>3 DEF Init, DataInv, Closed

(* The bytes of a buffer.                                                  *)
LEMMA BufferIs ==
  ASSUME NEW b \in Buffer
  PROVE  Len(b) \in Nat /\ DOMAIN b = 1 .. Len(b) /\ \A k \in 1 .. Len(b) : b[k] \in Byte
<1>1. b \in Seq(Byte)
  BY DataAssumption
<1> QED BY <1>1, LenProperties

LEMMA OpenHolds ==
  ASSUME DataInv, NEW d \in Desc, NEW append \in BOOLEAN, NEW truncate \in BOOLEAN,
         Open(d, append, truncate)
  PROVE  DataInv'
<1>1. 0 \in 0 .. MAX_LEVEL
  BY DataAssumption
<1>2. size_level' \in 0 .. MAX_LEVEL /\ data' \in [0 .. buddy_size(size_level') - 1 -> Byte]
  <2>1. CASE UNCHANGED <<size_level, data>>
    BY <2>1 DEF DataInv
  <2>2. CASE size_level' = 0 /\ data' \in Resized(data, size_level, 0)
    BY <2>2, <1>1 DEF Resized, Contents
  <2> QED BY <2>1, <2>2 DEF Open
<1>3. size' = (IF truncate THEN 0 ELSE size) /\ size' \in Nat
  BY DEF Open, DataInv
<1>4. pos' \in [Desc -> Nat \cup {Closed}]
  BY <1>3 DEF Open, DataInv
<1>5. stranded' \in BOOLEAN
  BY DEF Open, DataInv
<1>6. size' > buddy_size(size_level') => stranded'
  <2>1. CASE truncate
    <3>1. size_level' \in Nat
      BY <1>2
    <3>2. buddy_size(size_level') \in Nat
      BY <3>1, BlocksAre
    <3> QED BY <1>3, <2>1, <3>2
  <2>2. CASE ~truncate
    <3>1. size_level' = size_level /\ size' = size /\ stranded' = stranded
      BY <2>2 DEF Open, DataInv
    <3> QED BY <3>1 DEF DataInv
  <2> QED BY <2>1, <2>2
<1> QED BY <1>2, <1>3, <1>4, <1>5, <1>6 DEF DataInv

LEMMA ReadHolds ==
  ASSUME DataInv, NEW d \in Desc, NEW amount \in Nat, Read(d, amount)
  PROVE  DataInv'
<1> DEFINE n == IF pos[d] < size THEN Smaller(amount, size - pos[d]) ELSE 0
<1>1. pos[d] \in Nat /\ size \in Nat
  BY DEF Read, DataInv
<1>2. n \in Nat
  BY <1>1 DEF Smaller
<1>3. pos' = [pos EXCEPT ![d] = @ + n] /\ UNCHANGED <<size_level, size, data, stranded>>
  BY DEF Read
<1> HIDE DEF n
<1>4. pos' \in [Desc -> Nat \cup {Closed}]
  BY <1>1, <1>2, <1>3 DEF DataInv
<1> QED BY <1>3, <1>4 DEF DataInv

(* The levels that write's loop may stop at.                               *)
LEMMA LevelIs ==
  ASSUME DataInv, NEW end, NEW level \in size_level .. Needed(end)
  PROVE  level \in 0 .. MAX_LEVEL /\ level >= size_level
<1> DEFINE S == {MAX_LEVEL} \cup {l \in size_level .. MAX_LEVEL : end <= buddy_size(l)}
<1>1. size_level \in Nat /\ MAX_LEVEL \in Nat
  BY DataAssumption DEF DataInv
<1>2. S \subseteq Nat /\ S # {} /\ MAX_LEVEL \in S
  BY <1>1
<1>3. Needed(end) = Min(S)
  BY DEF Needed
<1> HIDE DEF S
<1>4. \E x \in S : \A y \in S : x <= y
  BY <1>2, LeastNumber
<1>5. Min(S) \in S /\ \A y \in S : Min(S) <= y
  BY <1>4 DEF Min
<1>6. Needed(end) \in Nat /\ Needed(end) <= MAX_LEVEL
  BY <1>2, <1>3, <1>5
<1> QED BY <1>1, <1>6

(* What write does, seen from the file.                                    *)
LEMMA WriteIs ==
  ASSUME DataInv, NEW d \in Desc, NEW b \in Buffer, Write(d, b)
  PROVE  /\ DataInv'
         /\ \E n \in 0 .. Len(b) :
              /\ pos[d] \in Nat /\ UNCHANGED got
              /\ pos' = [pos EXCEPT ![d] = pos[d] + n]
              /\ size' = IF pos[d] + n > size THEN pos[d] + n ELSE size
              /\ \A k \in 1 .. size' :
                   ByteAt(k - 1)' \in IF pos[d] < k /\ k <= pos[d] + n THEN {b[k - pos[d]]}
                                      ELSE IF k <= size /\ ByteAt(k - 1) # Foreign
                                      THEN {ByteAt(k - 1)} ELSE Values
<1> DEFINE p == pos[d]
<1>1. p # Closed /\ p \in Nat /\ size \in Nat /\ size_level \in Nat
  BY DEF Write, DataInv
<1>2. PICK level \in size_level .. Needed(p + Len(b)) :
        LET room == buddy_size(level)
            n == IF p < room THEN Smaller(Len(b), room - p) ELSE 0
        IN /\ size_level' = level
           /\ \E block \in Resized(data, size_level, level) :
                data' = [k \in 0 .. room - 1 |->
                           IF p <= k /\ k < p + n THEN b[k - p + 1] ELSE block[k]]
           /\ pos' = [pos EXCEPT ![d] = p + n]
           /\ size' = Larger(size, p + n)
           /\ stranded' = (p > room \/ (stranded /\ size > room))
  BY DEF Write
<1> DEFINE room == buddy_size(level)
           n == IF p < room THEN Smaller(Len(b), room - p) ELSE 0
<1>3. level \in 0 .. MAX_LEVEL /\ level >= size_level /\ level \in Nat
  <2>1. level \in 0 .. MAX_LEVEL /\ level >= size_level
    BY LevelIs
  <2> QED BY <2>1
<1>4. PICK block \in Resized(data, size_level, level) :
      /\ size_level' = level
      /\ data' = [k \in 0 .. room - 1 |->
                    IF p <= k /\ k < p + n THEN b[k - p + 1] ELSE block[k]]
      /\ pos' = [pos EXCEPT ![d] = p + n]
      /\ size' = Larger(size, p + n)
      /\ stranded' = (p > room \/ (stranded /\ size > room))
      /\ UNCHANGED got
  BY <1>2 DEF Write
<1>5. room \in Nat /\ buddy_size(size_level) \in Nat /\ buddy_size(size_level) <= room
  BY <1>1, <1>3, BlocksAre
<1>6. block \in [0 .. room - 1 -> Byte]
  BY DEF Resized, Contents
<1>7. \A k \in 0 .. buddy_size(size_level) - 1 : block[k] = data[k]
  <2>1. Smaller(size_level, level) = size_level
    BY <1>1, <1>3 DEF Smaller
  <2> QED BY <2>1 DEF Resized
<1> HIDE DEF room
<1>8. Len(b) \in Nat /\ \A k \in 1 .. Len(b) : b[k] \in Byte
  BY BufferIs
<1>9. n \in 0 .. Len(b) /\ (n # 0 => p + n <= room) /\ n \in Nat
  BY <1>1, <1>5, <1>8 DEF Smaller
<1> HIDE DEF n, p
<1>10. \A k \in 0 .. room - 1 :
         data'[k] = IF p <= k /\ k < p + n THEN b[k - p + 1] ELSE block[k]
  BY <1>4
<1>11. \A k \in 0 .. room - 1 : data'[k] \in Byte
  <2> TAKE k \in 0 .. room - 1
  <2>1. CASE p <= k /\ k < p + n
    <3>1. k - p + 1 \in 1 .. Len(b)
      BY <1>1, <1>5, <1>8, <1>9, <2>1
    <3> QED BY <1>8, <1>10, <2>1, <3>1
  <2>2. CASE ~ (p <= k /\ k < p + n)
    BY <1>6, <1>10, <2>2
  <2> QED BY <2>1, <2>2
<1>12. data' \in [0 .. room - 1 -> Byte]
  BY <1>4, <1>11
<1>13. size' \in Nat /\ size' = IF p + n > size THEN p + n ELSE size
  BY <1>1, <1>4, <1>9 DEF Larger
<1>14. DataInv'
  <2>1. pos' \in [Desc -> Nat \cup {Closed}]
    BY <1>1, <1>4, <1>9 DEF DataInv
  <2>2. stranded' \in BOOLEAN
    BY <1>4 DEF DataInv
  <2>3. size' > room => stranded'
    <3>1. CASE p > room
      BY <1>4, <3>1
    <3>2. CASE ~ (p > room)
      <4>1. p + n <= room
        BY <1>1, <1>5, <1>9, <3>2
      <4>2. size' > room => size > room /\ size > buddy_size(size_level)
        BY <1>1, <1>5, <1>9, <1>13, <4>1
      <4>3. size > buddy_size(size_level) => stranded
        BY DEF DataInv
      <4> QED BY <1>4, <4>2, <4>3
    <3> QED BY <3>1, <3>2
  <2>4. size_level' = level /\ buddy_size(size_level)' = room
    BY <1>4 DEF room, buddy_size
  <2> QED BY <1>3, <1>12, <1>13, <2>1, <2>2, <2>3, <2>4 DEF DataInv, buddy_size
<1>15. \A k \in 1 .. size' :
         ByteAt(k - 1)' = IF k - 1 < room THEN data'[k - 1] ELSE Foreign
  BY <1>4 DEF ByteAt, room, buddy_size
<1>16. ASSUME NEW k \in 1 .. size'
       PROVE  ByteAt(k - 1)' \in IF p < k /\ k <= p + n THEN {b[k - p]}
                                 ELSE IF k <= size /\ ByteAt(k - 1) # Foreign
                                 THEN {ByteAt(k - 1)} ELSE Values
  <2>1. k \in Nat /\ k >= 1 /\ k - 1 \in Nat /\ (k - 1 < room => k - 1 \in 0 .. room - 1)
    BY <1>5, <1>13
  <2>2. CASE p < k /\ k <= p + n
    <3>1. k - 1 < room /\ p <= k - 1 /\ k - 1 < p + n /\ (k - 1) - p + 1 = k - p
      BY <1>1, <1>5, <1>9, <2>1, <2>2
    <3>2. data'[k - 1] = b[(k - 1) - p + 1]
      BY <1>10, <2>1, <3>1
    <3> QED BY <1>15, <2>2, <3>1, <3>2
  <2>3. CASE ~ (p < k /\ k <= p + n)
    <3>1. k - 1 < room => data'[k - 1] = block[k - 1]
      BY <1>1, <1>9, <1>10, <2>1, <2>3
    <3>2. CASE k <= size /\ ByteAt(k - 1) # Foreign
      <4>1. k - 1 < buddy_size(size_level) /\ ByteAt(k - 1) = data[k - 1]
        BY <3>2 DEF ByteAt
      <4>2. k - 1 < room /\ k - 1 \in 0 .. buddy_size(size_level) - 1
        BY <1>5, <2>1, <4>1
      <4>3. ByteAt(k - 1)' = ByteAt(k - 1)
        BY <1>7, <1>15, <3>1, <4>1, <4>2
      <4> QED BY <2>3, <3>2, <4>3
    <3>3. CASE ~ (k <= size /\ ByteAt(k - 1) # Foreign)
      <4>1. ByteAt(k - 1)' \in Values
        BY <1>11, <1>15, <2>1 DEF Values
      <4> QED BY <2>3, <3>3, <4>1
    <3> QED BY <3>2, <3>3
  <2> QED BY <2>2, <2>3
<1> QED BY <1>1, <1>4, <1>9, <1>13, <1>14, <1>16 DEF p

LEMMA StepHolds == ASSUME DataInv, [Next]_vars PROVE DataInv'
<1>1. CASE UNCHANGED vars
  BY <1>1 DEF DataInv, vars, buddy_size
<1>2. ASSUME NEW d \in Desc, NEW append \in BOOLEAN, NEW truncate \in BOOLEAN,
             Open(d, append, truncate)
      PROVE  DataInv'
  BY <1>2, OpenHolds
<1>3. ASSUME NEW d \in Desc, NEW b \in Buffer, Read(d, Len(b)) PROVE DataInv'
  <2>1. Len(b) \in Nat
    BY BufferIs
  <2> QED BY <1>3, <2>1, ReadHolds
<1>4. ASSUME NEW d \in Desc, NEW b \in Buffer, Write(d, b) PROVE DataInv'
  BY <1>4, WriteIs
<1>5. ASSUME NEW d \in Desc, Close(d) PROVE DataInv'
  BY <1>5 DEF DataInv, Close, buddy_size
<1> QED BY <1>1, <1>2, <1>3, <1>4, <1>5 DEF Next

(* Files are opened, truncated, written and read through any number of     *)
(* descriptors, and allocations fail: the block always has the size of its *)
(* level and nothing but bytes in it, no position is lost, and the end of  *)
(* the file is inside unless a write has moved it out.                     *)
THEOREM DataInvariant == Spec => []DataInv
<1>1. Init => DataInv
  BY InitHolds
<1>2. DataInv /\ [Next]_vars => DataInv'
  BY StepHolds
<1> QED BY <1>1, <1>2, PTL DEF Spec

(* The block is as long as its level says, and the file is not longer,     *)
(* except after a write without memory at a position that a truncation has *)
(* left behind the block.                                                  *)
THEOREM FilesFitBlocks == Spec => []SizeFits
<1>1. DataInv => SizeFits
  BY DEF DataInv, SizeFits
<1> QED BY <1>1, DataInvariant, PTL

----------------------------------------------------------------------------
(* The sequence of bytes that the file is.                                 *)

LEMMA ContentIs ==
  ASSUME DataInv
  PROVE  Content \in Seq(Values) /\ Len(Content) = size /\ DOMAIN Content = 1 .. size
<1>1. size \in Nat /\ size_level \in Nat /\ data \in [0 .. buddy_size(size_level) - 1 -> Byte]
  BY DEF DataInv
<1>2. buddy_size(size_level) \in Nat
  BY <1>1, BlocksAre
<1>3. \A k \in 1 .. size : ByteAt(k - 1) \in Values
  BY <1>1, <1>2 DEF ByteAt, Values
<1>4. Content \in [1 .. size -> Values]
  BY <1>3 DEF Content
<1> QED BY <1>1, <1>4

LEMMA LaterContentIs ==
  ASSUME DataInv'
  PROVE  Len(Content') = size' /\ DOMAIN Content' = 1 .. size'
<1>1. /\ size' \in Nat /\ size_level' \in Nat
      /\ data' \in [0 .. buddy_size(size_level') - 1 -> Byte]
  BY DEF DataInv, buddy_size
<1>2. buddy_size(size_level') \in Nat
  BY <1>1, BlocksAre
<1>3. \A k \in 1 .. size' : ByteAt(k - 1)' \in Values
  BY <1>1, <1>2 DEF ByteAt, Values, buddy_size
<1>4. Content' \in [1 .. size' -> Values]
  BY <1>3 DEF Content
<1> QED BY <1>1, <1>4

LEMMA InitRefines == ASSUME Init PROVE F!Init
<1>1. [k \in 1 .. size |-> ByteAt(k - 1)] = <<>>
  BY DEF Init
<1> QED BY <1>1 DEF Init, F!Init, Closed, F!Closed

LEMMA OpenRefines ==
  ASSUME DataInv, NEW d \in Desc, NEW append \in BOOLEAN, NEW truncate \in BOOLEAN,
         Open(d, append, truncate)
  PROVE  F!Open(d, append, truncate)
<1>1. Content' = IF truncate THEN <<>> ELSE Content
  <2>1. CASE truncate
    <3>1. size' = 0
      BY <2>1 DEF Open
    <3>2. Content' = <<>>
      BY <3>1 DEF Content
    <3> QED BY <2>1, <3>2
  <2>2. CASE ~truncate
    <3>1. size_level' = size_level /\ data' = data /\ size' = size
      BY <2>2 DEF Open
    <3>2. Content' = Content
      BY <3>1 DEF Content, ByteAt, buddy_size
    <3> QED BY <2>2, <3>2
  <2> QED BY <2>1, <2>2
<1>2. Len(Content') = size'
  <2>1. DataInv'
    BY OpenHolds
  <2> QED BY <2>1, LaterContentIs
<1>3. pos' = [pos EXCEPT ![d] = IF append THEN Len(Content') ELSE 0]
  BY <1>2 DEF Open
<1> QED BY <1>1, <1>3 DEF Open, F!Open, Closed, F!Closed, Content

LEMMA ReadRefines ==
  ASSUME DataInv, NEW d \in Desc, NEW b \in Buffer, Read(d, Len(b))
  PROVE  F!Read(d, Len(b))
<1> DEFINE amount == Len(b)
           p == pos[d]
           n == IF p < size THEN Smaller(amount, size - p) ELSE 0
           m == IF p + amount < Len(Content) THEN amount
                ELSE IF p < Len(Content) THEN Len(Content) - p ELSE 0
<1>1. p \in Nat /\ size \in Nat /\ p # Closed
  BY DEF Read, DataInv
<1>2. amount \in Nat
  BY BufferIs
<1>3. PICK bytes \in Readable(p, n) : got' = [asked |-> amount, bytes |-> bytes]
  BY DEF Read
<1>4. pos' = [pos EXCEPT ![d] = p + n] /\ UNCHANGED <<size_level, size, data, stranded>>
  BY DEF Read
<1>5. bytes \in [1 .. n -> Byte] /\ \A k \in 1 .. n : ByteAt(p + k - 1) \in {bytes[k], Foreign}
  BY <1>3 DEF Readable
<1>6. Len(Content) = size
  BY ContentIs
<1> HIDE DEF p, amount
<1>7. n = m /\ n \in Nat /\ (n # 0 => p + n <= size)
  BY <1>1, <1>2, <1>6 DEF Smaller
<1> HIDE DEF n
<1>8. \A k \in 1 .. n : Content[p + k] \in {bytes[k], Foreign}
  <2> TAKE k \in 1 .. n
  <2> DEFINE j == p + k
  <2>1. j \in 1 .. size /\ j - 1 = p + k - 1
    BY <1>1, <1>7
  <2> HIDE DEF j
  <2>2. Content[j] = ByteAt(j - 1)
    BY <2>1 DEF Content
  <2> QED BY <1>5, <2>1, <2>2 DEF j
<1>9. Content' = Content
  BY <1>4 DEF Content, ByteAt, buddy_size
<1>10. \E bytes2 \in [1 .. m -> Byte] :
          /\ \A k \in 1 .. m : Content[p + k] \in {bytes2[k], Foreign}
          /\ got' = [asked |-> amount, bytes |-> bytes2]
  BY <1>3, <1>5, <1>7, <1>8
<1>11. pos' = [pos EXCEPT ![d] = p + m]
  BY <1>4, <1>7
<1> QED BY <1>1, <1>9, <1>10, <1>11 DEF F!Read, Closed, F!Closed, Content, p, amount

LEMMA WriteRefines ==
  ASSUME DataInv, NEW d \in Desc, NEW b \in Buffer, Write(d, b)
  PROVE  \E amount \in 0 .. Len(b) : F!Write(d, b, amount)
<1>1. DataInv'
  BY WriteIs
<1>2. PICK n \in 0 .. Len(b) :
        /\ pos[d] \in Nat /\ UNCHANGED got
        /\ pos' = [pos EXCEPT ![d] = pos[d] + n]
        /\ size' = IF pos[d] + n > size THEN pos[d] + n ELSE size
        /\ \A k \in 1 .. size' :
             ByteAt(k - 1)' \in IF pos[d] < k /\ k <= pos[d] + n THEN {b[k - pos[d]]}
                                ELSE IF k <= size /\ ByteAt(k - 1) # Foreign
                                THEN {ByteAt(k - 1)} ELSE Values
  BY WriteIs
<1>3. Len(Content) = size /\ size \in Nat
  BY ContentIs DEF DataInv
<1>4. Len(Content') = size' /\ DOMAIN Content' = 1 .. size'
  BY <1>1, LaterContentIs
<1>5. Len(b) \in Nat /\ n <= Len(b)
  BY BufferIs
<1>6. Len(Content') = IF pos[d] + n > Len(Content) THEN pos[d] + n ELSE Len(Content)
  BY <1>2, <1>3, <1>4
<1>7. ASSUME NEW k \in DOMAIN Content'
      PROVE  Content'[k] \in IF pos[d] < k /\ k <= pos[d] + n THEN {b[k - pos[d]]}
                             ELSE IF k <= Len(Content) /\ Content[k] # Foreign
                             THEN {Content[k]} ELSE Values
  <2>1. k \in 1 .. size'
    BY <1>4
  <2>2. Content'[k] = ByteAt(k - 1)'
    BY <2>1 DEF Content
  <2>3. k <= size => Content[k] = ByteAt(k - 1)
    <3>1. size' \in Nat
      BY <1>1 DEF DataInv
    <3>2. k <= size => k \in 1 .. size
      BY <1>3, <2>1, <3>1
    <3> QED BY <3>2 DEF Content
  <2> QED BY <1>2, <1>3, <2>1, <2>2, <2>3
<1>8. pos[d] # F!Closed
  BY <1>2 DEF F!Closed
<1>9. F!Write(d, b, n)
  BY <1>2, <1>5, <1>6, <1>7, <1>8 DEF F!Write, Content, Values
<1> QED BY <1>9

LEMMA NextRefines == ASSUME DataInv, [Next]_vars PROVE [F!Next]_F!vars
<1>1. CASE UNCHANGED vars
  <2>1. Content' = Content /\ UNCHANGED <<pos, got>>
    BY <1>1 DEF vars, Content, ByteAt, buddy_size
  <2> QED BY <2>1 DEF F!vars, Content
<1>2. ASSUME NEW d \in Desc, NEW append \in BOOLEAN, NEW truncate \in BOOLEAN,
             Open(d, append, truncate)
      PROVE  F!Next
  <2>1. F!Open(d, append, truncate)
    BY <1>2, OpenRefines
  <2> QED BY <2>1 DEF F!Next
<1>3. ASSUME NEW d \in Desc, NEW b \in Buffer, Read(d, Len(b)) PROVE F!Next
  <2>1. F!Read(d, Len(b))
    BY <1>3, ReadRefines
  <2> QED BY <2>1 DEF F!Next
<1>4. ASSUME NEW d \in Desc, NEW b \in Buffer, Write(d, b) PROVE F!Next
  <2>1. \E amount \in 0 .. Len(b) : F!Write(d, b, amount)
    BY <1>4, WriteRefines
  <2> QED BY <2>1 DEF F!Next
<1>5. ASSUME NEW d \in Desc, Close(d) PROVE F!Next
  <2>1. Content' = Content
    BY <1>5 DEF Close, Content, ByteAt, buddy_size
  <2>2. F!Close(d)
    BY <1>5, <2>1 DEF Close, Closed, F!Close, F!Closed, Content
  <2> QED BY <2>2 DEF F!Next
<1> QED BY <1>1, <1>2, <1>3, <1>4, <1>5 DEF Next

(* However blocks are exchanged for larger and smaller ones and writes are *)
(* cut short by a lack of memory, the file is a sequence of bytes that is  *)
(* read, overwritten and extended at the descriptors' positions: each step *)
(* of fs.c is one of RegularFile, or none.                                 *)
THEOREM DataImplementsFile == Spec => RegularFileSpec
<1>1. Init => F!Init
  BY InitRefines
<1>2. DataInv /\ [Next]_vars => [F!Next]_F!vars
  BY NextRefines
<1> QED BY <1>1, <1>2, DataInvariant, PTL DEF Spec, RegularFileSpec, F!Spec
=============================================================================
