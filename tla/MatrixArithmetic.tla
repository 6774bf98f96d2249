-------------------------- MODULE MatrixArithmetic --------------------------
(***************************************************************************)
(* The arithmetic of perform_matrix_multiply.  Finite sums of naturals:    *)
(* the loop over k, which adds one product after the other, and the sum    *)
(* over a set that the reference definition of the product uses.  Indices  *)
(* into a vector that holds a matrix row by row.  Induction is by the      *)
(* least counterexample.                                                   *)
(***************************************************************************)
EXTENDS FiniteSetsExt, FiniteSetTheorems, TLAPS

LessNat == {p \in Nat \X Nat : p[1] < p[2]}

(* A non-empty set of naturals has a least element. *)
LEMMA LeastNat ==
  ASSUME NEW S \in SUBSET Nat, S # {}
  PROVE  \E n \in S : \A m \in S : n <= m
<1>1. IsWellFoundedOn(LessNat, Nat)
  BY NatLessThanWellFounded DEF OpToRel, LessNat
<1>2. PICK n \in S : \A m \in S : ~ (<<m, n>> \in LessNat)
  BY <1>1, WFMin, Zenon
<1>3. ASSUME NEW m \in S PROVE n <= m
  <2>1. n \in Nat /\ m \in Nat
    OBVIOUS
  <2>2. /\ <<m, n>> \in Nat \X Nat
        /\ <<m, n>>[1] = m /\ <<m, n>>[2] = n
    BY <2>1
  <2>3. ~(m < n)
    BY <1>2, <2>2 DEF LessNat
  <2> QED
    BY <2>1, <2>3
<1> QED
  BY <1>3

(* A set of numbers that has 0 and with k - 1 also k, up to n, has n. *)
LEMMA UpTo ==
  ASSUME NEW n \in Nat, NEW S,
         0 \in S, \A k \in 1..n : k - 1 \in S => k \in S
  PROVE  \A k \in 0..n : k \in S
<1> DEFINE Bad == {k \in 0..n : k \notin S}
<1>1. SUFFICES ASSUME Bad # {} PROVE FALSE
  OBVIOUS
<1>2. Bad \in SUBSET Nat
  OBVIOUS
<1>3. PICK k \in Bad : \A m \in Bad : k <= m
  <2> HIDE DEF Bad
  <2> QED BY <1>1, <1>2, LeastNat
<1>4. k \in 0..n /\ k # 0 /\ k \notin S
  OBVIOUS
<1>5. k - 1 \in 0..n /\ k \in 1..n
  BY <1>4
<1>6. k - 1 \notin Bad
  BY <1>3, <1>4, <1>2
<1> QED
  BY <1>4, <1>5, <1>6

-----------------------------------------------------------------------------
(* f[k] is the sum of the first k values of g. *)
PartialSums(f, g, n) ==
  /\ f \in [0..n -> Nat]
  /\ f[0] = 0
  /\ \A k \in 1..n : f[k] = f[k - 1] + g[k]

(* The sum of g[1] to g[n]. *)
SumTo(g, n) == (CHOOSE f : PartialSums(f, g, n))[n]

(* Partial sums exist. *)
LEMMA PartialSumsExist ==
  ASSUME NEW n \in Nat, NEW g \in [1..n -> Nat]
  PROVE  \E f : PartialSums(f, g, n)
<1> DEFINE S == {m \in 0..n : \E f : PartialSums(f, g, m)}
<1>1. 0 \in S
  <2>1. PartialSums([k \in 0..0 |-> 0], g, 0)
    BY DEF PartialSums
  <2> QED BY <2>1
<1>2. ASSUME NEW m \in 1..n, m - 1 \in S PROVE m \in S
  <2>1. PICK f : PartialSums(f, g, m - 1)
    BY <1>2
  <2> DEFINE h == [k \in 0..m |-> IF k = m THEN f[m - 1] + g[m] ELSE f[k]]
  <2>2. f \in [0..(m - 1) -> Nat] /\ g[m] \in Nat
    BY <2>1 DEF PartialSums
  <2>3. h \in [0..m -> Nat]
    BY <2>2
  <2>4. h[0] = 0
    BY <2>1 DEF PartialSums
  <2>5. ASSUME NEW k \in 1..m PROVE h[k] = h[k - 1] + g[k]
    BY <2>1, <2>2, SMTT(30) DEF PartialSums
  <2>6. PartialSums(h, g, m)
    <3> HIDE DEF h
    <3> QED BY <2>3, <2>4, <2>5 DEF PartialSums
  <2> QED BY <2>6
<1>3. n \in S
  <2> HIDE DEF S
  <2>1. \A k \in 0..n : k \in S
    BY <1>1, <1>2, UpTo, Zenon
  <2> QED BY <2>1
<1> QED
  BY <1>3

(* The CHOOSE of SumTo picks partial sums. *)
LEMMA SumToIs ==
  ASSUME NEW n \in Nat, NEW g \in [1..n -> Nat]
  PROVE  /\ SumTo(g, n) \in Nat
         /\ \E f : PartialSums(f, g, n) /\ SumTo(g, n) = f[n]
<1> DEFINE c == CHOOSE f : PartialSums(f, g, n)
<1>1. PartialSums(c, g, n)
  BY PartialSumsExist
<1>2. SumTo(g, n) = c[n]
  BY DEF SumTo
<1> HIDE DEF c
<1>3. c[n] \in Nat
  BY <1>1 DEF PartialSums
<1> QED
  BY <1>1, <1>2, <1>3

(* Partial sums are determined by what is summed. *)
LEMMA SumToUnique ==
  ASSUME NEW n \in Nat, NEW g \in [1..n -> Nat], NEW f, PartialSums(f, g, n)
  PROVE  SumTo(g, n) = f[n]
<1>1. PICK c : PartialSums(c, g, n) /\ SumTo(g, n) = c[n]
  BY SumToIs
<1> DEFINE S == {k \in 0..n : c[k] = f[k]}
<1>2. 0 \in S
  BY <1>1 DEF PartialSums
<1>3. ASSUME NEW k \in 1..n, k - 1 \in S PROVE k \in S
  BY <1>1, <1>3 DEF PartialSums
<1>4. n \in S
  <2> HIDE DEF S
  <2>1. \A k \in 0..n : k \in S
    BY <1>2, <1>3, UpTo, Zenon
  <2> QED BY <2>1
<1> QED
  BY <1>1, <1>4

(* A recursive function that adds the values of g one by one. *)
LEMMA RecursiveSums ==
  ASSUME NEW n \in Nat, NEW g \in [1..n -> Nat], NEW f,
         f = [k \in 0..n |-> IF k = 0 THEN 0 ELSE f[k - 1] + g[k]]
  PROVE  PartialSums(f, g, n)
<1> DEFINE S == {k \in 0..n : f[k] \in Nat}
<1>1. f[0] = 0 /\ \A k \in 1..n : f[k] = f[k - 1] + g[k]
  <2>1. ASSUME NEW k \in 1..n PROVE k \in 0..n /\ k # 0
    OBVIOUS
  <2>2. 0 \in 0..n
    OBVIOUS
  <2> QED BY <2>1, <2>2
<1>2. 0 \in S
  BY <1>1
<1>3. ASSUME NEW k \in 1..n, k - 1 \in S PROVE k \in S
  BY <1>1, <1>3, SMTT(30)
<1>4. \A k \in 0..n : k \in S
  <2> HIDE DEF S
  <2> QED BY <1>2, <1>3, UpTo, Zenon
<1>5. \A k \in 0..n : f[k] \in Nat
  BY <1>4
<1> QED
  BY <1>1, <1>5 DEF PartialSums

(* Nothing but zeros sums to zero. *)
LEMMA SumToZero ==
  ASSUME NEW n \in Nat
  PROVE  SumTo([k \in 1..n |-> 0], n) = 0
<1> DEFINE f == [k \in 0..n |-> 0]
<1>1. PartialSums(f, [k \in 1..n |-> 0], n)
  BY DEF PartialSums
<1>2. [k \in 1..n |-> 0] \in [1..n -> Nat]
  OBVIOUS
<1>3. SumTo([k \in 1..n |-> 0], n) = f[n]
  <2> HIDE DEF f
  <2> QED BY <1>1, <1>2, SumToUnique
<1> QED
  BY <1>3

(* One of the values can be taken out of the sum. *)
LEMMA SumToTakeOut ==
  ASSUME NEW n \in Nat, NEW g \in [1..n -> Nat], NEW x \in 1..n
  PROVE  SumTo(g, n) = g[x] + SumTo([g EXCEPT ![x] = 0], n)
<1> DEFINE r == [g EXCEPT ![x] = 0]
<1>1. r \in [1..n -> Nat] /\ r[x] = 0 /\ \A k \in 1..n : k # x => r[k] = g[k]
  OBVIOUS
<1> HIDE DEF r
<1>2. PICK c : PartialSums(c, r, n) /\ SumTo(r, n) = c[n]
  BY <1>1, SumToIs
<1> DEFINE f == [k \in 0..n |-> IF k < x THEN c[k] ELSE c[k] + g[x]]
<1>3. c \in [0..n -> Nat] /\ g[x] \in Nat /\ x \in Nat
  BY <1>2 DEF PartialSums
<1>4. f \in [0..n -> Nat]
  BY <1>3
<1>5. f[0] = 0
  BY <1>2 DEF PartialSums
<1>6. ASSUME NEW k \in 1..n PROVE f[k] = f[k - 1] + g[k]
  <2>1. c[k] = c[k - 1] + r[k] /\ k - 1 \in 0..n /\ k \in 0..n
    BY <1>2 DEF PartialSums
  <2>2. c[k - 1] \in Nat /\ g[k] \in Nat /\ c[k] \in Nat
    BY <1>3, <2>1
  <2>3. CASE k < x
    BY <2>1, <2>2, <2>3, <1>1, <1>3
  <2>4. CASE k = x
    BY <2>1, <2>2, <2>4, <1>1, <1>3
  <2>5. CASE k > x
    BY <2>1, <2>2, <2>5, <1>1, <1>3, SMTT(30)
  <2> QED
    BY <2>3, <2>4, <2>5, <1>3
<1>7. PartialSums(f, g, n)
  <2> HIDE DEF f
  <2> QED BY <1>4, <1>5, <1>6 DEF PartialSums
<1>8. SumTo(g, n) = f[n]
  <2> HIDE DEF f
  <2> QED BY <1>7, SumToUnique
<1>9. f[n] = c[n] + g[x] /\ c[n] \in Nat
  BY <1>3
<1> QED
  BY <1>2, <1>3, <1>8, <1>9 DEF r

-----------------------------------------------------------------------------
(* The recursion MapThenSumSet is defined by, over the subsets of 0..n-1. *)
SetSums(it, h, n) ==
  it = [s \in SUBSET (0..(n - 1)) |->
          IF s = {} THEN 0
          ELSE h[CHOOSE x \in s : TRUE] + it[s \ {CHOOSE x \in s : TRUE}]]

(* The values of h at the members of s, and 0 elsewhere, counted from 1. *)
Only(h, n, s) == [k \in 1..n |-> IF k - 1 \in s THEN h[k - 1] ELSE 0]

(* Leaving a member out of a set takes its value out of the sum. *)
LEMMA OnlyTakeOut ==
  ASSUME NEW n \in Nat, NEW h \in [0..(n - 1) -> Nat],
         NEW s \in SUBSET (0..(n - 1)), NEW x \in s
  PROVE  SumTo(Only(h, n, s), n) = h[x] + SumTo(Only(h, n, s \ {x}), n)
<1> DEFINE g == Only(h, n, s)
<1>1. x \in 0..(n - 1) /\ x + 1 \in 1..n /\ (x + 1) - 1 = x
  OBVIOUS
<1>2. g \in [1..n -> Nat]
  <2>1. ASSUME NEW k \in 1..n PROVE k - 1 \in 0..(n - 1)
    OBVIOUS
  <2> QED BY <2>1 DEF Only
<1>3. g[x + 1] = h[x]
  BY <1>1 DEF Only
<1>4. [g EXCEPT ![x + 1] = 0] = Only(h, n, s \ {x})
  <2>1. ASSUME NEW k \in 1..n
        PROVE  [g EXCEPT ![x + 1] = 0][k] = Only(h, n, s \ {x})[k]
    <3>1. k = x + 1 <=> k - 1 = x
      BY <1>1
    <3> QED BY <3>1, <1>1 DEF Only
  <2> QED BY <2>1, Zenon DEF Only
<1>5. SumTo(g, n) = g[x + 1] + SumTo([g EXCEPT ![x + 1] = 0], n)
  <2> HIDE DEF g
  <2> QED BY <1>1, <1>2, SumToTakeOut, Zenon
<1> QED
  BY <1>3, <1>4, <1>5

(* The recursion over sets has a solution. *)
LEMMA SetSumsExist ==
  ASSUME NEW n \in Nat, NEW h \in [0..(n - 1) -> Nat]
  PROVE  \E it : SetSums(it, h, n)
<1> DEFINE it == [s \in SUBSET (0..(n - 1)) |-> SumTo(Only(h, n, s), n)]
<1>1. SumTo(Only(h, n, {}), n) = 0
  <2>1. Only(h, n, {}) = [k \in 1..n |-> 0]
    BY DEF Only
  <2> QED BY <2>1, SumToZero
<1>2. ASSUME NEW s \in SUBSET (0..(n - 1)), s # {}
      PROVE  it[s] = h[CHOOSE x \in s : TRUE] + it[s \ {CHOOSE x \in s : TRUE}]
  <2> DEFINE y == CHOOSE x \in s : TRUE
  <2>1. y \in s
    BY <1>2
  <2>2. s \ {y} \in SUBSET (0..(n - 1))
    OBVIOUS
  <2> HIDE DEF y
  <2>3. it[s] = h[y] + it[s \ {y}]
    BY <2>1, <2>2, OnlyTakeOut, Zenon
  <2> QED BY <2>3 DEF y
<1>3. it[{}] = 0
  BY <1>1
<1> DEFINE r == [s \in SUBSET (0..(n - 1)) |->
                  IF s = {} THEN 0
                  ELSE h[CHOOSE x \in s : TRUE] + it[s \ {CHOOSE x \in s : TRUE}]]
<1>4. ASSUME NEW s \in SUBSET (0..(n - 1)) PROVE it[s] = r[s]
  <2>1. CASE s = {}
    BY <1>3, <2>1
  <2>2. CASE s # {}
    <3> HIDE DEF it
    <3> QED BY <1>2, <2>2, Zenon
  <2> QED BY <2>1, <2>2
<1>5. SetSums(it, h, n)
  <2>1. it = r
    BY <1>4, Zenon
  <2> QED BY <2>1, Zenon DEF SetSums
<1> QED
  BY <1>5

(* A solution of the recursion over sets sums the whole of h. *)
LEMMA SetSumsIs ==
  ASSUME NEW n \in Nat, NEW h \in [0..(n - 1) -> Nat],
         NEW it, SetSums(it, h, n)
  PROVE  it[0..(n - 1)] = SumTo([k \in 1..n |-> h[k - 1]], n)
<1> DEFINE All == 0..(n - 1)
           Sz == {Cardinality(s) : s \in {t \in SUBSET All : it[t] # SumTo(Only(h, n, t), n)}}
<1>1. IsFiniteSet(All)
  BY FS_Interval
<1>2. ASSUME NEW s \in SUBSET All
      PROVE  IsFiniteSet(s) /\ Cardinality(s) \in Nat
  BY <1>1, FS_Subset, FS_CardinalityType, Zenon
<1>3. Sz = {}
  <2>1. SUFFICES ASSUME Sz # {} PROVE FALSE
    BY Zenon
  <2>2. Sz \in SUBSET Nat
    BY <1>2
  <2>3. PICK c \in Sz : \A m \in Sz : c <= m
    <3> HIDE DEF Sz
    <3> QED BY <2>1, <2>2, LeastNat
  <2>4. PICK s \in SUBSET All : /\ c = Cardinality(s)
                                /\ it[s] # SumTo(Only(h, n, s), n)
    BY <2>3
  <2>5. s # {}
    <3>1. it[{}] = 0
      BY DEF SetSums
    <3>2. Only(h, n, {}) = [k \in 1..n |-> 0]
      BY DEF Only
    <3> QED BY <3>1, <3>2, <2>4, SumToZero, Zenon
  <2> DEFINE y == CHOOSE x \in s : TRUE
  <2>6. y \in s
    BY <2>5
  <2>7. it[s] = h[y] + it[s \ {y}]
    BY <2>5, Zenon DEF SetSums
  <2> HIDE DEF y
  <2>8. s \ {y} \in SUBSET All
    OBVIOUS
  <2>9. Cardinality(s \ {y}) = Cardinality(s) - 1
    BY <1>2, <2>6, FS_RemoveElement
  <2>10. Cardinality(s \ {y}) \notin Sz
    <3>1. c \in Nat /\ ~ (c <= c - 1)
      BY <2>4, <1>2
    <3> HIDE DEF Sz
    <3> QED BY <2>3, <2>4, <2>9, <3>1
  <2>11. it[s \ {y}] = SumTo(Only(h, n, s \ {y}), n)
    BY <2>8, <2>10, Zenon
  <2>12. SumTo(Only(h, n, s), n) = h[y] + SumTo(Only(h, n, s \ {y}), n)
    BY <2>6, OnlyTakeOut, Zenon
  <2> QED
    BY <2>4, <2>7, <2>11, <2>12
<1>4. it[All] = SumTo(Only(h, n, All), n)
  BY <1>3
<1>5. Only(h, n, All) = [k \in 1..n |-> h[k - 1]]
  BY DEF Only
<1> QED
  BY <1>4, <1>5
-----------------------------------------------------------------------------
(* Row i and column j of an n by n matrix give an index into the vector... *)
LEMMA IndexIn ==
  ASSUME NEW n \in Nat, NEW i \in 0..(n - 1), NEW j \in 0..(n - 1)
  PROVE  i * n + j \in 0..(n * n - 1)
<1>1. (i + 1) * n <= n * n /\ i * n \in Nat /\ n * n \in Nat
  OBVIOUS
<1>2. (i + 1) * n = i * n + n
  OBVIOUS
<1> QED
  BY <1>1, <1>2

(* ... every index into the vector has a row and a column... *)
LEMMA IndexSplit ==
  ASSUME NEW n \in Nat \ {0}, NEW x \in 0..(n * n - 1)
  PROVE  /\ x \div n \in 0..(n - 1)
         /\ x % n \in 0..(n - 1)
         /\ x = (x \div n) * n + (x % n)
<1>1. x \in Nat /\ x < n * n
  OBVIOUS
<1>2. x % n \in 0..(n - 1) /\ x \div n \in Int
  BY <1>1
<1>3. x = n * (x \div n) + (x % n)
  BY <1>1
<1>4. x \div n >= 0
  BY <1>1
<1> DEFINE q == x \div n
<1>5. q < n
  <2> SUFFICES ASSUME q >= n PROVE FALSE
    BY <1>2
  <2>1. n * q >= n * n
    <3> HIDE DEF q
    <3>1. q \in Nat
       BY <1>2, <1>4 DEF q
    <3> QED BY <3>1
  <2> QED BY <2>1, <1>1, <1>2, <1>3
<1>6. (x \div n) * n = n * (x \div n)
  BY <1>2
<1> QED
  BY <1>2, <1>3, <1>4, <1>5, <1>6

(* ... and they are the ones it was made from. *)
LEMMA IndexJoin ==
  ASSUME NEW n \in Nat \ {0}, NEW i \in 0..(n - 1), NEW j \in 0..(n - 1)
  PROVE  (i * n + j) \div n = i /\ (i * n + j) % n = j
<1> DEFINE x == i * n + j
<1>1. x \in 0..(n * n - 1)
  BY IndexIn
<1> DEFINE q == x \div n
           r == x % n
<1>2. q \in 0..(n - 1) /\ r \in 0..(n - 1) /\ x = q * n + r
  <2> HIDE DEF x
  <2> QED BY <1>1, IndexSplit, Zenon
<1>3. x = i * n + j
  OBVIOUS
<1> HIDE DEF q, r, x
<1>4. CASE q < i
  <2>1. (q + 1) * n <= i * n /\ q * n \in Nat /\ i * n \in Nat
    BY <1>2, <1>4
  <2>2. (q + 1) * n = q * n + n
    BY <1>2
  <2> QED BY <2>1, <2>2, <1>2, <1>3
<1>5. CASE q > i
  <2>1. (i + 1) * n <= q * n /\ q * n \in Nat /\ i * n \in Nat
    BY <1>2, <1>5
  <2>2. (i + 1) * n = i * n + n
    BY <1>2
  <2> QED BY <2>1, <2>2, <1>2, <1>3
<1>6. CASE q = i
  BY <1>2, <1>3, <1>6 DEF q, r, x
<1> QED
  BY <1>2, <1>4, <1>5, <1>6
=============================================================================
