----------------------------- MODULE WireProofs -----------------------------
(***************************************************************************)
(* Theorems about modules Protobuf, Wire and Requests, for bytes, words    *)
(* and length fields of any size. Decoding is total, and bytes that are    *)
(* cut short are told (src/wire.go:199-360). A node that is written is     *)
(* the value that is read, and the reader stops where it ends              *)
(* (src/wire.go:19-132 and 273-360). So it is of the varints and the       *)
(* fields around the nodes (src/internal/python.go:60-338). Every          *)
(* operation lays its request out in the fields that its export takes      *)
(* (src/internal/instance.go:366-601).                                     *)
(***************************************************************************)
EXTENDS Requests, SequenceTheorems, FiniteSetTheorems, WellFoundedInduction, TLAPS

LEMMA LeastOf ==
  ASSUME NEW S, S \subseteq Nat, S # {}
  PROVE  \E p \in S : \A q \in S : p <= q
<1> DEFINE R == OpToRel(<, Nat)
<1>1. IsWellFoundedOn(R, Nat)
  BY NatLessThanWellFounded
<1> HIDE DEF R
<1>2. PICK p \in S : \A q \in S : ~(<<q, p>> \in R)
  BY <1>1, WFMin
<1>3. \A q \in S : ~(q < p)
  BY <1>2 DEF R, OpToRel
<1>4. \A q \in S : q \in Nat /\ p \in Nat
  OBVIOUS
<1>5. QED
  BY <1>3, <1>4

(* Induction over a set of numbers. *)
LEMMA AllNumbers ==
  ASSUME NEW P, 0 \in P, \A n \in Nat : n \in P => n + 1 \in P
  PROVE  \A n \in Nat : n \in P
<1> SUFFICES ASSUME {n \in Nat : n \notin P} # {} PROVE FALSE
  OBVIOUS
<1>1. PICK n \in {k \in Nat : k \notin P} :
        \A m \in {k \in Nat : k \notin P} : n <= m
  BY LeastOf
<1>2. n # 0 /\ n - 1 \in Nat /\ (n - 1) + 1 = n
  BY <1>1
<1>3. n - 1 \in P
  BY <1>1, <1>2
<1>4. QED
  BY <1>1, <1>2, <1>3

(***************************************************************************)
(* A function that is defined by recursion exists.  Its domain is D; on    *)
(* base it is given, elsewhere its value at d follows from that at         *)
(* before[d], which is smaller in size.                                    *)
(***************************************************************************)
Rule(first, before, step, f, d) ==
  IF d \in DOMAIN first THEN first[d] ELSE step[<<d, f[before[d]]>>]

(* f obeys the rule wherever the size is n at most. *)
RuleUpTo(D, S, size, first, before, step, n, f) ==
  /\ f \in [D -> S]
  /\ \A d \in D : size[d] <= n => f[d] = Rule(first, before, step, f, d)

(* The recursion is well-founded, and its values are in S. *)
Recursion(D, S, size, base, first, before, step) ==
  /\ S # {} /\ size \in [D -> Nat] /\ base \subseteq D
  /\ first \in [base -> S] /\ step \in [D \X S -> S]
  /\ before \in [D \ base -> D]
  /\ \A d \in D \ base : size[before[d]] < size[d]

LEMMA RecursionExists ==
  ASSUME NEW D, NEW S, NEW size, NEW base, NEW first, NEW before, NEW step,
         Recursion(D, S, size, base, first, before, step)
  PROVE  \E f \in [D -> S] : \A d \in D : f[d] = Rule(first, before, step, f, d)
<1> DEFINE R(f, d) == Rule(first, before, step, f, d)
           UpTo(n, f) == RuleUpTo(D, S, size, first, before, step, n, f)
<1>0. /\ S # {} /\ size \in [D -> Nat] /\ base \subseteq D
      /\ first \in [base -> S] /\ step \in [D \X S -> S]
      /\ before \in [D \ base -> D] /\ DOMAIN first = base
      /\ \A d \in D \ base : size[before[d]] < size[d]
  BY DEF Recursion
<1>1. ASSUME NEW f, NEW d \in D, d \notin base => f[before[d]] \in S
      PROVE  R(f, d) \in S
  BY <1>0, <1>1 DEF Rule
<1>2. ASSUME NEW f, NEW g, NEW d \in D,
             d \notin base => f[before[d]] = g[before[d]]
      PROVE  R(f, d) = R(g, d)
  BY <1>0, <1>2 DEF Rule
<1>3. \A d \in D : d \notin base =>
        before[d] \in D /\ size[before[d]] < size[d]
  BY <1>0
<1>4. \A f, n : UpTo(n, f) =>
        /\ f \in [D -> S]
        /\ \A d \in D : size[d] <= n => f[d] = R(f, d)
  BY DEF RuleUpTo
<1>5. \A f, n : /\ f \in [D -> S]
                /\ \A d \in D : size[d] <= n => f[d] = R(f, d)
                => UpTo(n, f)
  BY DEF RuleUpTo
<1>6. \A d \in D : size[d] \in Nat
  BY <1>0
<1> HIDE DEF R, UpTo
<1>7. \A n \in Nat : \E f : UpTo(n, f)
  <2> DEFINE P == {n \in Nat : \E f : UpTo(n, f)}
  <2>1. 0 \in P
    <3>1. PICK s : s \in S
      BY <1>0
    <3> DEFINE f == [d \in D |-> IF d \in base THEN first[d] ELSE s]
    <3>2. f \in [D -> S]
      BY <1>0, <3>1
    <3>3. ASSUME NEW d \in D, size[d] <= 0 PROVE f[d] = R(f, d)
      <4>1. d \in base
        BY <1>3, <1>6, <3>3
      <4>2. QED
        BY <1>0, <4>1 DEF R, Rule
    <3> HIDE DEF f
    <3>4. UpTo(0, f)
      BY <1>5, <3>2, <3>3
    <3>5. QED
      BY <3>4
  <2>2. ASSUME NEW n \in Nat, n \in P PROVE n + 1 \in P
    <3>1. PICK f : UpTo(n, f)
      BY <2>2
    <3> DEFINE g == [d \in D |-> IF size[d] <= n THEN f[d] ELSE R(f, d)]
    <3>2. f \in [D -> S] /\ \A d \in D : size[d] <= n => f[d] = R(f, d)
      BY <1>4, <3>1
    <3>3. g \in [D -> S]
      BY <1>1, <1>3, <3>2
    <3>4. ASSUME NEW d \in D, size[d] <= n + 1 PROVE g[d] = R(g, d)
      <4>1. d \notin base => g[before[d]] = f[before[d]]
        BY <1>3, <1>6, <3>4
      <4>2. R(g, d) = R(f, d)
        BY <1>2, <4>1
      <4>3. g[d] = R(f, d)
        BY <3>2
      <4>4. QED
        BY <4>2, <4>3
    <3> HIDE DEF g
    <3>5. UpTo(n + 1, g)
      BY <1>5, <3>3, <3>4
    <3>6. QED
      BY <3>5
  <2> HIDE DEF P
  <2>3. \A n \in Nat : n \in P
    BY <2>1, <2>2, AllNumbers
  <2>4. QED
    BY <2>3 DEF P
<1>8. ASSUME NEW n \in Nat, NEW m \in Nat, n <= m,
             NEW f, UpTo(n, f), NEW g, UpTo(m, g)
      PROVE  \A d \in D : size[d] <= n => f[d] = g[d]
  <2> DEFINE Odd == {k \in Nat : \E d \in D : /\ size[d] = k /\ k <= n
                                              /\ f[d] # g[d]}
  <2>1. Odd = {}
    <3> SUFFICES ASSUME Odd # {} PROVE FALSE
      OBVIOUS
    <3>1. PICK k \in Odd : \A j \in Odd : k <= j
      BY LeastOf
    <3>2. PICK d \in D : size[d] = k /\ k <= n /\ f[d] # g[d]
      BY <3>1
    <3>3. d \notin base => f[before[d]] = g[before[d]]
      <4> SUFFICES ASSUME d \notin base, f[before[d]] # g[before[d]]
                   PROVE  FALSE
        OBVIOUS
      <4> DEFINE c == before[d]
      <4>1. c \in D /\ size[c] < k /\ size[c] \in Nat /\ k \in Nat
        BY <1>3, <1>6, <3>2
      <4>2. size[c] \in Odd
        BY <3>2, <4>1
      <4>3. QED
        BY <3>1, <4>1, <4>2
    <3>4. f[d] = R(f, d)
      BY <1>4, <1>8, <3>2
    <3>5. g[d] = R(g, d)
      BY <1>4, <1>8, <1>6, <3>2
    <3>6. QED
      BY <1>2, <3>2, <3>3, <3>4, <3>5
  <2>2. QED
    BY <2>1, <1>6
<1> DEFINE F(n) == CHOOSE f : UpTo(n, f)
           h == [d \in D |-> F(size[d])[d]]
<1>9. \A n \in Nat : UpTo(n, F(n))
  BY <1>7
<1> HIDE DEF F
<1>10. h \in [D -> S]
  <2> SUFFICES ASSUME NEW d \in D PROVE F(size[d])[d] \in S
    OBVIOUS
  <2>1. F(size[d]) \in [D -> S]
    BY <1>4, <1>6, <1>9
  <2>2. QED
    BY <2>1
<1>11. ASSUME NEW d \in D PROVE h[d] = R(h, d)
  <2>1. h[d] = R(F(size[d]), d)
    BY <1>4, <1>6, <1>9
  <2>2. d \notin base => h[before[d]] = F(size[d])[before[d]]
    <3> SUFFICES ASSUME d \notin base
                 PROVE  h[before[d]] = F(size[d])[before[d]]
      OBVIOUS
    <3> DEFINE c == before[d]
    <3>1. c \in D /\ size[c] <= size[d] /\ size[c] \in Nat /\ size[d] \in Nat
      BY <1>3, <1>6
    <3>2. UpTo(size[c], F(size[c])) /\ UpTo(size[d], F(size[d]))
      BY <1>9, <3>1
    <3> HIDE DEF c
    <3>3. F(size[c])[c] = F(size[d])[c]
      BY <1>8, <3>1, <3>2
    <3>4. h[c] = F(size[c])[c]
      BY <3>1
    <3>5. QED
      BY <3>3, <3>4 DEF c
  <2> HIDE DEF h
  <2>3. R(F(size[d]), d) = R(h, d)
    BY <1>2, <2>2
  <2>4. QED
    BY <2>1, <2>3
<1> HIDE DEF h
<1>12. QED
  BY <1>10, <1>11 DEF R

LEMMA PowerDef ==
  \A n \in Nat : Power[n] = IF n = 0 THEN 1 ELSE ByteSize * Power[n - 1]
<1> DEFINE Solves1(f) ==
             f = [n \in Nat |-> IF n = 0 THEN 1 ELSE ByteSize * f[n - 1]]
           size   == [n \in Nat |-> n]
           first  == [n \in {0} |-> 1]
           before == [n \in Nat \ {0} |-> n - 1]
           step   == [p \in Nat \X Nat |-> ByteSize * p[2]]
<1>1. PICK f \in [Nat -> Nat] :
        \A n \in Nat : f[n] = Rule(first, before, step, f, n)
  <2>1. /\ size \in [Nat -> Nat] /\ {0} \in SUBSET Nat
        /\ first \in [{0} -> Nat]
        /\ before \in [Nat \ {0} -> Nat]
    OBVIOUS
  <2>2. step \in [Nat \X Nat -> Nat]
    <3> SUFFICES ASSUME NEW p \in Nat \X Nat PROVE ByteSize * p[2] \in Nat
      OBVIOUS
    <3>1. p[2] \in Nat /\ ByteSize \in Nat
      BY SizesAssumption
    <3>2. QED
      BY <3>1
  <2>3. \A n \in Nat \ {0} : size[before[n]] < size[n]
    OBVIOUS
  <2> HIDE DEF size, first, before, step
  <2>4. Recursion(Nat, Nat, size, {0}, first, before, step)
    BY <2>1, <2>2, <2>3 DEF Recursion
  <2>5. QED
    BY <2>4, RecursionExists
<1>2. Solves1(f)
  <2>1. \A n \in Nat : f[n] = IF n = 0 THEN 1 ELSE ByteSize * f[n - 1]
    <3> SUFFICES ASSUME NEW n \in Nat
                 PROVE  f[n] = IF n = 0 THEN 1 ELSE ByteSize * f[n - 1]
      OBVIOUS
    <3>1. f[n] = Rule(first, before, step, f, n)
      BY <1>1
    <3>2. CASE n = 0
      BY <3>1, <3>2 DEF Rule
    <3>3. CASE n # 0
      <4>1. n \notin DOMAIN first /\ before[n] = n - 1 /\ f[n - 1] \in Nat
        BY <1>1, <3>3
      <4>2. f[n] = step[<<n, f[n - 1]>>]
        BY <3>1, <4>1 DEF Rule
      <4>3. <<n, f[n - 1]>> \in Nat \X Nat
        BY <4>1
      <4>4. QED
        BY <3>3, <4>2, <4>3
    <3>4. QED
      BY <3>2, <3>3
  <2>2. QED
    BY <1>1, <2>1
<1>3. Solves1(CHOOSE g : Solves1(g))
  BY <1>2
<1>4. Power = CHOOSE g : Solves1(g)
  BY DEF Power
<1> DEFINE p == CHOOSE g : Solves1(g)
<1>5. Solves1(p) /\ Power = p
  BY <1>3, <1>4
<1> HIDE DEF p
<1>6. QED
  BY <1>5

LEMMA PowerNat == \A n \in Nat : Power[n] \in Nat \ {0}
<1> DEFINE P == {n \in Nat : Power[n] \in Nat \ {0}}
<1>1. 0 \in P
  BY PowerDef
<1>2. ASSUME NEW n \in Nat, n \in P PROVE n + 1 \in P
  <2>1. Power[n + 1] = ByteSize * Power[n]
    BY PowerDef
  <2>2. QED
    BY <1>2, <2>1, SizesAssumption
<1> HIDE DEF P
<1>3. \A n \in Nat : n \in P
  BY <1>1, <1>2, AllNumbers
<1>4. QED
  BY <1>3 DEF P

LEMMA PowerStep ==
  ASSUME NEW n \in Nat
  PROVE  Power[n + 1] = ByteSize * Power[n] /\ Power[0] = 1
BY PowerDef

-----------------------------------------------------------------------------
(* Quotients and remainders. *)
LEMMA Products ==
  ASSUME NEW m \in Nat, NEW n \in Nat
  PROVE  m * n \in Nat
OBVIOUS

LEMMA Quotient ==
  ASSUME NEW a \in Nat, NEW b \in Nat \ {0}
  PROVE  /\ a \div b \in Nat /\ a % b \in 0 .. b - 1
         /\ a = b * (a \div b) + (a % b)
OBVIOUS

LEMMA QuotientIs ==
  ASSUME NEW a \in Nat, NEW b \in Nat \ {0}, NEW q \in Nat, NEW m \in 0 .. b - 1,
         a = b * q + m
  PROVE  a \div b = q /\ a % b = m
<1> DEFINE q1 == a \div b
           m1 == a % b
<1>1. q1 \in Nat /\ m1 \in 0 .. b - 1 /\ a = b * q1 + m1
  BY Quotient
<1> HIDE DEF q1, m1
<1>2. ~(q < q1)
  <2> SUFFICES ASSUME q < q1 PROVE FALSE
    OBVIOUS
  <2>1. PICK d \in Nat : q1 = q + 1 + d
    <3>1. q1 - q - 1 \in Nat /\ q1 = q + 1 + (q1 - q - 1)
      BY <1>1
    <3>2. QED
      BY <3>1
  <2>2. b * q1 = b * q + b + b * d
    BY <2>1
  <2>3. b * q \in Nat /\ b * d \in Nat
    BY Products
  <2>4. QED
    BY <1>1, <2>2, <2>3
<1>3. ~(q1 < q)
  <2> SUFFICES ASSUME q1 < q PROVE FALSE
    OBVIOUS
  <2>1. PICK d \in Nat : q = q1 + 1 + d
    <3>1. q - q1 - 1 \in Nat /\ q = q1 + 1 + (q - q1 - 1)
      BY <1>1
    <3>2. QED
      BY <3>1
  <2>2. b * q = b * q1 + b + b * d
    BY <1>1, <2>1
  <2>3. b * q1 \in Nat /\ b * d \in Nat
    BY <1>1, Products
  <2>4. QED
    BY <1>1, <2>2, <2>3
<1>4. q1 = q
  BY <1>1, <1>2, <1>3
<1>5. b * q \in Nat
  BY Products
<1>6. QED
  BY <1>1, <1>4, <1>5 DEF q1, m1

LEMMA QuotientOfQuotient ==
  ASSUME NEW a \in Nat, NEW b \in Nat \ {0}, NEW c \in Nat \ {0}
  PROVE  (a \div b) \div c = a \div (c * b)
<1> DEFINE q == a \div b
           m == a % b
           p == q \div c
           n == q % c
<1>1. q \in Nat /\ m \in 0 .. b - 1 /\ a = b * q + m
  BY Quotient
<1>2. p \in Nat /\ n \in 0 .. c - 1 /\ q = c * p + n
  BY <1>1, Quotient
<1> HIDE DEF q, m, p, n
<1>3. a = (c * b) * p + (b * n + m)
  <2>1. b * q = b * (c * p) + b * n
    BY <1>1, <1>2
  <2>2. b * (c * p) = (c * b) * p
    BY <1>2
  <2>3. b * n \in Nat /\ (c * b) * p \in Nat
    BY <1>2, Products
  <2>4. QED
    BY <1>1, <2>1, <2>2, <2>3
<1>4. c * b \in Nat \ {0}
  BY Products
<1>5. b * n + m \in 0 .. c * b - 1
  <2>1. b * n \in Nat /\ b * (n + 1) = b * n + b
    BY <1>2, Products
  <2>2. b * (n + 1) <= b * c
    <3>1. PICK d \in Nat : c = n + 1 + d
      <4>1. c - n - 1 \in Nat /\ c = n + 1 + (c - n - 1)
        BY <1>2
      <4>2. QED
        BY <4>1
    <3>2. b * c = b * (n + 1) + b * d
      BY <1>2, <3>1
    <3>3. b * d \in Nat /\ b * (n + 1) \in Nat
      BY <1>2, Products
    <3>4. QED
      BY <3>2, <3>3
  <2>3. b * c = c * b
    OBVIOUS
  <2>4. QED
    BY <1>1, <2>1, <2>2, <2>3, <1>4
<1>6. a \div (c * b) = p
  BY <1>2, <1>3, <1>4, <1>5, QuotientIs
<1>7. QED
  BY <1>6 DEF p, q

LEMMA MinIn ==
  ASSUME NEW S, S \subseteq Nat, S # {}
  PROVE  Min(S) \in S
BY LeastOf DEF Min

LEMMA MinOfRange ==
  ASSUME NEW i \in Nat, NEW n \in Nat, i <= n
  PROVE  Min(i .. n) = i /\ (i .. n) \ {i} = (i + 1) .. n
<1> DEFINE S == i .. n
<1>1. i \in S /\ \A k \in S : i <= k /\ k \in Int
  OBVIOUS
<1>2. \A k \in S : (\A j \in S : k <= j) => k = i
  BY <1>1
<1>3. Min(S) = CHOOSE x \in S : \A y \in S : x <= y
  BY DEF Min
<1> HIDE DEF S
<1>4. Min(S) = i
  BY <1>1, <1>2, <1>3
<1>5. QED
  BY <1>4 DEF S

(* What the recursion says of the positions T of s. *)
Folded(s, f, T) == IF T = {} THEN 0 ELSE s[Min(T)] + ByteSize * f[T \ {Min(T)}]

(* f gives the number of every part of s. *)
Solves(s, f) == f = [T \in SUBSET DOMAIN s |-> Folded(s, f, T)]

LEMMA Unfolded ==
  ASSUME NEW s
  PROVE  FromLittleEndian(s) = (CHOOSE f : Solves(s, f))[DOMAIN s]
BY DEF FromLittleEndian, FoldRight, MapThenFoldSet, Solves, Folded

(* Without its least element a set of positions is a smaller one. *)
LEMMA Smaller ==
  ASSUME NEW s \in Seq(Nat), NEW T \in SUBSET DOMAIN s
  PROVE  /\ Cardinality(T) \in Nat /\ T \subseteq Nat
         /\ T # {} => /\ Min(T) \in T
                      /\ T \ {Min(T)} \in SUBSET DOMAIN s
                      /\ Cardinality(T \ {Min(T)}) < Cardinality(T)
<1>1. IsFiniteSet(DOMAIN s) /\ DOMAIN s \subseteq Nat
  <2>1. DOMAIN s = 1 .. Len(s) /\ Len(s) \in Nat
    BY LenProperties
  <2>2. QED
    BY <2>1, FS_Interval
<1>2. IsFiniteSet(T)
  BY <1>1, FS_Subset
<1>3. T # {} => Min(T) \in T
  BY <1>1, MinIn
<1>4. Cardinality(T) \in Nat
  BY <1>2, FS_CardinalityType
<1>5. T # {} => Cardinality(T \ {Min(T)}) = Cardinality(T) - 1
  BY <1>2, <1>3, FS_RemoveElement
<1>6. QED
  BY <1>1, <1>3, <1>4, <1>5

LEMMA FoldExists ==
  ASSUME NEW s \in Seq(Nat)
  PROVE  \E f : Solves(s, f)
<1> DEFINE D == SUBSET DOMAIN s
           size   == [T \in D |-> Cardinality(T)]
           first  == [T \in {{}} |-> 0]
           before == [T \in D \ {{}} |-> T \ {Min(T)}]
           step   == [p \in D \X Nat |->
                        IF p[1] = {} THEN 0 ELSE s[Min(p[1])] + ByteSize * p[2]]
<1>1. \A T \in D : T # {} => s[Min(T)] \in Nat
  <2> SUFFICES ASSUME NEW T \in D, T # {} PROVE s[Min(T)] \in Nat
    OBVIOUS
  <2>1. Min(T) \in DOMAIN s
    BY Smaller
  <2>2. QED
    BY <2>1, ElementOfSeq, LenProperties
<1>2. PICK f \in [D -> Nat] :
        \A T \in D : f[T] = Rule(first, before, step, f, T)
  <2>1. size \in [D -> Nat] /\ first \in [{{}} -> Nat] /\ {{}} \subseteq D
    BY Smaller
  <2>2. /\ before \in [D \ {{}} -> D]
        /\ \A T \in D \ {{}} : size[before[T]] < size[T]
    BY Smaller
  <2>3. step \in [D \X Nat -> Nat]
    <3> SUFFICES ASSUME NEW p \in D \X Nat, p[1] # {}
                 PROVE  s[Min(p[1])] + ByteSize * p[2] \in Nat
      OBVIOUS
    <3>1. p[2] \in Nat /\ s[Min(p[1])] \in Nat
      BY <1>1
    <3>2. ByteSize * p[2] \in Nat
      BY <3>1, SizesAssumption, Products
    <3>3. QED
      BY <3>1, <3>2
  <2> HIDE DEF D, size, first, before, step
  <2>4. Recursion(D, Nat, size, {{}}, first, before, step)
    BY <2>1, <2>2, <2>3 DEF Recursion
  <2>5. QED
    BY <2>4, RecursionExists
<1>3. ASSUME NEW T \in D PROVE f[T] = Folded(s, f, T)
  <2>1. CASE T = {}
    BY <1>2, <2>1 DEF Rule, Folded
  <2>2. CASE T # {}
    <3>1. T \notin DOMAIN first /\ before[T] = T \ {Min(T)}
      BY <2>2
    <3>2. before[T] \in D
      BY <2>2, <3>1, Smaller
    <3>3. f[T] = step[<<T, f[before[T]]>>]
      BY <1>2, <3>1 DEF Rule
    <3> DEFINE v == f[before[T]]
    <3>4. v \in Nat
      BY <1>2, <3>2
    <3> HIDE DEF v
    <3>5. step[<<T, v>>] = s[Min(T)] + ByteSize * v
      BY <2>2, <3>4
    <3>6. QED
      BY <2>2, <3>1, <3>3, <3>5 DEF Folded, v
  <2>3. QED
    BY <2>1, <2>2
<1>4. f = [T \in D |-> Folded(s, f, T)]
  BY <1>2, <1>3
<1>5. QED
  BY <1>4 DEF Solves

(***************************************************************************)
(* The values of the ends of s: g[i] is that of the bytes from the i-th.   *)
(***************************************************************************)
ValuesOf(s, g) ==
  /\ g[Len(s) + 1] = 0
  /\ \A i \in 1 .. Len(s) : g[i] = s[i] + ByteSize * g[i + 1]

LEMMA BytesValues ==
  ASSUME NEW s \in Seq(Nat)
  PROVE  \E g : ValuesOf(s, g) /\ g[1] = FromLittleEndian(s)
<1> DEFINE n == Len(s)
           f == CHOOSE h : Solves(s, h)
           g == [i \in 1 .. n + 1 |-> f[i .. n]]
<1>1. n \in Nat /\ DOMAIN s = 1 .. n
  BY LenProperties
<1>2. \A T \in SUBSET DOMAIN s : f[T] = Folded(s, f, T)
  BY FoldExists DEF Solves
<1>3. FromLittleEndian(s) = f[1 .. n]
  BY <1>1, Unfolded
<1> HIDE DEF n, f
<1>4. g[n + 1] = 0
  <2>1. n + 1 .. n = {} /\ g[n + 1] = f[n + 1 .. n]
    BY <1>1
  <2>2. QED
    BY <1>1, <1>2, <2>1 DEF Folded
<1>5. ASSUME NEW i \in 1 .. n
      PROVE  g[i] = s[i] + ByteSize * g[i + 1]
  <2>1. Min(i .. n) = i /\ (i .. n) \ {i} = (i + 1) .. n
    BY <1>1, MinOfRange
  <2>2. (i .. n) # {} /\ (i .. n) \in SUBSET DOMAIN s
    <3>1. i \in i .. n /\ \A k \in i .. n : k \in 1 .. n
      BY <1>1
    <3>2. QED
      BY <1>1, <3>1
  <2>3. f[i .. n] = s[i] + ByteSize * f[(i + 1) .. n]
    BY <1>2, <2>1, <2>2 DEF Folded
  <2>4. g[i] = f[i .. n] /\ g[i + 1] = f[(i + 1) .. n]
    BY <1>1
  <2>5. QED
    BY <2>3, <2>4
<1>6. g[1] = f[1 .. n]
  BY <1>1
<1> HIDE DEF g
<1>7. ValuesOf(s, g)
  BY <1>4, <1>5 DEF ValuesOf, n
<1>8. QED
  BY <1>3, <1>6, <1>7

LEMMA OneValue ==
  ASSUME NEW s \in Seq(Nat), NEW g, ValuesOf(s, g), NEW h, ValuesOf(s, h)
  PROVE  g[1] = h[1] /\ g[1] \in Nat
<1> DEFINE n == Len(s)
           P == {k \in Nat : k <= n => /\ g[n + 1 - k] = h[n + 1 - k]
                                       /\ g[n + 1 - k] \in Nat}
<1>1. n \in Nat
  BY LenProperties
<1>2. 0 \in P
  <2>1. g[n + 1] = 0 /\ h[n + 1] = 0 /\ n + 1 - 0 = n + 1
    BY <1>1 DEF ValuesOf
  <2>2. QED
    BY <2>1
<1>3. ASSUME NEW k \in Nat, k \in P PROVE k + 1 \in P
  <2> SUFFICES ASSUME k + 1 <= n
               PROVE  /\ g[n + 1 - (k + 1)] = h[n + 1 - (k + 1)]
                      /\ g[n + 1 - (k + 1)] \in Nat
    OBVIOUS
  <2> DEFINE i == n + 1 - (k + 1)
  <2>1. i \in 1 .. n /\ i + 1 = n + 1 - k
    BY <1>1
  <2>2. g[i + 1] = h[i + 1] /\ g[i + 1] \in Nat
    BY <1>3, <2>1
  <2>3. s[i] \in Nat
    BY <2>1, ElementOfSeq
  <2>4. g[i] = s[i] + ByteSize * g[i + 1] /\ h[i] = s[i] + ByteSize * h[i + 1]
    BY <2>1 DEF ValuesOf
  <2> HIDE DEF i
  <2>5. ByteSize * g[i + 1] \in Nat
    BY <2>2, SizesAssumption, Products
  <2>6. g[i] = h[i] /\ g[i] \in Nat
    BY <2>2, <2>3, <2>4, <2>5, SMTT(40)
  <2>7. QED
    BY <2>6 DEF i
<1> HIDE DEF P
<1>4. \A k \in Nat : k \in P
  BY <1>2, <1>3, AllNumbers
<1>5. n \in P /\ n <= n /\ n + 1 - n = 1
  BY <1>1, <1>4
<1>6. QED
  BY <1>5 DEF P

LEMMA FromBytesNat ==
  ASSUME NEW s \in Seq(Nat)
  PROVE  FromLittleEndian(s) \in Nat
<1>1. PICK g : ValuesOf(s, g) /\ g[1] = FromLittleEndian(s)
  BY BytesValues
<1>2. g[1] \in Nat
  BY <1>1, OneValue
<1>3. QED
  BY <1>1, <1>2

LEMMA FromBytesIs ==
  ASSUME NEW s \in Seq(Nat), NEW g, ValuesOf(s, g)
  PROVE  FromLittleEndian(s) = g[1]
<1>1. PICK h : ValuesOf(s, h) /\ h[1] = FromLittleEndian(s)
  BY BytesValues
<1>2. h[1] = g[1]
  BY <1>1, OneValue
<1>3. QED
  BY <1>1, <1>2

LEMMA FromNoBytes == FromLittleEndian(<<>>) = 0
<1> DEFINE g == [i \in {1} |-> 0]
<1>1. <<>> \in Seq(Nat) /\ Len(<<>>) = 0
  OBVIOUS
<1>2. ValuesOf(<<>>, g)
  BY DEF ValuesOf
<1>3. g[1] = 0
  OBVIOUS
<1> HIDE DEF g
<1>4. QED
  BY <1>1, <1>2, <1>3, FromBytesIs

LEMMA FromMoreBytes ==
  ASSUME NEW d \in Nat, NEW s \in Seq(Nat)
  PROVE  FromLittleEndian(<<d>> \o s) = d + ByteSize * FromLittleEndian(s)
<1> DEFINE t == <<d>> \o s
           n == Len(s)
<1>1. PICK h : ValuesOf(s, h) /\ h[1] = FromLittleEndian(s)
  BY BytesValues
<1>2. /\ n \in Nat /\ t \in Seq(Nat) /\ Len(t) = n + 1
      /\ t[1] = d /\ \A i \in 2 .. n + 1 : t[i] = s[i - 1]
  OBVIOUS
<1> DEFINE g == [i \in 1 .. n + 2 |-> IF i = 1 THEN d + ByteSize * h[1]
                                      ELSE h[i - 1]]
<1>3. /\ h[n + 1] = 0
      /\ \A i \in 1 .. n : h[i] = s[i] + ByteSize * h[i + 1]
  BY <1>1 DEF ValuesOf
<1> HIDE DEF t, n
<1>4. g[n + 2] = 0
  BY <1>2, <1>3
<1>5. ASSUME NEW i \in 1 .. n + 1
      PROVE  g[i] = t[i] + ByteSize * g[i + 1]
  <2>1. CASE i = 1
    <3>1. g[1] = d + ByteSize * h[1] /\ g[2] = h[1]
      BY <1>2
    <3>2. QED
      BY <1>2, <2>1, <3>1
  <2>2. CASE i # 1
    <3>1. i - 1 \in 1 .. n /\ i - 1 + 1 = i /\ i \in 2 .. n + 1
      BY <1>2, <2>2
    <3>2. g[i] = h[i - 1] /\ g[i + 1] = h[i] /\ t[i] = s[i - 1]
      BY <1>2, <3>1, SMTT(40)
    <3>3. h[i - 1] = s[i - 1] + ByteSize * h[i]
      BY <1>3, <3>1
    <3>4. QED
      BY <3>2, <3>3
  <2>3. QED
    BY <2>1, <2>2
<1>6. g[1] = d + ByteSize * h[1]
  BY <1>2
<1> HIDE DEF g
<1>7. ValuesOf(t, g)
  <2>1. Len(t) + 1 = n + 2
    BY <1>2
  <2>2. QED
    BY <1>2, <1>4, <1>5, <2>1 DEF ValuesOf
<1>8. QED
  BY <1>1, <1>2, <1>6, <1>7, FromBytesIs DEF t

(* Numbers of a fixed width. *)
LEMMA LittleEndianBytes ==
  ASSUME NEW v \in Nat, NEW w \in Nat
  PROVE  /\ LittleEndian(v, w) \in Seq(Nat)
         /\ Len(LittleEndian(v, w)) = w
         /\ \A i \in 1 .. w :
              LittleEndian(v, w)[i] = (v \div Power[i - 1]) % ByteSize
<1>1. \A i \in 1 .. w : (v \div Power[i - 1]) % ByteSize \in Nat
  <2> SUFFICES ASSUME NEW i \in 1 .. w
               PROVE  (v \div Power[i - 1]) % ByteSize \in Nat
    OBVIOUS
  <2>1. Power[i - 1] \in Nat \ {0}
    BY PowerNat
  <2>2. v \div Power[i - 1] \in Nat
    BY <2>1, Quotient
  <2> DEFINE q == v \div Power[i - 1]
  <2>3. ByteSize \in Nat \ {0}
    BY SizesAssumption
  <2> HIDE DEF q
  <2>4. q \in Nat => q % ByteSize \in Nat
    BY <2>3, Quotient
  <2>5. QED
    BY <2>2, <2>4 DEF q
<1> DEFINE s == [i \in 1 .. w |-> (v \div Power[i - 1]) % ByteSize]
<1>2. s \in [1 .. w -> Nat]
  BY <1>1
<1>3. s \in Seq(Nat) /\ Len(s) = w
  <2> HIDE DEF s
  <2>1. QED
    BY <1>2
<1>4. QED
  BY <1>3 DEF LittleEndian

(* A number that fits in its width comes back as it was. *)
LEMMA NumberComesBack ==
  ASSUME NEW w \in Nat, NEW v \in Nat, v < Power[w]
  PROVE  FromLittleEndian(LittleEndian(v, w)) = v
<1> DEFINE s == LittleEndian(v, w)
           g == [i \in 1 .. w + 1 |-> v \div Power[i - 1]]
<1>1. /\ s \in Seq(Nat) /\ Len(s) = w
      /\ \A i \in 1 .. w : s[i] = (v \div Power[i - 1]) % ByteSize
  BY LittleEndianBytes
<1> HIDE DEF s
<1>2. g[w + 1] = 0
  <2>1. g[w + 1] = v \div Power[w]
    OBVIOUS
  <2>2. Power[w] \in Nat \ {0} /\ v = Power[w] * 0 + v /\ v \in 0 .. Power[w] - 1
    BY PowerNat
  <2>3. QED
    BY <2>1, <2>2, QuotientIs
<1>3. ASSUME NEW i \in 1 .. w
      PROVE  g[i] = s[i] + ByteSize * g[i + 1]
  <2> DEFINE q == v \div Power[i - 1]
  <2>1. g[i] = q /\ g[i + 1] = v \div Power[i]
    OBVIOUS
  <2>2. Power[i - 1] \in Nat \ {0} /\ ByteSize \in Nat \ {0}
    BY PowerNat, SizesAssumption
  <2>3. Power[i] = ByteSize * Power[i - 1]
    BY PowerDef
  <2>4. q \div ByteSize = v \div Power[i]
    BY <2>2, <2>3, QuotientOfQuotient
  <2>5. q \in Nat
    BY <2>2, Quotient
  <2>6. q = ByteSize * (q \div ByteSize) + (q % ByteSize)
    BY <2>2, <2>5, Quotient
  <2>7. s[i] = q % ByteSize
    BY <1>1
  <2>8. q % ByteSize \in 0 .. ByteSize - 1 /\ q \div ByteSize \in Nat
    BY <2>2, <2>5, Quotient
  <2> HIDE DEF q
  <2>11. s[i] \in Nat
    BY <2>2, <2>7, <2>8
  <2>9. ByteSize * (q \div ByteSize) \in Nat
    BY <2>2, <2>8, Products
  <2>10. QED
    BY <2>1, <2>4, <2>6, <2>7, <2>11, <2>9
<1>4. g[1] = v
  <2>1. g[1] = v \div Power[0] /\ Power[0] = 1
    BY PowerDef
  <2>2. v = 1 * v + 0
    OBVIOUS
  <2>3. QED
    BY <2>1, <2>2, QuotientIs
<1> HIDE DEF g
<1>5. ValuesOf(s, g)
  BY <1>1, <1>2, <1>3 DEF ValuesOf
<1>6. QED
  BY <1>1, <1>4, <1>5, FromBytesIs DEF s

-----------------------------------------------------------------------------
(***************************************************************************)
(* The reader.                                                             *)
(***************************************************************************)
NodeReaders ==
  {r \in [data : Seq(Nat), pos : Nat, fail : BOOLEAN] : r.pos <= Len(r.data)}

LEMMA ReaderFields ==
  ASSUME NEW r \in NodeReaders
  PROVE  /\ r.data \in Seq(Nat) /\ Len(r.data) \in Nat
         /\ r.pos \in 0 .. Len(r.data) /\ r.fail \in BOOLEAN
BY LenProperties DEF NodeReaders

LEMMA ChunkBytes ==
  ASSUME NEW r \in NodeReaders, NEW off \in Nat, NEW n \in Nat
  PROVE  Chunk(r, off, n) \in Seq(Nat)
<1>1. /\ r.data \in Seq(Nat) /\ Len(r.data) \in Nat
      /\ r.pos \in Nat
  BY ReaderFields
<1>2. CASE Need(r, off + n)
  <2>1. \A i \in r.pos + off + 1 .. r.pos + off + n : r.data[i] \in Nat
    <3> SUFFICES ASSUME NEW i \in r.pos + off + 1 .. r.pos + off + n
                 PROVE  r.data[i] \in Nat
      OBVIOUS
    <3>1. i \in 1 .. Len(r.data)
      BY <1>1, <1>2 DEF Need
    <3>2. QED
      BY <1>1, <3>1, ElementOfSeq
  <2>2. SubSeq(r.data, r.pos + off + 1, r.pos + off + n) \in Seq(Nat)
    BY <1>1, <2>1, SubSeqProperties
  <2>3. QED
    BY <1>2, <2>2 DEF Chunk
<1>3. CASE ~Need(r, off + n)
  BY <1>3, EmptySeq DEF Chunk
<1>4. QED
  BY <1>2, <1>3

LEMMA NumberNat ==
  ASSUME NEW r \in NodeReaders, NEW off \in Nat, NEW width \in Nat
  PROVE  Number(r, off, width) \in Nat
BY ChunkBytes, FromBytesNat DEF Number

(* A read consumes its bytes, or sets fail and consumes nothing. *)
LEMMA PastBytes ==
  ASSUME NEW r \in NodeReaders, NEW n \in Nat
  PROVE  /\ Past(r, n) \in NodeReaders
         /\ Past(r, n).data = r.data
         /\ Past(r, n).fail = ~Need(r, n)
         /\ Past(r, n).pos = IF Need(r, n) THEN r.pos + n ELSE r.pos
<1>1. /\ r.data \in Seq(Nat) /\ Len(r.data) \in Nat
      /\ r.pos \in 0 .. Len(r.data) /\ r.fail \in BOOLEAN
  BY ReaderFields
<1>2. r \in [data : Seq(Nat), pos : Nat, fail : BOOLEAN]
  BY DEF NodeReaders
<1>3. CASE Need(r, n)
  <2> DEFINE q == [r EXCEPT !.pos = @ + n]
  <2>1. Past(r, n) = q
    BY <1>3 DEF Past
  <2>2. /\ q.data = r.data /\ q.fail = r.fail /\ q.pos = r.pos + n
        /\ q \in [data : Seq(Nat), pos : Nat, fail : BOOLEAN]
    BY <1>1, <1>2
  <2> HIDE DEF q
  <2>3. r.pos + n <= Len(r.data) /\ ~r.fail
    BY <1>1, <1>3 DEF Need
  <2>4. q \in NodeReaders
    BY <2>2, <2>3 DEF NodeReaders
  <2>5. QED
    BY <1>3, <2>1, <2>2, <2>3, <2>4
<1>4. CASE ~Need(r, n)
  <2> DEFINE q == [r EXCEPT !.fail = TRUE]
  <2>1. Past(r, n) = q
    BY <1>4 DEF Past
  <2>2. /\ q.data = r.data /\ q.fail = TRUE /\ q.pos = r.pos
        /\ q \in [data : Seq(Nat), pos : Nat, fail : BOOLEAN]
    BY <1>1, <1>2
  <2> HIDE DEF q
  <2>3. q \in NodeReaders
    BY <1>1, <2>2 DEF NodeReaders
  <2>4. QED
    BY <1>4, <2>1, <2>2, <2>3
<1>5. QED
  BY <1>3, <1>4

(* Which tags are equal must be known wherever a CASE splits on them. *)
USE DEF wireNone, wireBool, wireInt, wireBigInt, wireFloat, wireComplex,
        wireStr, wireBytes, wireObject

(* How many bytes the node that begins at r takes, by its tag.             *)
TextSize(r, off, width) == off + width + Number(r, off, width)

(* How long the node is that begins where r is. *)
NodeSize(r) ==
  LET tag == Number(r, 0, 1)
  IN  CASE tag = wireBool -> 2
        [] tag \in {wireInt, wireFloat} -> 1 + WordBytes
        [] tag = wireComplex -> 1 + 2 * WordBytes
        [] tag \in {wireStr, wireBytes} -> TextSize(r, 1, HalfBytes)
        [] tag = wireBigInt -> TextSize(r, 2, HalfBytes)
        [] tag = wireObject -> TextSize(r, 3 + WordBytes, ShortBytes)
        [] OTHER -> 1

LEMMA Sizes == WordBytes \in Nat /\ HalfBytes \in Nat /\ ShortBytes \in Nat
BY SizesAssumption, ShortAssumption

LEMMA NodeSizeNat ==
  ASSUME NEW r \in NodeReaders
  PROVE  NodeSize(r) \in Nat \ {0}
<1>1. \A off, width \in Nat : TextSize(r, off, width) \in Nat
  BY NumberNat DEF TextSize
<1>2. \A off, width \in Nat : off > 0 => TextSize(r, off, width) > 0
  BY NumberNat DEF TextSize
<1>3. \A off \in {1, 2, 3 + WordBytes}, width \in {HalfBytes, ShortBytes} :
        TextSize(r, off, width) \in Nat \ {0}
  <2> SUFFICES ASSUME NEW off \in {1, 2, 3 + WordBytes},
                      NEW width \in {HalfBytes, ShortBytes}
               PROVE  TextSize(r, off, width) \in Nat \ {0}
    OBVIOUS
  <2>1. off \in Nat /\ off > 0 /\ width \in Nat
    BY Sizes
  <2>2. QED
    BY <1>1, <1>2, <2>1
<1> DEFINE tag == Number(r, 0, 1)
<1> HIDE DEF tag
<1>4. QED
  BY <1>3, Sizes DEF NodeSize, tag

(* The reader that is left has gone past the node, whatever the node is.   *)
LEMMA DecodesPast ==
  ASSUME NEW r \in NodeReaders
  PROVE  DecodeNode(r).r = IF Need(r, 1) THEN Past(r, NodeSize(r))
                                         ELSE Past(r, 1)
BY DEF DecodeNode, NodeSize, TextSize, PastText, Node, Malformed, Checked

(* Decoding is total: whatever the bytes, the reader that is left is over  *)
(* the same bytes, within them and no further back; a node takes a byte at *)
(* least, so that a loop over nodes comes to the end of the bytes; and a   *)
(* reader that has failed never works again ("any overrun flips fail so    *)
(* decoding is total", src/wire.go:199-213).                               *)
THEOREM DecodingIsTotal ==
  ASSUME NEW r \in NodeReaders
  PROVE  LET after == DecodeNode(r).r
         IN  /\ after \in NodeReaders
             /\ after.data = r.data
             /\ r.pos <= after.pos
             /\ ~after.fail => r.pos < after.pos
             /\ r.fail => after.fail /\ ~DecodeNode(r).ok
<1> DEFINE after == DecodeNode(r).r
<1>1. NodeSize(r) \in Nat \ {0}
  BY NodeSizeNat
<1>2. r.pos \in Nat
  BY ReaderFields
<1>3. CASE Need(r, 1)
  <2>1. after = Past(r, NodeSize(r))
    BY <1>3, DecodesPast
  <2>2. ~r.fail
    BY <1>3 DEF Need
  <2> HIDE DEF after
  <2> DEFINE n == NodeSize(r)
  <2>3. n \in Nat /\ n > 0
    BY <1>1
  <2> HIDE DEF n
  <2>4. /\ Past(r, n) \in NodeReaders /\ Past(r, n).data = r.data
        /\ Past(r, n).fail = ~Need(r, n)
        /\ Past(r, n).pos = IF Need(r, n) THEN r.pos + n ELSE r.pos
    BY <2>3, PastBytes
  <2>5. after = Past(r, n)
    BY <2>1 DEF n
  <2>6. /\ after \in NodeReaders /\ after.data = r.data
        /\ r.pos <= after.pos /\ (~after.fail => r.pos < after.pos)
    <3>1. CASE Need(r, n)
      <4>1. after.pos = r.pos + n
        BY <2>4, <2>5, <3>1
      <4>2. QED
        BY <1>2, <2>3, <2>4, <2>5, <4>1
    <3>2. CASE ~Need(r, n)
      <4>1. after.fail = TRUE /\ after.pos = r.pos
        BY <2>4, <2>5, <3>2
      <4>2. QED
        BY <1>2, <2>4, <2>5, <4>1
    <3>3. QED
      BY <3>1, <3>2
  <2>7. QED
    BY <2>2, <2>6 DEF after
<1>4. CASE ~Need(r, 1)
  <2>1. DecodeNode(r) = Malformed(Past(r, 1))
    BY <1>4 DEF DecodeNode
  <2>2. after = Past(r, 1) /\ ~DecodeNode(r).ok
    BY <2>1 DEF Malformed
  <2> HIDE DEF after
  <2>3. /\ Past(r, 1) \in NodeReaders /\ Past(r, 1).data = r.data
        /\ Past(r, 1).fail /\ Past(r, 1).pos = r.pos
    BY <1>4, PastBytes
  <2>4. /\ after \in NodeReaders /\ after.data = r.data
        /\ r.pos <= after.pos /\ after.fail
    BY <1>2, <2>2, <2>3
  <2>5. QED
    BY <2>2, <2>4 DEF after
<1>5. QED
  BY <1>3, <1>4

-----------------------------------------------------------------------------
(***************************************************************************)
(* Bytes that are cut short.                                               *)
(***************************************************************************)

(* s is where r is, in bytes that begin with those of r. *)
Continues(s, r) ==
  /\ s.pos = r.pos /\ s.fail = r.fail
  /\ Len(r.data) <= Len(s.data)
  /\ \A i \in 1 .. Len(r.data) : s.data[i] = r.data[i]

(* Whatever is read of the shorter bytes is in the longer ones, too. *)
LEMMA SameChunk ==
  ASSUME NEW r \in NodeReaders, NEW s \in NodeReaders, Continues(s, r),
         NEW off \in Nat, NEW n \in Nat, Need(r, off + n)
  PROVE  Need(s, off + n) /\ Chunk(s, off, n) = Chunk(r, off, n)
<1>1. /\ r.data \in Seq(Nat) /\ Len(r.data) \in Nat /\ r.pos \in Nat
      /\ s.data \in Seq(Nat) /\ Len(s.data) \in Nat
  BY ReaderFields
<1>2. Need(s, off + n) /\ s.pos = r.pos
  BY <1>1 DEF Continues, Need
<1> DEFINE a == r.pos + off + 1
           b == r.pos + off + n
<1>3. /\ a \in Int /\ b \in Int /\ a >= 1 /\ b <= Len(r.data)
  BY <1>1, SMTT(40) DEF Need
<1> HIDE DEF a, b
<1>4. \A i \in a .. b : s.data[i] = r.data[i] /\ r.data[i] \in Nat
  BY <1>1, <1>3, ElementOfSeq, SMTT(40) DEF Continues
<1>5. /\ SubSeq(r.data, a, b) \in Seq(Nat) /\ SubSeq(s.data, a, b) \in Seq(Nat)
      /\ Len(SubSeq(s.data, a, b)) = Len(SubSeq(r.data, a, b))
      /\ Len(SubSeq(r.data, a, b)) = IF a <= b THEN b - a + 1 ELSE 0
      /\ \A i \in 1 .. b - a + 1 : SubSeq(r.data, a, b)[i] = r.data[a + i - 1]
      /\ \A i \in 1 .. b - a + 1 : SubSeq(s.data, a, b)[i] = s.data[a + i - 1]
  <2>1. \A i \in a .. b : s.data[i] \in Nat
    BY <1>4
  <2>2. QED
    BY <1>3, <1>4, <2>1, SubSeqProperties
<1>6. SubSeq(s.data, a, b) = SubSeq(r.data, a, b)
  <2>1. \A i \in 1 .. Len(SubSeq(r.data, a, b)) :
          SubSeq(s.data, a, b)[i] = SubSeq(r.data, a, b)[i]
    BY <1>3, <1>4, <1>5
  <2>2. QED
    BY <1>5, <2>1, SeqEqual
<1>7. QED
  BY <1>2, <1>6 DEF Chunk, a, b

LEMMA SameNumber ==
  ASSUME NEW r \in NodeReaders, NEW s \in NodeReaders, Continues(s, r),
         NEW off \in Nat, NEW width \in Nat, Need(r, off + width)
  PROVE  Number(s, off, width) = Number(r, off, width)
BY SameChunk DEF Number

(* What is needed of n bytes is needed of the first of them. *)
LEMMA NeedLess ==
  ASSUME NEW r \in NodeReaders, NEW n \in Nat, NEW m \in Nat, m <= n,
         Need(r, n)
  PROVE  Need(r, m)
BY ReaderFields DEF Need

LEMMA SameText ==
  ASSUME NEW r \in NodeReaders, NEW s \in NodeReaders, Continues(s, r),
         NEW off \in Nat, NEW width \in Nat,
         Need(r, TextSize(r, off, width))
  PROVE  /\ Text(s, off, width) = Text(r, off, width)
         /\ TextSize(s, off, width) = TextSize(r, off, width)
<1>1. Number(r, off, width) \in Nat
  BY NumberNat
<1>2. Need(r, off + width)
  BY <1>1, NeedLess DEF TextSize
<1>3. Number(s, off, width) = Number(r, off, width)
  BY <1>2, SameNumber
<1>4. Chunk(s, off + width, Number(r, off, width)) =
        Chunk(r, off + width, Number(r, off, width))
  BY <1>1, SameChunk DEF TextSize
<1>5. QED
  BY <1>3, <1>4 DEF Text, TextSize

LEMMA SamePast ==
  ASSUME NEW r \in NodeReaders, NEW s \in NodeReaders, Continues(s, r),
         NEW n \in Nat, Need(r, n)
  PROVE  /\ Continues(Past(s, n), Past(r, n))
         /\ ~Past(s, n).fail /\ ~Past(r, n).fail
<1>1. Need(s, n)
  BY ReaderFields DEF Need, Continues
<1>2. /\ Past(r, n).data = r.data /\ Past(r, n).pos = r.pos + n
      /\ Past(r, n).fail = FALSE
  BY PastBytes
<1>3. /\ Past(s, n).data = s.data /\ Past(s, n).pos = s.pos + n
      /\ Past(s, n).fail = FALSE
  BY <1>1, PastBytes
<1>4. QED
  BY <1>2, <1>3 DEF Continues

(* The value of each kind of node, from its parts. *)
BoolOf(b)   == BoolValue(b # 0)
IntOf(word) == IntValue(Signed(word, WordSize), FALSE)
BigOf(sign, magnitude) ==
  intFromBig(IF sign # 0 THEN -magnitude ELSE magnitude)
ComplexOf(re, im) == ComplexValue(<<re, im>>)
ObjectOf(word, of, callable, typeName) ==
  ObjectValue(word, of, callable % 2 = 1, typeName)

(* What DecodeNode makes of the parts of a node that is all there.         *)
NodeValue(r) ==
  LET tag  == Number(r, 0, 1)
      byte == Number(r, 1, 1)
      word == Number(r, 1, WordBytes)
      text == Text(r, 1, HalfBytes)
  IN  CASE tag = wireBool    -> BoolOf(byte)
        [] tag = wireInt     -> IntOf(word)
        [] tag = wireBigInt  ->
             BigOf(byte, FromLittleEndian(Text(r, 2, HalfBytes)))
        [] tag = wireFloat   -> FloatValue(word)
        [] tag = wireComplex ->
             ComplexOf(word, Number(r, 1 + WordBytes, WordBytes))
        [] tag = wireStr     -> StrValue(text)
        [] tag = wireBytes   -> BytesValue(text)
        [] tag = wireObject  ->
             ObjectOf(word, Number(r, 1 + WordBytes, 1),
                      Number(r, 2 + WordBytes, 1),
                      Text(r, 3 + WordBytes, ShortBytes))
        [] OTHER -> NoneValue

LEMMA DecodesTo ==
  ASSUME NEW r, Need(r, 1), ~Past(r, NodeSize(r)).fail
  PROVE  /\ DecodeNode(r).ok = IF Number(r, 0, 1) \in wireNone .. wireObject
                              THEN TRUE ELSE FALSE
         /\ DecodeNode(r).v = NodeValue(r)
<1> DEFINE tag == Number(r, 0, 1)
           Told == DecodeNode(r).ok = TRUE /\ DecodeNode(r).v = NodeValue(r)
<1>0. ASSUME NEW v, NEW q, DecodeNode(r) = Node(v, q), NodeValue(r) = v
      PROVE  Told
  BY <1>0 DEF Node
<1>1. ASSUME tag = wireNone PROVE Told
  <2> DEFINE v == NoneValue
           q == Past(r, 1)
  <2>1. DecodeNode(r) = Node(v, q)
    BY <1>1 DEF DecodeNode, Node, Checked,
       Malformed, intFromBig
  <2>2. NodeValue(r) = v
    BY <1>1 DEF NodeValue
  <2> HIDE DEF v, q
  <2>3. QED
    BY <1>0, <2>1, <2>2
<1>2. ASSUME tag = wireBool PROVE Told
  <2> DEFINE v == BoolOf(Number(r, 1, 1))
           q == Past(r, 2)
  <2>1. DecodeNode(r) = Node(v, q)
    BY <1>2 DEF DecodeNode, Node, Checked,
       Malformed, intFromBig, BoolOf
  <2>2. NodeValue(r) = v
    BY <1>2 DEF NodeValue
  <2> HIDE DEF v, q
  <2>3. QED
    BY <1>0, <2>1, <2>2
<1>3. ASSUME tag = wireInt PROVE Told
  <2> DEFINE v == IntOf(Number(r, 1, WordBytes))
           q == Past(r, 1 + WordBytes)
  <2>1. DecodeNode(r) = Node(v, q)
    BY <1>3 DEF DecodeNode, Node, Checked,
       Malformed, intFromBig, IntOf
  <2>2. NodeValue(r) = v
    BY <1>3 DEF NodeValue
  <2> HIDE DEF v, q
  <2>3. QED
    BY <1>0, <2>1, <2>2
<1>4. ASSUME tag = wireBigInt PROVE Told
  <2> DEFINE v == BigOf(Number(r, 1, 1),
                        FromLittleEndian(Text(r, 2, HalfBytes)))
           q == Past(r, TextSize(r, 2, HalfBytes))
  <2>0. ~q.fail
    BY <1>4 DEF NodeSize
  <2>1. DecodeNode(r) = Node(v, q)
    BY <1>4, <2>0 DEF DecodeNode, TextSize, PastText, Node, Checked,
       Malformed, intFromBig, BigOf
  <2>2. NodeValue(r) = v
    BY <1>4 DEF NodeValue
  <2> HIDE DEF v, q
  <2>3. QED
    BY <1>0, <2>1, <2>2
<1>5. ASSUME tag = wireFloat PROVE Told
  <2> DEFINE v == FloatValue(Number(r, 1, WordBytes))
           q == Past(r, 1 + WordBytes)
  <2>1. DecodeNode(r) = Node(v, q)
    BY <1>5 DEF DecodeNode, Node, Checked,
       Malformed, intFromBig
  <2>2. NodeValue(r) = v
    BY <1>5 DEF NodeValue
  <2> HIDE DEF v, q
  <2>3. QED
    BY <1>0, <2>1, <2>2
<1>6. ASSUME tag = wireComplex PROVE Told
  <2> DEFINE v == ComplexOf(Number(r, 1, WordBytes),
                     Number(r, 1 + WordBytes, WordBytes))
           q == Past(r, 1 + 2 * WordBytes)
  <2>1. DecodeNode(r) = Node(v, q)
    BY <1>6 DEF DecodeNode, Node, Checked,
       Malformed, intFromBig, ComplexOf
  <2>2. NodeValue(r) = v
    BY <1>6 DEF NodeValue
  <2> HIDE DEF v, q
  <2>3. QED
    BY <1>0, <2>1, <2>2
<1>7. ASSUME tag = wireStr PROVE Told
  <2> DEFINE v == StrValue(Text(r, 1, HalfBytes))
           q == Past(r, TextSize(r, 1, HalfBytes))
  <2>0. ~q.fail
    BY <1>7 DEF NodeSize
  <2>1. DecodeNode(r) = Node(v, q)
    BY <1>7, <2>0 DEF DecodeNode, TextSize, PastText, Node, Checked,
       Malformed, intFromBig
  <2>2. NodeValue(r) = v
    BY <1>7 DEF NodeValue
  <2> HIDE DEF v, q
  <2>3. QED
    BY <1>0, <2>1, <2>2
<1>8. ASSUME tag = wireBytes PROVE Told
  <2> DEFINE v == BytesValue(Text(r, 1, HalfBytes))
           q == Past(r, TextSize(r, 1, HalfBytes))
  <2>0. ~q.fail
    BY <1>8 DEF NodeSize
  <2>1. DecodeNode(r) = Node(v, q)
    BY <1>8, <2>0 DEF DecodeNode, TextSize, PastText, Node, Checked,
       Malformed, intFromBig
  <2>2. NodeValue(r) = v
    BY <1>8 DEF NodeValue
  <2> HIDE DEF v, q
  <2>3. QED
    BY <1>0, <2>1, <2>2
<1>9. ASSUME tag = wireObject PROVE Told
  <2> DEFINE v == ObjectOf(Number(r, 1, WordBytes), Number(r, 1 + WordBytes, 1),
                    Number(r, 2 + WordBytes, 1),
                    Text(r, 3 + WordBytes, ShortBytes))
           q == Past(r, TextSize(r, 3 + WordBytes, ShortBytes))
  <2>0. ~q.fail
    BY <1>9 DEF NodeSize
  <2>1. DecodeNode(r) = Node(v, q)
    BY <1>9, <2>0 DEF DecodeNode, TextSize, PastText, Node, Checked,
       Malformed, intFromBig, ObjectOf
  <2>2. NodeValue(r) = v
    BY <1>9 DEF NodeValue
  <2> HIDE DEF v, q
  <2>3. QED
    BY <1>0, <2>1, <2>2
<1>10. ASSUME tag \notin wireNone .. wireObject
       PROVE  DecodeNode(r).ok = FALSE /\ DecodeNode(r).v = NodeValue(r)
  <2>1. DecodeNode(r) = Malformed(Past(r, 1))
    BY <1>10 DEF DecodeNode, Node, Checked, Malformed, intFromBig
  <2>2. NodeValue(r) = NoneValue
    BY <1>10 DEF NodeValue
  <2>3. DecodeNode(r).ok = FALSE /\ DecodeNode(r).v = NoneValue
    BY <2>1 DEF Malformed
  <2>4. QED
    BY <1>10, <2>2, <2>3
<1> HIDE DEF tag, Told
<1>11. tag \in wireNone .. wireObject => Told
  <2>1. tag \in wireNone .. wireObject =>
          tag \in {wireNone, wireBool, wireInt, wireBigInt, wireFloat,
                  wireComplex, wireStr, wireBytes, wireObject}
    OBVIOUS
  <2>2. QED
    BY <1>1, <1>2, <1>3, <1>4, <1>5, <1>6, <1>7, <1>8, <1>9, <2>1
<1>12. DecodeNode(r).v = NodeValue(r)
  BY <1>10, <1>11 DEF Told
<1>13. DecodeNode(r).ok = IF tag \in wireNone .. wireObject
                          THEN TRUE ELSE FALSE
  BY <1>10, <1>11 DEF Told
<1>14. QED
  BY <1>12, <1>13 DEF tag

LEMMA SameNode ==
  ASSUME NEW r \in NodeReaders, NEW s \in NodeReaders, Continues(s, r),
         Need(r, 1), Need(r, NodeSize(r))
  PROVE  /\ Number(s, 0, 1) = Number(r, 0, 1)
         /\ NodeSize(s) = NodeSize(r)
         /\ NodeValue(s) = NodeValue(r)
<1> DEFINE tag == Number(r, 0, 1)
<1>1. Number(s, 0, 1) = tag
  BY SameNumber
<1>2. \A off, width \in Nat :
        off + width <= NodeSize(r) =>
          Number(s, off, width) = Number(r, off, width)
  <2> SUFFICES ASSUME NEW off \in Nat, NEW width \in Nat,
                      off + width <= NodeSize(r)
               PROVE  Number(s, off, width) = Number(r, off, width)
    OBVIOUS
  <2>1. NodeSize(r) \in Nat /\ off + width \in Nat
    BY NodeSizeNat
  <2>2. Need(r, off + width)
    BY <2>1, NeedLess
  <2>3. QED
    BY <2>2, SameNumber
<1>3. ASSUME NEW off \in Nat, NEW width \in Nat,
             NodeSize(r) = TextSize(r, off, width)
      PROVE  /\ Text(s, off, width) = Text(r, off, width)
             /\ TextSize(s, off, width) = TextSize(r, off, width)
             /\ off + width <= NodeSize(r)
  <2>1. off + width <= NodeSize(r)
    BY <1>3, NumberNat DEF TextSize
  <2>2. Need(r, TextSize(r, off, width))
    BY <1>3
  <2>3. QED
    BY <2>1, <2>2, SameText
<1> HIDE DEF tag
<1>4. CASE tag = wireBool
  <2>1. NodeSize(r) = 2 /\ NodeSize(s) = 2
    BY <1>1, <1>4 DEF NodeSize, tag
  <2>2. Number(s, 1, 1) = Number(r, 1, 1)
    BY <1>2, <2>1
  <2>3. NodeValue(s) = NodeValue(r)
    BY <1>1, <1>4, <2>2 DEF NodeValue, tag
  <2>4. QED
    BY <1>1, <2>1, <2>3 DEF tag
<1>5. CASE tag \in {wireInt, wireFloat}
  <2>1. NodeSize(r) = 1 + WordBytes /\ NodeSize(s) = 1 + WordBytes
    BY <1>1, <1>5 DEF NodeSize, tag
  <2>2. Number(s, 1, WordBytes) = Number(r, 1, WordBytes)
    BY <1>2, <2>1, Sizes
  <2>3. NodeValue(s) = NodeValue(r)
    BY <1>1, <1>5, <2>2 DEF NodeValue, tag
  <2>4. QED
    BY <1>1, <2>1, <2>3 DEF tag
<1>6. CASE tag = wireComplex
  <2>1. NodeSize(r) = 1 + 2 * WordBytes /\ NodeSize(s) = 1 + 2 * WordBytes
    BY <1>1, <1>6 DEF NodeSize, tag
  <2>2. /\ Number(s, 1, WordBytes) = Number(r, 1, WordBytes)
        /\ Number(s, 1 + WordBytes, WordBytes) =
             Number(r, 1 + WordBytes, WordBytes)
    BY <1>2, <2>1, Sizes
  <2>3. NodeValue(s) = NodeValue(r)
    BY <1>1, <1>6, <2>2 DEF NodeValue, tag
  <2>4. QED
    BY <1>1, <2>1, <2>3 DEF tag
<1>7. CASE tag \in {wireStr, wireBytes}
  <2>1. /\ NodeSize(r) = TextSize(r, 1, HalfBytes)
        /\ NodeSize(s) = TextSize(s, 1, HalfBytes)
    BY <1>1, <1>7 DEF NodeSize, tag
  <2>2. /\ Text(s, 1, HalfBytes) = Text(r, 1, HalfBytes)
        /\ TextSize(s, 1, HalfBytes) = TextSize(r, 1, HalfBytes)
    BY <1>3, <2>1, Sizes
  <2>3. NodeValue(s) = NodeValue(r)
    BY <1>1, <1>7, <2>2 DEF NodeValue, tag
  <2>4. QED
    BY <1>1, <2>1, <2>2, <2>3 DEF tag
<1>8. CASE tag = wireBigInt
  <2>1. /\ NodeSize(r) = TextSize(r, 2, HalfBytes)
        /\ NodeSize(s) = TextSize(s, 2, HalfBytes)
    BY <1>1, <1>8 DEF NodeSize, tag
  <2>2. /\ Text(s, 2, HalfBytes) = Text(r, 2, HalfBytes)
        /\ TextSize(s, 2, HalfBytes) = TextSize(r, 2, HalfBytes)
        /\ 2 + HalfBytes <= NodeSize(r)
    BY <1>3, <2>1, Sizes
  <2>3. Number(s, 1, 1) = Number(r, 1, 1)
    BY <1>2, <2>2, NodeSizeNat, Sizes
  <2>4. NodeValue(s) = NodeValue(r)
    BY <1>1, <1>8, <2>2, <2>3 DEF NodeValue, tag
  <2>5. QED
    BY <1>1, <2>1, <2>2, <2>4 DEF tag
<1>9. CASE tag = wireObject
  <2>1. /\ NodeSize(r) = TextSize(r, 3 + WordBytes, ShortBytes)
        /\ NodeSize(s) = TextSize(s, 3 + WordBytes, ShortBytes)
    BY <1>1, <1>9 DEF NodeSize, tag
  <2>2. /\ Text(s, 3 + WordBytes, ShortBytes) =
             Text(r, 3 + WordBytes, ShortBytes)
        /\ TextSize(s, 3 + WordBytes, ShortBytes) =
             TextSize(r, 3 + WordBytes, ShortBytes)
        /\ 3 + WordBytes + ShortBytes <= NodeSize(r)
    BY <1>3, <2>1, Sizes
  <2>3. /\ Number(s, 1, WordBytes) = Number(r, 1, WordBytes)
        /\ Number(s, 1 + WordBytes, 1) = Number(r, 1 + WordBytes, 1)
        /\ Number(s, 2 + WordBytes, 1) = Number(r, 2 + WordBytes, 1)
    BY <1>2, <2>2, NodeSizeNat, Sizes
  <2>4. NodeValue(s) = NodeValue(r)
    BY <1>1, <1>9, <2>2, <2>3 DEF NodeValue, tag
  <2>5. QED
    BY <1>1, <2>1, <2>2, <2>4 DEF tag
<1>10. CASE tag \notin {wireBool, wireInt, wireBigInt, wireFloat, wireComplex,
                        wireStr, wireBytes, wireObject}
  BY <1>1, <1>10 DEF NodeSize, NodeValue, tag
<1>11. QED
  BY <1>4, <1>5, <1>6, <1>7, <1>8, <1>9, <1>10

(* Bytes that are cut short are told: a node that was decoded of them      *)
(* without fail is the one that is decoded of all the bytes, and the       *)
(* reader stands at the same place for the next one.  So a whole list, an  *)
(* envelope or the arguments of a Go function that were read without fail  *)
(* are what was sent, wherever the bytes end (src/wire.go:199-360).        *)
THEOREM CutShortIsTold ==
  ASSUME NEW r \in NodeReaders, NEW s \in NodeReaders, Continues(s, r),
         ~DecodeNode(r).r.fail
  PROVE  /\ DecodeNode(s).ok = DecodeNode(r).ok
         /\ DecodeNode(s).v = DecodeNode(r).v
         /\ Continues(DecodeNode(s).r, DecodeNode(r).r)
<1> DEFINE n == NodeSize(r)
<1>1. n \in Nat \ {0}
  BY NodeSizeNat
<1>2. Need(r, 1)
  BY DecodesPast, PastBytes
<1>3. DecodeNode(r).r = Past(r, n)
  BY <1>2, DecodesPast
<1>4. Need(r, n)
  <2> HIDE DEF n
  <2>1. Past(r, n).fail = ~Need(r, n)
    BY <1>1, PastBytes
  <2>2. QED
    BY <1>3, <2>1
<1>5. /\ Number(s, 0, 1) = Number(r, 0, 1)
      /\ NodeSize(s) = n /\ NodeValue(s) = NodeValue(r)
  BY <1>2, <1>4, SameNode
<1>6. Need(s, 1)
  BY <1>2, ReaderFields DEF Need, Continues
<1>7. DecodeNode(s).r = Past(s, n)
  BY <1>5, <1>6, DecodesPast
<1>8. /\ Continues(Past(s, n), Past(r, n))
      /\ ~Past(s, n).fail /\ ~Past(r, n).fail
  <2> HIDE DEF n
  <2>1. QED
    BY <1>1, <1>4, SamePast
<1>9. /\ DecodeNode(r).ok = IF Number(r, 0, 1) \in wireNone .. wireObject
                              THEN TRUE ELSE FALSE
      /\ DecodeNode(r).v = NodeValue(r)
  BY <1>2, <1>8, DecodesTo
<1>10. /\ DecodeNode(s).ok = IF Number(s, 0, 1) \in wireNone .. wireObject
                              THEN TRUE ELSE FALSE
       /\ DecodeNode(s).v = NodeValue(s)
  BY <1>5, <1>6, <1>8, DecodesTo
<1>11. QED
  BY <1>3, <1>5, <1>7, <1>8, <1>9, <1>10

-----------------------------------------------------------------------------
(***************************************************************************)
(* The digits of a number make the number, and its bytes are the shortest  *)
(* that do.                                                                *)
(***************************************************************************)
(* Induction in which a number follows from all that are smaller. *)
LEMMA AllFromSmaller ==
  ASSUME NEW P, \A n \in Nat : (\A k \in 0 .. n - 1 : k \in P) => n \in P
  PROVE  \A n \in Nat : n \in P
<1> SUFFICES ASSUME {n \in Nat : n \notin P} # {} PROVE FALSE
  OBVIOUS
<1>1. PICK n \in {k \in Nat : k \notin P} :
        \A m \in {k \in Nat : k \notin P} : n <= m
  BY LeastOf
<1>2. \A k \in 0 .. n - 1 : k \in P
  BY <1>1
<1>3. QED
  BY <1>1, <1>2

LEMMA SmallerQuotient ==
  ASSUME NEW m \in Nat \ {0}, NEW b \in Nat, b > 1
  PROVE  m \div b \in 0 .. m - 1
<1> DEFINE q == m \div b
<1>1. q \in Nat /\ m % b \in Nat /\ m = b * q + (m % b)
  BY Quotient
<1> HIDE DEF q
<1>2. PICK c \in Nat : b = 2 + c
  <2>1. b - 2 \in Nat /\ b = 2 + (b - 2)
    OBVIOUS
  <2>2. QED
    BY <2>1
<1>3. b * q = q + q + c * q /\ c * q \in Nat
  BY <1>1, <1>2, Products
<1>4. q <= m - 1
  BY <1>1, <1>3
<1>5. QED
  BY <1>1, <1>4 DEF q

LEMMA MagnitudeIs ==
  \A m \in Nat :
    /\ Magnitude[m] \in Seq(Nat)
    /\ Magnitude[m] =
         IF m = 0 THEN <<>> ELSE <<m % ByteSize>> \o Magnitude[m \div ByteSize]
<1> DEFINE Is(f) ==
             f = [m \in Nat |->
                    IF m = 0 THEN <<>>
                             ELSE <<m % ByteSize>> \o f[m \div ByteSize]]
           size   == [m \in Nat |-> m]
           first  == [m \in {0} |-> <<>>]
           before == [m \in Nat \ {0} |-> m \div ByteSize]
           S      == Seq(Nat)
           step   == [p \in Nat \X S |-> <<p[1] % ByteSize>> \o p[2]]
<1>0. ByteSize \in Nat \ {0} /\ ByteSize > 1
  BY SizesAssumption
<1>1. \A m \in Nat : m % ByteSize \in Nat /\ m \div ByteSize \in Nat
  BY <1>0, Quotient
<1>2. PICK f \in [Nat -> S] :
        \A m \in Nat : f[m] = Rule(first, before, step, f, m)
  <2>0. <<>> \in S
    BY EmptySeq
  <2>1. /\ size \in [Nat -> Nat] /\ {0} \subseteq Nat /\ S # {}
        /\ first \in [{0} -> S]
    <3> HIDE DEF S
    <3>1. QED
      BY <2>0
  <2>2. before \in [Nat \ {0} -> Nat]
    BY <1>1
  <2>3. step \in [Nat \X S -> S]
    <3> SUFFICES ASSUME NEW p \in Nat \X S
                 PROVE  <<p[1] % ByteSize>> \o p[2] \in Seq(Nat)
      OBVIOUS
    <3>1. p[1] % ByteSize \in Nat /\ p[2] \in Seq(Nat)
      BY <1>1
    <3>2. QED
      BY <3>1
  <2>4. \A m \in Nat \ {0} : size[before[m]] < size[m]
    <3> SUFFICES ASSUME NEW m \in Nat \ {0} PROVE size[before[m]] < size[m]
      OBVIOUS
    <3>1. m \div ByteSize \in 0 .. m - 1
      BY <1>0, SmallerQuotient
    <3>2. QED
      BY <3>1
  <2> HIDE DEF size, first, before, step, S
  <2>5. Recursion(Nat, S, size, {0}, first, before, step)
    BY <2>1, <2>2, <2>3, <2>4 DEF Recursion
  <2>6. QED
    BY <2>5, RecursionExists, SMTT(40)
<1>3. ASSUME NEW m \in Nat
      PROVE  f[m] = IF m = 0 THEN <<>>
                             ELSE <<m % ByteSize>> \o f[m \div ByteSize]
  <2>1. f[m] = Rule(first, before, step, f, m)
    BY <1>2
  <2>2. CASE m = 0
    BY <2>1, <2>2 DEF Rule
  <2>3. CASE m # 0
    <3>1. m \notin DOMAIN first /\ before[m] = m \div ByteSize
      BY <2>3
    <3>2. f[m] = step[<<m, f[m \div ByteSize]>>]
      BY <2>1, <3>1 DEF Rule
    <3> DEFINE rest == f[m \div ByteSize]
    <3>3. rest \in Seq(Nat)
      BY <1>1, <1>2
    <3> HIDE DEF rest
    <3>4. step[<<m, rest>>] = <<m % ByteSize>> \o rest
      BY <3>3
    <3>5. QED
      BY <2>3, <3>2, <3>4 DEF rest
  <2>4. QED
    BY <2>2, <2>3
<1>4. f = [m \in Nat |-> f[m]]
  BY <1>2
<1>5. Is(f)
  BY <1>3, <1>4
<1> DEFINE g == CHOOSE h : Is(h)
<1>6. Is(g) /\ Magnitude = g
  BY <1>5, ZenonT(40) DEF Magnitude
<1> HIDE DEF g
<1>7. \A m \in Nat :
        g[m] = IF m = 0 THEN <<>> ELSE <<m % ByteSize>> \o g[m \div ByteSize]
  BY <1>6
<1> DEFINE P == {m \in Nat : g[m] \in Seq(Nat)}
<1>8. ASSUME NEW m \in Nat, \A k \in 0 .. m - 1 : k \in P
      PROVE  m \in P
  <2>1. CASE m = 0
    <3>1. g[m] = <<>>
      BY <1>7, <2>1
    <3>2. QED
      BY <3>1, EmptySeq
  <2>2. CASE m # 0
    <3>1. m \div ByteSize \in P
      BY <1>0, <1>8, <2>2, SmallerQuotient
    <3>2. g[m \div ByteSize] \in Seq(Nat) /\ m % ByteSize \in Nat
      BY <1>1, <3>1
    <3>3. g[m] = <<m % ByteSize>> \o g[m \div ByteSize]
      BY <1>7, <2>2
    <3> DEFINE rest == g[m \div ByteSize]
               d == m % ByteSize
    <3> HIDE DEF rest, d
    <3>4. <<d>> \o rest \in Seq(Nat)
      BY <3>2 DEF rest, d
    <3>5. g[m] \in Seq(Nat)
      BY <3>3, <3>4 DEF rest, d
    <3>6. QED
      BY <3>5
  <2>3. QED
    BY <2>1, <2>2
<1> HIDE DEF P
<1>9. \A m \in Nat : m \in P
  BY <1>8, AllFromSmaller
<1>10. QED
  BY <1>6, <1>7, <1>9 DEF P

(* The magnitude of a big integer comes back as it was. *)
LEMMA MagnitudeComesBack ==
  \A m \in Nat : FromLittleEndian(Magnitude[m]) = m
<1> DEFINE P == {m \in Nat : FromLittleEndian(Magnitude[m]) = m}
<1>0. ByteSize \in Nat \ {0} /\ ByteSize > 1
  BY SizesAssumption
<1>1. ASSUME NEW m \in Nat, \A k \in 0 .. m - 1 : k \in P
      PROVE  m \in P
  <2>1. CASE m = 0
    BY <2>1, MagnitudeIs, FromNoBytes
  <2>2. CASE m # 0
    <3> DEFINE q == m \div ByteSize
               d == m % ByteSize
               s == Magnitude[q]
    <3>1. q \in Nat /\ d \in Nat /\ m = ByteSize * q + d
      BY <1>0, Quotient
    <3>2. q \in P
      BY <1>0, <1>1, <2>2, SmallerQuotient
    <3>3. FromLittleEndian(s) = q /\ s \in Seq(Nat)
      BY <3>1, <3>2, MagnitudeIs
    <3>4. Magnitude[m] = <<d>> \o s
      BY <2>2, MagnitudeIs
    <3> HIDE DEF q, d, s
    <3>5. FromLittleEndian(<<d>> \o s) = d + ByteSize * q
      BY <3>1, <3>3, FromMoreBytes
    <3>6. ByteSize * q \in Nat
      BY <1>0, <3>1, Products
    <3>7. FromLittleEndian(Magnitude[m]) = m
      BY <3>1, <3>4, <3>5, <3>6
    <3>8. QED
      BY <3>7
  <2>3. QED
    BY <2>1, <2>2
<1> HIDE DEF P
<1>2. \A m \in Nat : m \in P
  BY <1>1, AllFromSmaller
<1>3. QED
  BY <1>2 DEF P

-----------------------------------------------------------------------------
(***************************************************************************)
(* What is written is read.  The bytes that are read may be the beginning  *)
(* of those that were written only.                                        *)
(***************************************************************************)

(* Behind its first p bytes full has the bytes s. *)
Holds(full, p, s) ==
  /\ p + Len(s) <= Len(full)
  /\ \A i \in 1 .. Len(s) : full[p + i] = s[i]

(* The beginning of full, or all of it. *)
CutOf(data, full) ==
  /\ Len(data) <= Len(full)
  /\ \A i \in 1 .. Len(data) : data[i] = full[i]

LEMMA HoldsBoth ==
  ASSUME NEW full \in Seq(Nat), NEW p \in Nat, NEW s \in Seq(Nat),
         NEW t \in Seq(Nat), Holds(full, p, s \o t)
  PROVE  Holds(full, p, s) /\ Holds(full, p + Len(s), t)
<1>1. Len(s \o t) = Len(s) + Len(t) /\ Len(s) \in Nat /\ Len(t) \in Nat
      /\ Len(full) \in Nat
  OBVIOUS
<1>2. \A i \in 1 .. Len(s) : (s \o t)[i] = s[i] /\ i \in 1 .. Len(s \o t)
  BY <1>1
<1>3. \A i \in 1 .. Len(t) :
        /\ (s \o t)[Len(s) + i] = t[i]
        /\ Len(s) + i \in 1 .. Len(s \o t)
        /\ p + (Len(s) + i) = (p + Len(s)) + i
  BY <1>1
<1> DEFINE u == s \o t
<1>4. p + Len(u) <= Len(full) /\ \A i \in 1 .. Len(u) : full[p + i] = u[i]
  BY DEF Holds
<1> HIDE DEF u
<1>5. Holds(full, p, s)
  BY <1>1, <1>2, <1>4, SMTT(40) DEF Holds, u
<1>6. Holds(full, p + Len(s), t)
  <2>1. \A i \in 1 .. Len(t) : full[(p + Len(s)) + i] = t[i]
    <3> SUFFICES ASSUME NEW i \in 1 .. Len(t)
                 PROVE  full[(p + Len(s)) + i] = t[i]
      OBVIOUS
    <3>1. full[p + (Len(s) + i)] = u[Len(s) + i]
      BY <1>3, <1>4 DEF u
    <3>2. QED
      BY <1>3, <3>1 DEF u
  <2>2. (p + Len(s)) + Len(t) <= Len(full)
    BY <1>1, <1>4 DEF u
  <2>3. QED
    BY <2>1, <2>2 DEF Holds
<1>7. QED
  BY <1>5, <1>6

LEMMA ChunkIs ==
  ASSUME NEW r \in NodeReaders, NEW full \in Seq(Nat), CutOf(r.data, full),
         NEW off \in Nat, NEW s \in Seq(Nat), Holds(full, r.pos + off, s),
         Need(r, off + Len(s))
  PROVE  Chunk(r, off, Len(s)) = s
<1>1. /\ r.data \in Seq(Nat) /\ Len(r.data) \in Nat /\ r.pos \in Nat
      /\ Len(s) \in Nat
  BY ReaderFields
<1> DEFINE p == r.pos
           n == Len(s)
           m == Len(r.data)
           a == p + off + 1
           b == p + off + n
           c == SubSeq(r.data, a, b)
<1>0. p \in Nat /\ n \in Nat /\ m \in Nat /\ m - p >= off + n
  BY <1>1 DEF Need
<1>2. /\ a \in Int /\ b \in Int /\ a >= 1 /\ b <= m
      /\ b - a + 1 = n
  <2> HIDE DEF p, n, m
  <2>1. QED
    BY <1>0
<1>3. Chunk(r, off, Len(s)) = c
  BY DEF Chunk
<1>4. \A i \in 1 .. Len(s) : r.data[a + i - 1] = s[i]
  <2> SUFFICES ASSUME NEW i \in 1 .. Len(s) PROVE r.data[a + i - 1] = s[i]
    OBVIOUS
  <2>1. a + i - 1 = r.pos + off + i /\ a + i - 1 \in 1 .. Len(r.data)
    <3>1. i \in 1 .. n
      OBVIOUS
    <3> HIDE DEF p, n, m
    <3>2. a + i - 1 = p + off + i /\ a + i - 1 \in 1 .. m
      BY <1>0, <3>1
    <3>3. QED
      BY <3>2 DEF p, m
  <2>2. full[r.pos + off + i] = s[i]
    BY DEF Holds
  <2>3. QED
    BY <2>1, <2>2 DEF CutOf
<1> HIDE DEF a, b
<1>5. \A i \in a .. b : r.data[i] \in Nat
  <2> SUFFICES ASSUME NEW i \in a .. b PROVE r.data[i] \in Nat
    OBVIOUS
  <2>1. i \in 1 .. Len(r.data)
    BY <1>1, <1>2
  <2>2. QED
    BY <1>1, <2>1, ElementOfSeq
<1>6. /\ c \in Seq(Nat) /\ Len(c) = IF a <= b THEN b - a + 1 ELSE 0
      /\ \A i \in 1 .. b - a + 1 : c[i] = r.data[a + i - 1]
  BY <1>1, <1>2, <1>5, SubSeqProperties, SMTT(40)
<1> HIDE DEF c
<1>7. Len(c) = Len(s) /\ \A i \in 1 .. Len(s) : c[i] = s[i]
  BY <1>1, <1>2, <1>4, <1>6
<1>8. c = s
  BY <1>6, <1>7, SeqEqual
<1>9. QED
  BY <1>3, <1>8

LEMMA NumberIs ==
  ASSUME NEW r \in NodeReaders, NEW full \in Seq(Nat), CutOf(r.data, full),
         NEW off \in Nat, NEW v \in Nat, NEW w \in Nat, v < Power[w],
         Holds(full, r.pos + off, LittleEndian(v, w)), Need(r, off + w)
  PROVE  Number(r, off, w) = v
<1> DEFINE s == LittleEndian(v, w)
<1>1. s \in Seq(Nat) /\ Len(s) = w /\ FromLittleEndian(s) = v
  BY LittleEndianBytes, NumberComesBack
<1> HIDE DEF s
<1>2. Chunk(r, off, Len(s)) = s
  BY <1>1, ChunkIs DEF s
<1>3. QED
  BY <1>1, <1>2 DEF Number

LEMMA ByteIs ==
  ASSUME NEW r \in NodeReaders, NEW full \in Seq(Nat), CutOf(r.data, full),
         NEW off \in Nat, NEW b \in Nat,
         Holds(full, r.pos + off, <<b>>), Need(r, off + 1)
  PROVE  Number(r, off, 1) = b
<1> DEFINE s == <<b>>
           none == <<>>
<1>1. s \in Seq(Nat) /\ Len(s) = 1 /\ s = s \o none
  OBVIOUS
<1>2. none \in Seq(Nat) /\ FromLittleEndian(none) = 0
  BY FromNoBytes
<1>3. FromLittleEndian(s \o none) = b + ByteSize * FromLittleEndian(none)
  BY <1>2, FromMoreBytes
<1>4. ByteSize * 0 = 0
  BY SizesAssumption
<1>5. FromLittleEndian(s) = b
  <2>1. FromLittleEndian(s \o none) = b
    BY <1>2, <1>3, <1>4
  <2> HIDE DEF s, none
  <2>2. s \o none = s
    BY <1>1
  <2>3. QED
    BY <2>1, <2>2
<1> HIDE DEF s, none
<1>6. Chunk(r, off, Len(s)) = s
  BY <1>1, ChunkIs DEF s
<1>7. QED
  BY <1>1, <1>5, <1>6 DEF Number

(* A number that is not there is zero. *)
LEMMA NumberOfNothing ==
  ASSUME NEW r, NEW off, NEW w, ~Need(r, off + w)
  PROVE  Number(r, off, w) = 0
BY FromNoBytes DEF Number, Chunk

LEMMA TextIs ==
  ASSUME NEW r \in NodeReaders, NEW full \in Seq(Nat), CutOf(r.data, full),
         NEW off \in Nat, NEW s \in Seq(Nat), NEW w \in Nat, Len(s) < Power[w],
         Holds(full, r.pos + off, Prefixed(s, w))
  PROVE  /\ Need(r, off + w + Len(s)) =>
              /\ TextSize(r, off, w) = off + w + Len(s)
              /\ Text(r, off, w) = s
         /\ ~Need(r, off + w + Len(s)) => ~Need(r, TextSize(r, off, w))
<1> DEFINE n == Len(s)
           digits == LittleEndian(n, w)
<1>1. n \in Nat
  OBVIOUS
<1>2. digits \in Seq(Nat) /\ Len(digits) = w
  BY <1>1, LittleEndianBytes
<1>3. r.pos \in Nat /\ r.pos + off \in Nat /\ r.pos + off + w = r.pos + (off + w)
  BY ReaderFields
<1>4. Holds(full, r.pos + off, digits) /\ Holds(full, r.pos + (off + w), s)
  <2> HIDE DEF digits, n
  <2>1. Holds(full, r.pos + off, digits \o s)
    BY DEF Prefixed, digits, n
  <2>2. QED
    BY <1>2, <1>3, <2>1, HoldsBoth
<1> HIDE DEF n
<1>5. Need(r, off + w) => Number(r, off, w) = n
  BY <1>1, <1>4, NumberIs DEF n
<1>6. ~Need(r, off + w) => Number(r, off, w) = 0
  BY NumberOfNothing
<1>7. CASE Need(r, off + w + n)
  <2>1. Need(r, off + w)
    BY <1>1, <1>7, NeedLess
  <2>2. Chunk(r, off + w, n) = s
    BY <1>4, <1>7, ChunkIs DEF n
  <2>3. QED
    BY <1>5, <1>7, <2>1, <2>2 DEF Text, TextSize, n
<1>8. CASE ~Need(r, off + w + n)
  <2>1. CASE Need(r, off + w)
    BY <1>5, <1>8, <2>1 DEF TextSize, n
  <2>2. CASE ~Need(r, off + w)
    <3>1. TextSize(r, off, w) = off + w
      BY <1>6, <2>2 DEF TextSize
    <3>2. QED
      BY <1>8, <2>2, <3>1 DEF n
  <2>3. QED
    BY <2>1, <2>2
<1>9. QED
  BY <1>7, <1>8 DEF n

-----------------------------------------------------------------------------
(***************************************************************************)
(* Each kind of node is read as it was written: the scalars.               *)
(***************************************************************************)
(* v is read of the n bytes that begin at r, or their lack is told. *)
ReadsAs(r, v, n) ==
  LET node == DecodeNode(r)
  IN  /\ Need(r, n) => node.ok = TRUE /\ node.v = v /\ node.r = Past(r, n)
      /\ ~Need(r, n) => node.r.fail = TRUE

LEMMA ReadsWhole ==
  ASSUME NEW r \in NodeReaders, NEW v, NEW n \in Nat, n > 0,
         Need(r, n) => /\ NodeSize(r) = n /\ NodeValue(r) = v
                       /\ Number(r, 0, 1) \in wireNone .. wireObject,
         Need(r, 1) /\ ~Need(r, n) => ~Need(r, NodeSize(r))
  PROVE  ReadsAs(r, v, n)
<1>1. NodeSize(r) \in Nat
  BY NodeSizeNat
<1> DEFINE m == NodeSize(r)
<1>2. /\ m \in Nat /\ (Need(r, n) => m = n)
      /\ Need(r, 1) /\ ~Need(r, n) => ~Need(r, m)
      /\ DecodeNode(r).r = IF Need(r, 1) THEN Past(r, m) ELSE Past(r, 1)
  BY <1>1, DecodesPast
<1>3. Need(r, 1) /\ ~Past(r, m).fail =>
        /\ DecodeNode(r).ok = IF Number(r, 0, 1) \in wireNone .. wireObject
                              THEN TRUE ELSE FALSE
        /\ DecodeNode(r).v = NodeValue(r)
  BY DecodesTo
<1> HIDE DEF m
<1>4. /\ Past(r, m).fail = ~Need(r, m)
      /\ Past(r, 1).fail = ~Need(r, 1)
  BY <1>2, PastBytes
<1>5. Need(r, n) => Need(r, 1)
  BY NeedLess
<1>6. CASE Need(r, n)
  <2>1. Need(r, 1) /\ ~Past(r, m).fail /\ Past(r, m) = Past(r, n)
    BY <1>2, <1>4, <1>5, <1>6
  <2>2. DecodeNode(r).ok = TRUE /\ DecodeNode(r).v = v
    BY <1>3, <1>6, <2>1
  <2>3. QED
    BY <1>2, <1>6, <2>1, <2>2 DEF ReadsAs
<1>7. CASE ~Need(r, n)
  BY <1>2, <1>4, <1>7 DEF ReadsAs
<1>8. QED
  BY <1>6, <1>7

(* The tag comes first. *)
LEMMA TagIs ==
  ASSUME NEW r \in NodeReaders, NEW full \in Seq(Nat), CutOf(r.data, full),
         NEW tag \in Nat, NEW rest \in Seq(Nat), Holds(full, r.pos, <<tag>> \o rest)
  PROVE  /\ Need(r, 1) => Number(r, 0, 1) = tag
         /\ Holds(full, r.pos + 1, rest)
         /\ Len(<<tag>> \o rest) = 1 + Len(rest)
<1> DEFINE t == <<tag>>
<1>1. t \in Seq(Nat) /\ Len(t) = 1 /\ Len(t \o rest) = 1 + Len(rest)
  OBVIOUS
<1>2. r.pos \in Nat /\ r.pos + 0 = r.pos
  BY ReaderFields
<1> HIDE DEF t
<1>3. Holds(full, r.pos, t) /\ Holds(full, r.pos + 1, rest)
  BY <1>1, <1>2, HoldsBoth DEF t
<1>4. Need(r, 1) => Number(r, 0, 1) = tag
  BY <1>2, <1>3, ByteIs DEF t
<1>5. QED
  BY <1>1, <1>3, <1>4 DEF t

LEMMA FlagBytes ==
  ASSUME NEW b \in BOOLEAN
  PROVE  /\ Flag(b) \in Seq(Nat) /\ Len(Flag(b)) = 1
         /\ Flag(b) = <<IF b THEN 1 ELSE 0>>
BY DEF Flag

LEMMA PrefixedBytes ==
  ASSUME NEW s \in Seq(Nat), NEW w \in Nat
  PROVE  Prefixed(s, w) \in Seq(Nat) /\ Len(Prefixed(s, w)) = w + Len(s)
<1> DEFINE digits == LittleEndian(Len(s), w)
<1>1. digits \in Seq(Nat) /\ Len(digits) = w
  BY LittleEndianBytes, SMTT(40)
<1> HIDE DEF digits
<1>2. digits \o s \in Seq(Nat) /\ Len(digits \o s) = w + Len(s)
  BY <1>1
<1>3. QED
  BY <1>2 DEF Prefixed, digits

(* The bytes of a text are natural numbers. *)
LEMMA TextBytes ==
  ASSUME NEW s, NEW w, IsText(s, w)
  PROVE  s \in Seq(Nat) /\ Len(s) < Power[w]
<1>1. Byte \subseteq Nat
  BY SizesAssumption DEF Byte
<1>2. s \in Seq(Byte) /\ Len(s) < Power[w]
  BY DEF IsText
<1>3. \A i \in 1 .. Len(s) : s[i] \in Nat
  BY <1>1, <1>2, ElementOfSeq
<1>4. s \in Seq(Nat)
  BY <1>2, <1>3
<1>5. QED
  BY <1>2, <1>4

(* The two's complement of an int64 comes back as it was. *)
LEMMA Int64ComesBack ==
  ASSUME NEW n \in Int, IsInt64(n)
  PROVE  n % WordSize \in Word /\ Signed(n % WordSize, WordSize) = n
<1> DEFINE W == WordSize
<1>1. W \in Nat /\ W > 127
  BY PowerNat, SizesAssumption DEF WordSize
<1> HIDE DEF W
<1> DEFINE half == W \div 2
<1>2. half \in Nat /\ half > 0 /\ 2 * half <= W /\ W <= 2 * half + 1
  BY <1>1
<1> HIDE DEF half
<1>3. -half <= n /\ n < half
  BY DEF IsInt64, half, W
<1>4. CASE n >= 0
  <2>1. n \in Nat /\ W * 0 + n = n /\ n \in 0 .. W - 1 /\ W \in Nat \ {0}
    BY <1>1, <1>2, <1>3, <1>4
  <2>2. n % W = n
    BY <2>1, QuotientIs
  <2>3. QED
    BY <1>3, <2>1, <2>2 DEF Signed, Word, half, W
<1>5. CASE n < 0
  <2>1. n % W = n + W
    BY <1>1, <1>2, <1>3, <1>5
  <2>2. n + W \in 0 .. W - 1 /\ ~(n + W < half)
    BY <1>1, <1>2, <1>3, <1>5
  <2>3. QED
    BY <1>1, <2>1, <2>2 DEF Signed, Word, half, W
<1>6. QED
  BY <1>3, <1>4, <1>5, <1>2

LEMMA WordNat ==
  /\ WordSize \in Nat /\ WordSize > 127 /\ HalfSize \in Nat /\ HalfSize > 15
  /\ Word \subseteq Nat /\ \A v \in Word : v < Power[WordBytes]
BY PowerNat, SizesAssumption DEF WordSize, HalfSize, Word

-----------------------------------------------------------------------------
USE DEF wireNone, wireBool, wireInt, wireBigInt, wireFloat, wireComplex,
        wireStr, wireBytes, wireObject

LEMMA NoneIsRead ==
  ASSUME NEW r \in NodeReaders, NEW full \in Seq(Nat), CutOf(r.data, full),
         Holds(full, r.pos, <<wireNone>>)
  PROVE  ReadsAs(r, NoneValue, 1)
<1>1. r.pos + 0 = r.pos
  BY ReaderFields
<1>2. Need(r, 1) => Number(r, 0, 1) = wireNone
  BY <1>1, ByteIs
<1>3. Need(r, 1) => NodeSize(r) = 1 /\ NodeValue(r) = NoneValue
  BY <1>2 DEF NodeSize, NodeValue
<1>4. QED
  BY <1>2, <1>3, ReadsWhole

LEMMA BoolIsRead ==
  ASSUME NEW r \in NodeReaders, NEW full \in Seq(Nat), CutOf(r.data, full),
         NEW b \in BOOLEAN, Holds(full, r.pos, <<wireBool>> \o Flag(b))
  PROVE  ReadsAs(r, BoolValue(b), 2)
<1> DEFINE bit == IF b THEN 1 ELSE 0
<1>1. Flag(b) \in Seq(Nat) /\ Len(Flag(b)) = 1 /\ Flag(b) = <<bit>>
  BY FlagBytes
<1>2. /\ Need(r, 1) => Number(r, 0, 1) = wireBool
      /\ Holds(full, r.pos + 1, <<bit>>)
  BY <1>1, TagIs
<1>3. Need(r, 1) => NodeSize(r) = 2
  BY <1>2 DEF NodeSize
<1>4. Need(r, 2) => Need(r, 1)
  BY NeedLess
<1>5. Need(r, 2) => Number(r, 1, 1) = bit
  <2>1. bit \in Nat /\ 1 + 1 = 2
    OBVIOUS
  <2> HIDE DEF bit
  <2>2. QED
    BY <1>2, <2>1, ByteIs
<1>6. Need(r, 2) => NodeValue(r) = BoolValue(b)
  <2>1. (bit # 0) = b
    OBVIOUS
  <2> HIDE DEF bit
  <2>2. Need(r, 2) => NodeValue(r) = BoolOf(bit)
    BY <1>2, <1>4, <1>5 DEF NodeValue
  <2>3. BoolOf(bit) = BoolValue(b)
    BY <2>1 DEF BoolOf
  <2>4. QED
    BY <2>2, <2>3
<1>7. QED
  BY <1>2, <1>3, <1>4, <1>6, ReadsWhole

(* A node that is a tag and a word. *)
LEMMA WordIsRead ==
  ASSUME NEW r \in NodeReaders, NEW full \in Seq(Nat), CutOf(r.data, full),
         NEW tag \in {wireInt, wireFloat}, NEW u \in Word,
         Holds(full, r.pos, <<tag>> \o LittleEndian(u, WordBytes))
  PROVE  ReadsAs(r, IF tag = wireInt THEN IntOf(u) ELSE FloatValue(u),
                 1 + WordBytes)
<1> DEFINE digits == LittleEndian(u, WordBytes)
           n == 1 + WordBytes
           v == IF tag = wireInt THEN IntOf(u) ELSE FloatValue(u)
<1>1. u \in Nat /\ u < Power[WordBytes] /\ WordBytes \in Nat
  BY WordNat, Sizes
<1>2. digits \in Seq(Nat) /\ Len(digits) = WordBytes
  BY <1>1, LittleEndianBytes
<1>3. (Need(r, 1) => Number(r, 0, 1) = tag) /\ Holds(full, r.pos + 1, digits)
  <2>1. tag \in Nat
    OBVIOUS
  <2> HIDE DEF digits
  <2>2. Holds(full, r.pos, <<tag>> \o digits)
    BY DEF digits
  <2>3. QED
    BY <1>2, <2>1, <2>2, TagIs
<1>4. n \in Nat /\ n > 0 /\ (Need(r, n) => Need(r, 1))
  BY <1>1, NeedLess
<1>5. Need(r, 1) => NodeSize(r) = n
  BY <1>3 DEF NodeSize
<1>6. Need(r, n) => Number(r, 1, WordBytes) = u
  BY <1>1, <1>3, NumberIs
<1>7. Need(r, n) => NodeValue(r) = v
  <2> HIDE DEF n
  <2>1. Need(r, n) => Number(r, 0, 1) = tag /\ Number(r, 1, WordBytes) = u
    BY <1>3, <1>4, <1>6
  <2>2. QED
    BY <2>1 DEF NodeValue
<1> HIDE DEF n, v
<1>8. tag \in wireNone .. wireObject
  OBVIOUS
<1>9. ReadsAs(r, v, n)
  BY <1>3, <1>4, <1>5, <1>7, <1>8, ReadsWhole
<1>10. QED
  BY <1>9 DEF n, v

LEMMA ComplexIsRead ==
  ASSUME NEW r \in NodeReaders, NEW full \in Seq(Nat), CutOf(r.data, full),
         NEW re \in Word, NEW im \in Word,
         Holds(full, r.pos, <<wireComplex>> \o LittleEndian(re, WordBytes)
                                           \o LittleEndian(im, WordBytes))
  PROVE  ReadsAs(r, ComplexValue(<<re, im>>), 1 + 2 * WordBytes)
<1> DEFINE first == LittleEndian(re, WordBytes)
           second == LittleEndian(im, WordBytes)
           front == <<wireComplex>> \o first
           w == WordBytes
           n == 1 + 2 * w
<1>1. /\ re \in Nat /\ im \in Nat /\ re < Power[w] /\ im < Power[w]
      /\ w \in Nat
  BY WordNat, Sizes
<1>2. /\ first \in Seq(Nat) /\ Len(first) = w
      /\ second \in Seq(Nat) /\ Len(second) = w
  BY <1>1, LittleEndianBytes
<1>3. Holds(full, r.pos, front \o second)
  OBVIOUS
<1>4. r.pos \in Nat
  BY ReaderFields
<1> HIDE DEF first, second, w
<1>5. front \in Seq(Nat) /\ Len(front) = 1 + w
  BY <1>2
<1>6. Holds(full, r.pos, front) /\ Holds(full, r.pos + (1 + w), second)
  <2> HIDE DEF front
  <2>1. QED
    BY <1>2, <1>3, <1>4, <1>5, HoldsBoth
<1>7. (Need(r, 1) => Number(r, 0, 1) = wireComplex) /\ Holds(full, r.pos + 1, first)
  BY <1>2, <1>6, TagIs
<1>8. n \in Nat /\ n > 0 /\ 1 + w \in Nat /\ 1 + w <= n /\ (1 + w) + w = n
  BY <1>1
<1> HIDE DEF n
<1>9. Need(r, n) => Need(r, 1) /\ Need(r, 1 + w)
  BY <1>1, <1>8, NeedLess
<1>10. Need(r, n) => Number(r, 1, w) = re
  BY <1>1, <1>7, <1>9, NumberIs DEF first, w
<1>11. Need(r, n) => Number(r, 1 + w, w) = im
  <2> DEFINE off == 1 + w
  <2>1. off \in Nat /\ off + w = n /\ Holds(full, r.pos + off, second)
    BY <1>6, <1>8
  <2> HIDE DEF off
  <2>2. Need(r, n) => Number(r, off, w) = im
    BY <1>1, <2>1, NumberIs DEF second, w
  <2>3. QED
    BY <2>2 DEF off
<1>12. Need(r, 1) => NodeSize(r) = n
  BY <1>7 DEF NodeSize, n, w
<1>13. Need(r, n) => NodeValue(r) = ComplexOf(re, im)
  BY <1>7, <1>9, <1>10, <1>11 DEF NodeValue, w
<1>14. ReadsAs(r, ComplexOf(re, im), n)
  BY <1>7, <1>8, <1>9, <1>12, <1>13, ReadsWhole
<1>15. QED
  BY <1>14 DEF ComplexOf, n, w

(* A node that is a tag and a text. *)
LEMMA TextIsRead ==
  ASSUME NEW r \in NodeReaders, NEW full \in Seq(Nat), CutOf(r.data, full),
         NEW tag \in {wireStr, wireBytes}, NEW s, IsText(s, HalfBytes),
         Holds(full, r.pos, <<tag>> \o LenBytes(s))
  PROVE  ReadsAs(r, IF tag = wireStr THEN StrValue(s) ELSE BytesValue(s),
                 1 + HalfBytes + Len(s))
<1> DEFINE bytes == LenBytes(s)
           n == 1 + HalfBytes + Len(s)
           v == IF tag = wireStr THEN StrValue(s) ELSE BytesValue(s)
<1>1. s \in Seq(Nat) /\ Len(s) < Power[HalfBytes] /\ HalfBytes \in Nat
  BY TextBytes, Sizes
<1>2. bytes \in Seq(Nat) /\ Len(s) \in Nat
  BY <1>1, PrefixedBytes DEF LenBytes
<1>3. (Need(r, 1) => Number(r, 0, 1) = tag) /\ Holds(full, r.pos + 1, bytes)
  <2>1. tag \in Nat
    OBVIOUS
  <2> HIDE DEF bytes
  <2>2. Holds(full, r.pos, <<tag>> \o bytes)
    BY DEF bytes
  <2>3. QED
    BY <1>2, <2>1, <2>2, TagIs
<1>4. n \in Nat /\ n > 0 /\ (Need(r, n) => Need(r, 1))
  BY <1>1, <1>2, NeedLess
<1>5. /\ Need(r, n) => TextSize(r, 1, HalfBytes) = n /\ Text(r, 1, HalfBytes) = s
      /\ ~Need(r, n) => ~Need(r, TextSize(r, 1, HalfBytes))
  BY <1>1, <1>3, TextIs DEF LenBytes
<1> HIDE DEF n
<1>6. Need(r, 1) => NodeSize(r) = TextSize(r, 1, HalfBytes)
  BY <1>3 DEF NodeSize
<1>7. Need(r, n) => NodeValue(r) = v
  <2>1. Need(r, n) => Number(r, 0, 1) = tag /\ Text(r, 1, HalfBytes) = s
    BY <1>3, <1>4, <1>5
  <2>2. QED
    BY <2>1 DEF NodeValue
<1>8. tag \in wireNone .. wireObject
  OBVIOUS
<1> HIDE DEF v
<1>9. ReadsAs(r, v, n)
  BY <1>3, <1>4, <1>5, <1>6, <1>7, <1>8, ReadsWhole
<1>10. QED
  BY <1>9 DEF n, v

-----------------------------------------------------------------------------
(***************************************************************************)
(* The kinds that hold a length: texts, bytes, big integers.               *)
(***************************************************************************)
LEMMA Joined ==
  ASSUME NEW s \in Seq(Nat), NEW t \in Seq(Nat)
  PROVE  s \o t \in Seq(Nat) /\ Len(s \o t) = Len(s) + Len(t)
         /\ Len(s) \in Nat /\ Len(t) \in Nat
OBVIOUS

LEMMA Appended ==
  ASSUME NEW b \in Nat, NEW s \in Seq(Nat)
  PROVE  <<b>> \o s \in Seq(Nat) /\ Len(<<b>> \o s) = 1 + Len(s)
OBVIOUS

(* The magnitude of a big integer, and its sign. *)
LEMMA MagnitudeBytes ==
  ASSUME NEW n, IsBigInt(n)
  PROVE  /\ n \in Int /\ Absolute(n) \in Nat
         /\ Magnitude[Absolute(n)] \in Seq(Nat)
         /\ Len(Magnitude[Absolute(n)]) < Power[HalfBytes]
         /\ FromLittleEndian(Magnitude[Absolute(n)]) = Absolute(n)
         /\ n = IF n < 0 THEN -Absolute(n) ELSE Absolute(n)
<1>1. n \in Int /\ Len(Magnitude[Absolute(n)]) < Power[HalfBytes]
  BY DEF IsBigInt, HalfSize
<1>2. Absolute(n) \in Nat /\ n = IF n < 0 THEN -Absolute(n) ELSE Absolute(n)
  BY <1>1 DEF Absolute
<1>3. QED
  BY <1>1, <1>2, MagnitudeIs, MagnitudeComesBack

LEMMA BigIsRead ==
  ASSUME NEW r \in NodeReaders, NEW full \in Seq(Nat), CutOf(r.data, full),
         NEW n, IsBigInt(n), Holds(full, r.pos, BigIntNode(n))
  PROVE  ReadsAs(r, IntValue(n, ~IsInt64(n)),
                 2 + HalfBytes + Len(Magnitude[Absolute(n)]))
<1> DEFINE s == Magnitude[Absolute(n)]
           a == Absolute(n)
           sign == IF n < 0 THEN 1 ELSE 0
           front == <<wireBigInt>> \o Flag(n < 0)
           bytes == LenBytes(s)
           size == 2 + HalfBytes + Len(s)
<1>1. /\ n \in Int /\ a \in Nat /\ s \in Seq(Nat) /\ Len(s) < Power[HalfBytes]
      /\ FromLittleEndian(s) = a /\ n = IF n < 0 THEN -a ELSE a
  BY MagnitudeBytes
<1>2. /\ Flag(n < 0) \in Seq(Nat) /\ Len(Flag(n < 0)) = 1
      /\ Flag(n < 0) = <<sign>>
  BY DEF Flag
<1>3. HalfBytes \in Nat /\ Len(s) \in Nat /\ r.pos \in Nat
  BY <1>1, Sizes, ReaderFields
<1>4. bytes \in Seq(Nat)
  BY <1>1, <1>3, PrefixedBytes DEF LenBytes
<1>5. Holds(full, r.pos, front \o bytes)
  BY DEF BigIntNode
<1> HIDE DEF s, a, bytes
<1>6. front \in Seq(Nat) /\ Len(front) = 2
  <2> DEFINE f == Flag(n < 0)
  <2>1. f \in Seq(Nat) /\ Len(f) = 1
    BY <1>2
  <2> HIDE DEF f
  <2>2. front \in Seq(Nat) /\ Len(front) = 1 + Len(f)
    BY <2>1, Appended DEF f
  <2>3. QED
    BY <2>1, <2>2
<1>7. Holds(full, r.pos, front) /\ Holds(full, r.pos + 2, bytes)
  <2> HIDE DEF front
  <2>1. QED
    BY <1>3, <1>4, <1>5, <1>6, HoldsBoth
<1>8. (Need(r, 1) => Number(r, 0, 1) = wireBigInt) /\ Holds(full, r.pos + 1, <<sign>>)
  BY <1>2, <1>7, TagIs
<1>9. size \in Nat /\ size > 0 /\ 2 <= size /\ 1 <= size /\ 1 + 1 = 2
  BY <1>3
<1>10. /\ Need(r, size) => /\ TextSize(r, 2, HalfBytes) = size
                           /\ Text(r, 2, HalfBytes) = s
       /\ ~Need(r, size) => ~Need(r, TextSize(r, 2, HalfBytes))
  BY <1>1, <1>3, <1>7, TextIs DEF LenBytes, bytes
<1> HIDE DEF size
<1>11. Need(r, size) => Need(r, 1) /\ Need(r, 2)
  BY <1>9, NeedLess
<1>12. Need(r, size) => Number(r, 1, 1) = sign
  <2>1. sign \in Nat
    OBVIOUS
  <2> HIDE DEF sign
  <2>2. QED
    BY <1>8, <1>9, <1>11, <2>1, ByteIs
<1>13. Need(r, 1) => NodeSize(r) = TextSize(r, 2, HalfBytes)
  BY <1>8 DEF NodeSize
<1>14. Need(r, size) => NodeValue(r) = BigOf(sign, a)
  BY <1>1, <1>8, <1>10, <1>11, <1>12 DEF NodeValue
<1>15. BigOf(sign, a) = IntValue(n, ~IsInt64(n))
  <2>1. BigOf(sign, a) = intFromBig(n)
    BY <1>1 DEF BigOf
  <2>2. intFromBig(n) = IntValue(n, ~IsInt64(n))
    <3>1. IsInt64(n) \in BOOLEAN
      BY DEF IsInt64
    <3>2. QED
      BY <3>1 DEF intFromBig
  <2>3. QED
    BY <2>1, <2>2
<1> HIDE DEF sign
<1>16. ReadsAs(r, IntValue(n, ~IsInt64(n)), size)
  BY <1>8, <1>9, <1>10, <1>11, <1>13, <1>14, <1>15, ReadsWhole
<1>17. QED
  BY <1>16 DEF size, s

LEMMA BigBytes ==
  ASSUME NEW n, IsBigInt(n)
  PROVE  /\ BigIntNode(n) \in Seq(Nat)
         /\ Len(BigIntNode(n)) = 2 + HalfBytes + Len(Magnitude[Absolute(n)])
<1> DEFINE s == Magnitude[Absolute(n)]
           bytes == LenBytes(s)
<1>1. s \in Seq(Nat) /\ n \in Int
  BY MagnitudeBytes
<1>2. bytes \in Seq(Nat) /\ Len(bytes) = HalfBytes + Len(s) /\ HalfBytes \in Nat
  BY <1>1, PrefixedBytes, Sizes DEF LenBytes
<1>3. Flag(n < 0) \in Seq(Nat) /\ Len(Flag(n < 0)) = 1
  BY DEF Flag
<1> DEFINE f == Flag(n < 0)
<1> DEFINE front == <<wireBigInt>> \o f
           node  == BigIntNode(n)
<1>4. node = front \o bytes
  BY DEF BigIntNode
<1>6. Len(s) \in Nat
  BY <1>1
<1>8. f \in Seq(Nat) /\ Len(f) = 1
  BY <1>3
<1> HIDE DEF s, bytes, f, node
<1>9. front \in Seq(Nat) /\ Len(front) = 2
  <2>1. front \in Seq(Nat) /\ Len(front) = 1 + Len(f)
    BY <1>8, Appended
  <2> HIDE DEF front
  <2>2. QED
    BY <1>8, <2>1
<1> HIDE DEF front
<1>5. node \in Seq(Nat) /\ Len(node) = 2 + Len(bytes)
  BY <1>2, <1>4, <1>9, Joined
<1>7. Len(node) = 2 + HalfBytes + Len(s)
  BY <1>2, <1>5, <1>6
<1>10. QED
  BY <1>5, <1>7 DEF s, node

LEMMA ObjectIsRead ==
  ASSUME NEW r \in NodeReaders, NEW full \in Seq(Nat), CutOf(r.data, full),
         NEW id \in Word, NEW of \in Nat, NEW callable \in BOOLEAN,
         NEW name, IsText(name, ShortBytes),
         NEW v, v = ObjectValue(id, of, callable, name),
         Holds(full, r.pos, ObjectNode(v, name))
  PROVE  /\ ReadsAs(r, v, Len(ObjectNode(v, name)))
<1> DEFINE digits == LittleEndian(id, WordBytes)
           bit == IF callable THEN 1 ELSE 0
           flag == Flag(callable)
           bytes == Prefixed(name, ShortBytes)
           a == <<wireObject>> \o digits
           b == a \o <<of>>
           c == b \o flag
           w == WordBytes
           size == 3 + w + ShortBytes + Len(name)
           node == ObjectNode(v, name)
<1>1. /\ name \in Seq(Nat) /\ Len(name) < Power[ShortBytes] /\ Len(name) \in Nat
      /\ ShortBytes \in Nat /\ w \in Nat
      /\ id \in Nat /\ id < Power[w]
  BY TextBytes, Sizes, WordNat
<1>2. /\ digits \in Seq(Nat) /\ Len(digits) = w
      /\ bytes \in Seq(Nat) /\ Len(bytes) = ShortBytes + Len(name)
  BY <1>1, LittleEndianBytes, PrefixedBytes
<1>3. flag \in Seq(Nat) /\ Len(flag) = 1 /\ flag = <<bit>>
  BY FlagBytes
<1>4. node = c \o bytes /\ Holds(full, r.pos, node)
  BY DEF ObjectNode, ObjectValue
<1>5. r.pos \in Nat
  BY ReaderFields
<1> HIDE DEF digits, flag, bytes, w, node
<1>6. a \in Seq(Nat) /\ Len(a) = 1 + w
  BY <1>2
<1>7. b \in Seq(Nat) /\ Len(b) = 2 + w
  <2> HIDE DEF a
  <2>1. QED
    BY <1>1, <1>6
<1>8. c \in Seq(Nat) /\ Len(c) = 3 + w
  <2> HIDE DEF b
  <2>1. QED
    BY <1>1, <1>3, <1>7
<1>9. Len(node) = size
  <2> HIDE DEF c
  <2>1. Len(node) = Len(c) + Len(bytes)
    BY <1>2, <1>4, <1>8, Joined
  <2>2. QED
    BY <1>1, <1>2, <1>8, <2>1
<1>10. Holds(full, r.pos, c) /\ Holds(full, r.pos + (3 + w), bytes)
  <2> HIDE DEF c
  <2>1. QED
    BY <1>2, <1>4, <1>5, <1>8, HoldsBoth
<1>11. Holds(full, r.pos, b) /\ Holds(full, r.pos + (2 + w), <<bit>>)
  <2> HIDE DEF b
  <2>1. QED
    BY <1>3, <1>5, <1>7, <1>10, HoldsBoth
<1>12. Holds(full, r.pos, a) /\ Holds(full, r.pos + (1 + w), <<of>>)
  <2> HIDE DEF a
  <2>1. <<of>> \in Seq(Nat)
    OBVIOUS
  <2>2. QED
    BY <1>5, <1>6, <1>11, <2>1, HoldsBoth
<1>13. (Need(r, 1) => Number(r, 0, 1) = wireObject) /\ Holds(full, r.pos + 1, digits)
  BY <1>2, <1>12, TagIs
<1>14. /\ size \in Nat /\ size > 0
       /\ 1 + w \in Nat /\ 2 + w \in Nat /\ 3 + w \in Nat
       /\ 1 <= size /\ 1 + w <= size /\ 2 + w <= size /\ 3 + w <= size
       /\ (1 + w) + 1 = 2 + w /\ (2 + w) + 1 = 3 + w
  BY <1>1
<1>15. /\ Need(r, size) => /\ TextSize(r, 3 + w, ShortBytes) = size
                           /\ Text(r, 3 + w, ShortBytes) = name
       /\ ~Need(r, size) => ~Need(r, TextSize(r, 3 + w, ShortBytes))
  <2> DEFINE off == 3 + w
  <2>1. off \in Nat /\ off + ShortBytes + Len(name) = size
    BY <1>1, <1>14
  <2> HIDE DEF off, size
  <2>2. /\ Need(r, size) => /\ TextSize(r, off, ShortBytes) = size
                            /\ Text(r, off, ShortBytes) = name
        /\ ~Need(r, size) => ~Need(r, TextSize(r, off, ShortBytes))
    BY <1>1, <1>10, <2>1, TextIs DEF bytes, off
  <2>3. QED
    BY <2>2 DEF off
<1> HIDE DEF size
<1>16. Need(r, size) => Need(r, 1) /\ Need(r, 1 + w) /\ Need(r, 2 + w) /\ Need(r, 3 + w)
  BY <1>14, NeedLess
<1>17. Need(r, size) => Number(r, 1, w) = id
  BY <1>1, <1>13, <1>16, NumberIs DEF digits, w
<1>18. Need(r, size) => Number(r, 1 + w, 1) = of
  BY <1>12, <1>14, <1>16, ByteIs
<1>19. Need(r, size) => Number(r, 2 + w, 1) = bit
  <2>1. bit \in Nat
    OBVIOUS
  <2> HIDE DEF bit
  <2>2. QED
    BY <1>11, <1>14, <1>16, <2>1, ByteIs
<1>20. Need(r, 1) => NodeSize(r) = TextSize(r, 3 + w, ShortBytes)
  BY <1>13 DEF NodeSize, w
<1>21. ObjectOf(id, of, bit, name) = v
  <2>1. (bit % 2 = 1) = callable
    OBVIOUS
  <2> HIDE DEF bit
  <2>2. QED
    BY <2>1 DEF ObjectOf
<1> HIDE DEF bit
<1>22. Need(r, size) => NodeValue(r) = ObjectOf(id, of, bit, name)
  BY <1>13, <1>15, <1>16, <1>17, <1>18, <1>19 DEF NodeValue, w
<1>23. ReadsAs(r, v, size)
  BY <1>13, <1>14, <1>15, <1>16, <1>20, <1>21, <1>22, ReadsWhole
<1>24. QED
  BY <1>9, <1>23 DEF node

-----------------------------------------------------------------------------
(***************************************************************************)
(* Objects, and with them all values: what is written comes back.          *)
(***************************************************************************)
LEMMA ObjectBytes ==
  ASSUME NEW v, v.id \in Nat, v.of \in Nat, v.callable \in BOOLEAN,
         NEW name \in Seq(Nat)
  PROVE  ObjectNode(v, name) \in Seq(Nat) /\ Len(ObjectNode(v, name)) > 0
<1> DEFINE digits == LittleEndian(v.id, WordBytes)
           flag == Flag(v.callable)
           bytes == Prefixed(name, ShortBytes)
           of == v.of
           a == <<wireObject>> \o digits
           b == a \o <<of>>
           c == b \o flag
<1>1. digits \in Seq(Nat) /\ flag \in Seq(Nat) /\ bytes \in Seq(Nat)
  BY LittleEndianBytes, FlagBytes, PrefixedBytes, Sizes
<1>2. ObjectNode(v, name) = c \o bytes
  BY DEF ObjectNode
<1>3. of \in Nat
  OBVIOUS
<1> HIDE DEF digits, flag, bytes, of
<1>4. a \in Seq(Nat) /\ Len(a) = 1 + Len(digits) /\ Len(digits) \in Nat
  BY <1>1
<1> HIDE DEF a
<1>5. b \in Seq(Nat) /\ Len(b) = Len(a) + 1
  BY <1>3, <1>4
<1> HIDE DEF b
<1>6. c \in Seq(Nat) /\ Len(c) = Len(b) + Len(flag) /\ Len(flag) \in Nat
  BY <1>1, <1>5, Joined
<1> HIDE DEF c
<1>7. c \o bytes \in Seq(Nat) /\ Len(c \o bytes) = Len(c) + Len(bytes)
      /\ Len(bytes) \in Nat
  BY <1>1, <1>6, Joined
<1>8. QED
  BY <1>2, <1>4, <1>5, <1>6, <1>7

(* node stands for v: a reader that is at its beginning reads v of it, or  *)
(* tells that it is cut short.                                             *)
StandsFor(node, v) ==
  /\ node \in Seq(Nat) /\ Len(node) > 0
  /\ \A r \in NodeReaders : \A full \in Seq(Nat) :
       CutOf(r.data, full) /\ Holds(full, r.pos, node) =>
         ReadsAs(r, v, Len(node))

(* What is written of a value is read as that value (src/wire.go:62-136    *)
(* against 270-360): every kind, every number of its range, every text; if *)
(* the bytes end before the node does, that is told.                       *)
THEOREM NodesComeBack ==
  ASSUME NEW v, Encodable(v)
  PROVE  StandsFor(NodeOf(v), v)
<1> DEFINE node == NodeOf(v)
           ReadAs(x, n) == \A r \in NodeReaders : \A full \in Seq(Nat) :
                             CutOf(r.data, full) /\ Holds(full, r.pos, node) =>
                               ReadsAs(r, x, n)
           Told == /\ node \in Seq(Nat) /\ Len(node) > 0
                   /\ ReadAs(v, Len(node))
<1> SUFFICES Told
  BY DEF StandsFor
<1> HIDE DEF Told
<1>1. CASE v = NoneValue
  <2>1. node = <<wireNone>>
    BY <1>1 DEF NodeOf, encodeValue, NoneValue
  <2>2. <<wireNone>> \in Seq(Nat) /\ Len(<<wireNone>>) = 1
    OBVIOUS
  <2>3. ReadAs(v, 1)
    BY <1>1, <2>1, NoneIsRead
  <2> HIDE DEF node
  <2>4. QED
    BY <2>1, <2>2, <2>3 DEF Told, node
<1>2. CASE v.kind = "bool" /\ v = BoolValue(v.b) /\ v.b \in BOOLEAN
  <2> DEFINE flag == Flag(v.b)
  <2>1. node = <<wireBool>> \o flag
    BY <1>2 DEF NodeOf, encodeValue
  <2>2. flag \in Seq(Nat) /\ Len(flag) = 1
    BY <1>2, FlagBytes
  <2>3. ReadAs(v, 2)
    BY <1>2, <2>1, BoolIsRead
  <2> HIDE DEF flag, node
  <2>4. node \in Seq(Nat) /\ Len(node) = 1 + Len(flag)
    BY <2>1, <2>2, Appended
  <2>5. Len(node) = 2
    BY <2>2, <2>4
  <2>6. Len(node) > 0 /\ ReadAs(v, Len(node))
    BY <2>3, <2>5
  <2>7. QED
    BY <2>4, <2>6 DEF Told, node
<1>3. CASE v.kind = "int" /\ v = IntValue(v.n, ~IsInt64(v.n)) /\ IsBigInt(v.n)
  <2>1. v.big = ~IsInt64(v.n)
    BY <1>3 DEF IntValue
  <2>2. CASE v.big
    <3>1. node = BigIntNode(v.n)
      BY <1>3, <2>2 DEF NodeOf, encodeValue
    <3> HIDE DEF node
    <3>2. /\ BigIntNode(v.n) \in Seq(Nat)
          /\ Len(BigIntNode(v.n)) = 2 + HalfBytes + Len(Magnitude[Absolute(v.n)])
      BY <1>3, BigBytes
    <3>3. ReadAs(v, Len(BigIntNode(v.n)))
      BY <1>3, <3>1, <3>2, BigIsRead DEF node
    <3>4. Len(Magnitude[Absolute(v.n)]) \in Nat /\ HalfBytes \in Nat
      BY <1>3, MagnitudeBytes, Sizes
    <3> DEFINE size == Len(BigIntNode(v.n))
               k == Len(Magnitude[Absolute(v.n)])
    <3>5. size = 2 + HalfBytes + k /\ k \in Nat
      BY <3>2, <3>4
    <3> HIDE DEF size, k
    <3>6. size > 0
      BY <3>4, <3>5
    <3>7. QED
      BY <3>1, <3>2, <3>3, <3>6 DEF Told, node, size
  <2>3. CASE ~v.big
    <3> DEFINE u == v.n % WordSize
               digits == LittleEndian(u, WordBytes)
    <3>1. v.n \in Int /\ IsInt64(v.n)
      BY <1>3, <2>1, <2>3 DEF IsBigInt
    <3>2. u \in Word /\ Signed(u, WordSize) = v.n
      BY <3>1, Int64ComesBack
    <3>3. node = <<wireInt>> \o digits
      BY <1>3, <2>3 DEF NodeOf, encodeValue
    <3>4. digits \in Seq(Nat) /\ Len(digits) = WordBytes /\ WordBytes \in Nat
      BY <3>2, WordNat, Sizes, LittleEndianBytes
    <3>5. IntOf(u) = v
      <4>1. v = IntValue(v.n, FALSE)
        BY <1>3, <3>1
      <4> HIDE DEF u
      <4>2. QED
        BY <3>2, <4>1 DEF IntOf
    <3> HIDE DEF u
    <3>6. ReadAs(IntOf(u), 1 + WordBytes)
      <4> SUFFICES ASSUME NEW r \in NodeReaders, NEW full \in Seq(Nat),
                          CutOf(r.data, full), Holds(full, r.pos, node)
                   PROVE  ReadsAs(r, IntOf(u), 1 + WordBytes)
        OBVIOUS
      <4> DEFINE tag == wireInt
      <4>1. tag \in {wireInt, wireFloat} /\ tag = wireInt
        OBVIOUS
      <4>2. Holds(full, r.pos, <<tag>> \o digits)
        BY <3>3
      <4> HIDE DEF tag
      <4>3. ReadsAs(r, IF tag = wireInt THEN IntOf(u) ELSE FloatValue(u),
                    1 + WordBytes)
        BY <3>2, <4>1, <4>2, WordIsRead
      <4>4. QED
        BY <4>1, <4>3
    <3> HIDE DEF node, digits
    <3>7. node \in Seq(Nat) /\ Len(node) = 1 + Len(digits)
      BY <3>3, <3>4, Appended
    <3>8. Len(node) = 1 + WordBytes /\ Len(node) > 0
      BY <3>4, <3>7
    <3>9. QED
      BY <3>5, <3>6, <3>7, <3>8 DEF Told, node
  <2>4. QED
    BY <2>2, <2>3
<1>4. CASE v.kind = "float" /\ v = FloatValue(v.f) /\ v.f \in Word
  <2> DEFINE u == v.f
             digits == LittleEndian(u, WordBytes)
  <2>1. node = <<wireFloat>> \o digits
    BY <1>4 DEF NodeOf, encodeValue
  <2>2. digits \in Seq(Nat) /\ Len(digits) = WordBytes /\ WordBytes \in Nat
    BY <1>4, WordNat, Sizes, LittleEndianBytes
  <2>3. u \in Word /\ v = FloatValue(u)
    BY <1>4
  <2> HIDE DEF u
  <2>4. ReadAs(FloatValue(u), 1 + WordBytes)
    <3> SUFFICES ASSUME NEW r \in NodeReaders, NEW full \in Seq(Nat),
                        CutOf(r.data, full), Holds(full, r.pos, node)
                 PROVE  ReadsAs(r, FloatValue(u), 1 + WordBytes)
      OBVIOUS
    <3> DEFINE tag == wireFloat
    <3>1. tag \in {wireInt, wireFloat} /\ tag # wireInt
      OBVIOUS
    <3>2. Holds(full, r.pos, <<tag>> \o digits)
      BY <2>1
    <3> HIDE DEF tag
    <3>3. ReadsAs(r, IF tag = wireInt THEN IntOf(u) ELSE FloatValue(u),
                  1 + WordBytes)
      BY <2>3, <3>1, <3>2, WordIsRead
    <3>4. QED
      BY <3>1, <3>3
  <2> HIDE DEF node, digits
  <2>5. node \in Seq(Nat) /\ Len(node) = 1 + Len(digits)
    BY <2>1, <2>2, Appended
  <2>6. Len(node) = 1 + WordBytes /\ Len(node) > 0
    BY <2>2, <2>5
  <2>7. QED
    BY <2>3, <2>4, <2>5, <2>6 DEF Told, node
<1>5. CASE v.kind = "complex" /\ v = ComplexValue(v.c) /\ v.c \in Word \X Word
  <2> DEFINE re == v.c[1]
             im == v.c[2]
             first == LittleEndian(re, WordBytes)
             second == LittleEndian(im, WordBytes)
             front == <<wireComplex>> \o first
  <2>1. node = front \o second
    BY <1>5 DEF NodeOf, encodeValue
  <2>2. re \in Word /\ im \in Word /\ v = ComplexValue(<<re, im>>)
    BY <1>5
  <2>3. /\ first \in Seq(Nat) /\ Len(first) = WordBytes /\ WordBytes \in Nat
        /\ second \in Seq(Nat) /\ Len(second) = WordBytes
    BY <2>2, WordNat, Sizes, LittleEndianBytes
  <2>4. ReadAs(v, 1 + 2 * WordBytes)
    <3> SUFFICES ASSUME NEW r \in NodeReaders, NEW full \in Seq(Nat),
                        CutOf(r.data, full), Holds(full, r.pos, node)
                 PROVE  ReadsAs(r, v, 1 + 2 * WordBytes)
      OBVIOUS
    <3> HIDE DEF re, im
    <3>1. Holds(full, r.pos, <<wireComplex>> \o LittleEndian(re, WordBytes)
                                            \o LittleEndian(im, WordBytes))
      BY <2>1
    <3>2. QED
      BY <2>2, <3>1, ComplexIsRead
  <2> HIDE DEF node, first, second
  <2>5. front \in Seq(Nat) /\ Len(front) = 1 + Len(first)
    BY <2>3, Appended
  <2> HIDE DEF front
  <2>6. node \in Seq(Nat) /\ Len(node) = Len(front) + Len(second)
    BY <2>1, <2>3, <2>5, Joined
  <2>7. Len(node) = 1 + 2 * WordBytes /\ Len(node) > 0
    BY <2>3, <2>5, <2>6
  <2>8. QED
    BY <2>4, <2>6, <2>7 DEF Told, node
<1>6. ASSUME NEW tag \in {wireStr, wireBytes},
             v = IF tag = wireStr THEN StrValue(v.s) ELSE BytesValue(v.s),
             IsText(v.s, HalfBytes), node = <<tag>> \o LenBytes(v.s)
      PROVE  Told
  <2> DEFINE s == v.s
             bytes == LenBytes(s)
  <2>1. s \in Seq(Nat) /\ Len(s) \in Nat /\ HalfBytes \in Nat
    BY <1>6, TextBytes, Sizes
  <2>2. bytes \in Seq(Nat) /\ Len(bytes) = HalfBytes + Len(s)
    BY <2>1, PrefixedBytes DEF LenBytes
  <2>3. ReadAs(v, 1 + HalfBytes + Len(s))
    <3> SUFFICES ASSUME NEW r \in NodeReaders, NEW full \in Seq(Nat),
                        CutOf(r.data, full), Holds(full, r.pos, node)
                 PROVE  ReadsAs(r, v, 1 + HalfBytes + Len(s))
      OBVIOUS
    <3>1. ReadsAs(r, IF tag = wireStr THEN StrValue(s) ELSE BytesValue(s),
                  1 + HalfBytes + Len(s))
      BY <1>6, TextIsRead
    <3>2. QED
      BY <1>6, <3>1
  <2>4. node = <<tag>> \o bytes /\ tag \in Nat
    BY <1>6
  <2> HIDE DEF node, bytes, s
  <2>5. node \in Seq(Nat) /\ Len(node) = 1 + Len(bytes)
    BY <2>2, <2>4, Appended
  <2>6. Len(node) = 1 + HalfBytes + Len(s) /\ Len(node) > 0
    BY <2>1, <2>2, <2>5
  <2>7. QED
    BY <2>3, <2>5, <2>6 DEF Told, node
<1>7. CASE v.kind = "str" /\ v = StrValue(v.s) /\ IsText(v.s, HalfBytes)
  <2>1. node = <<wireStr>> \o LenBytes(v.s)
    BY <1>7 DEF NodeOf, encodeValue
  <2> HIDE DEF node
  <2>2. QED
    BY <1>6, <1>7, <2>1
<1>8. CASE v.kind = "bytes" /\ v = BytesValue(v.s) /\ IsText(v.s, HalfBytes)
  <2>1. node = <<wireBytes>> \o LenBytes(v.s)
    BY <1>8 DEF NodeOf, encodeValue
  <2> HIDE DEF node
  <2>2. QED
    BY <1>6, <1>8, <2>1
<1>9. CASE /\ v.kind = "object"
           /\ v = ObjectValue(v.id, v.of, v.callable, v.typeName)
           /\ v.id \in Word /\ v.of \in Byte /\ v.callable \in BOOLEAN
           /\ IsText(v.typeName, ShortBytes)
  <2>1. node = ObjectNode(v, v.typeName)
    BY <1>9 DEF NodeOf
  <2>2. /\ v.id \in Nat /\ v.of \in Nat /\ v.typeName \in Seq(Nat)
    <3>1. v.id \in Nat
      BY <1>9, WordNat
    <3>2. v.of \in Nat
      BY <1>9, SizesAssumption DEF Byte
    <3>3. v.typeName \in Seq(Nat)
      BY <1>9, TextBytes
    <3>4. QED
      BY <3>1, <3>2, <3>3
  <2> HIDE DEF node
  <2>3. node \in Seq(Nat) /\ Len(node) > 0
    BY <1>9, <2>1, <2>2, ObjectBytes
  <2>4. ReadAs(v, Len(node))
    <3> SUFFICES ASSUME NEW r \in NodeReaders, NEW full \in Seq(Nat),
                        CutOf(r.data, full), Holds(full, r.pos, node)
                 PROVE  ReadsAs(r, v, Len(node))
      OBVIOUS
    <3> DEFINE id == v.id
               of == v.of
               callable == v.callable
               name == v.typeName
    <3>1. /\ id \in Word /\ of \in Nat /\ callable \in BOOLEAN
          /\ IsText(name, ShortBytes)
          /\ v = ObjectValue(id, of, callable, name)
          /\ Holds(full, r.pos, ObjectNode(v, name))
      BY <1>9, <2>1, <2>2 DEF node
    <3>2. node = ObjectNode(v, name)
      BY <2>1
    <3> HIDE DEF id, of, callable, name
    <3>3. QED
      BY <3>1, <3>2, ObjectIsRead
  <2>5. QED
    BY <2>3, <2>4 DEF Told, node
<1>10. QED
  BY <1>1, <1>2, <1>3, <1>4, <1>5, <1>7, <1>8, <1>9 DEF Encodable

HIDE DEF wireNone, wireBool, wireInt, wireBigInt, wireFloat, wireComplex,
         wireStr, wireBytes, wireObject

-----------------------------------------------------------------------------
(***************************************************************************)
(* Bytes that are written one part after another.                          *)
(***************************************************************************)

(* The first k of the parts, one after another. *)
First(parts, k) == FlattenSeq(SubSeq(parts, 1, k))

(* How many bytes there are before the part with the number k + 1. *)
Before(parts, k) == Len(First(parts, k))

(* g[i] is what the first i parts are. *)
Flattens(parts, g) ==
  /\ g[1] = parts[1]
  /\ \A i \in 2 .. Len(parts) : g[i] = g[i - 1] \o parts[i]

LEMMA FlattenExists ==
  ASSUME NEW parts \in Seq(Seq(Nat)), Len(parts) > 0
  PROVE  \E g : Flattens(parts, g) /\ g[Len(parts)] = FlattenSeq(parts)
<1> DEFINE n == Len(parts)
           D == 1 .. n
           S == Seq(Nat)
           Is(f) == f = [i \in 1 .. n |-> IF i = 1 THEN parts[i]
                                          ELSE f[i - 1] \o parts[i]]
           size   == [i \in D |-> i]
           first  == [i \in {1} |-> parts[1]]
           before == [i \in D \ {1} |-> i - 1]
           step   == [p \in D \X S |-> p[2] \o parts[p[1]]]
<1>1. n \in Nat /\ n > 0 /\ \A i \in 1 .. n : parts[i] \in S
  BY ElementOfSeq
<1>2. PICK f \in [D -> S] : \A i \in D : f[i] = Rule(first, before, step, f, i)
  <2>1. /\ size \in [D -> Nat] /\ {1} \subseteq D
        /\ \A i \in D \ {1} : size[before[i]] < size[i]
        /\ before \in [D \ {1} -> D]
    <3> HIDE DEF n
    <3>1. QED
      BY <1>1
  <2>2. first \in [{1} -> S] /\ S # {}
    <3> HIDE DEF S
    <3>1. parts[1] \in S
      BY <1>1
    <3>2. QED
      BY <3>1
  <2>3. step \in [D \X S -> S]
    <3> SUFFICES ASSUME NEW p \in D \X S PROVE p[2] \o parts[p[1]] \in S
      OBVIOUS
    <3>1. p[2] \in S /\ parts[p[1]] \in S
      BY <1>1
    <3>2. QED
      BY <3>1
  <2> HIDE DEF D, S, size, first, before, step
  <2>4. Recursion(D, S, size, {1}, first, before, step)
    BY <2>1, <2>2, <2>3 DEF Recursion
  <2>5. QED
    BY <2>4, RecursionExists, SMTT(40)
<1>3. ASSUME NEW i \in 1 .. n
      PROVE  f[i] = IF i = 1 THEN parts[i] ELSE f[i - 1] \o parts[i]
  <2>1. f[i] = Rule(first, before, step, f, i)
    BY <1>2
  <2>2. CASE i = 1
    BY <2>1, <2>2 DEF Rule
  <2>3. CASE i # 1
    <3>1. i \notin DOMAIN first /\ before[i] = i - 1 /\ i - 1 \in D
      BY <1>1, <2>3
    <3>2. f[i] = step[<<i, f[i - 1]>>]
      BY <2>1, <3>1 DEF Rule
    <3> DEFINE s == f[i - 1]
    <3>3. s \in S
      BY <1>2, <3>1
    <3> HIDE DEF s
    <3>4. step[<<i, s>>] = s \o parts[i]
      BY <3>3
    <3>5. QED
      BY <2>3, <3>2, <3>4 DEF s
  <2>4. QED
    BY <2>2, <2>3
<1>4. Is(f)
  <2>1. f = [i \in 1 .. n |-> f[i]]
    BY <1>2
  <2>2. QED
    BY <1>3, <2>1
<1> DEFINE g == CHOOSE h : Is(h)
<1>5. Is(g)
  BY <1>4, ZenonT(40)
<1>6. FlattenSeq(parts) = g[n]
  BY <1>1 DEF FlattenSeq
<1> HIDE DEF g, n
<1>7. \A i \in 1 .. n : g[i] = IF i = 1 THEN parts[i] ELSE g[i - 1] \o parts[i]
  BY <1>5
<1>8. g[1] = parts[1] /\ \A i \in 2 .. n : g[i] = g[i - 1] \o parts[i]
  <2>1. 1 \in 1 .. n /\ \A i \in 2 .. n : i \in 1 .. n /\ i # 1
    BY <1>1
  <2>2. QED
    BY <1>7, <2>1
<1>9. Flattens(parts, g)
  BY <1>8 DEF Flattens, n
<1>10. QED
  BY <1>6, <1>9 DEF n

LEMMA FlattenIs ==
  ASSUME NEW parts \in Seq(Seq(Nat)), Len(parts) > 0,
         NEW g, Flattens(parts, g)
  PROVE  FlattenSeq(parts) = g[Len(parts)]
<1>1. PICK f : Flattens(parts, f) /\ f[Len(parts)] = FlattenSeq(parts)
  BY FlattenExists
<1> DEFINE n == Len(parts)
           P == {i \in Nat : i + 1 <= n => f[i + 1] = g[i + 1]}
<1>2. n \in Nat /\ n > 0
  OBVIOUS
<1>3. 0 \in P
  BY <1>1 DEF Flattens
<1>4. ASSUME NEW i \in Nat, i \in P PROVE i + 1 \in P
  <2> SUFFICES ASSUME (i + 1) + 1 <= n PROVE f[(i + 1) + 1] = g[(i + 1) + 1]
    OBVIOUS
  <2> DEFINE k == (i + 1) + 1
  <2>1. k \in 2 .. n /\ k - 1 = i + 1 /\ i + 1 <= n
    BY <1>2
  <2>2. f[k - 1] = g[k - 1]
    BY <1>4, <2>1
  <2>3. f[k] = f[k - 1] \o parts[k] /\ g[k] = g[k - 1] \o parts[k]
    BY <1>1, <2>1 DEF Flattens
  <2>4. QED
    BY <2>2, <2>3
<1> HIDE DEF P
<1>5. \A i \in Nat : i \in P
  BY <1>3, <1>4, AllNumbers
<1>6. n - 1 \in Nat /\ (n - 1) + 1 = n
  BY <1>2
<1> HIDE DEF n
<1>7. f[n] = g[n]
  <2>1. n - 1 \in P
    BY <1>5, <1>6
  <2>2. QED
    BY <1>2, <1>6, <2>1 DEF P
<1>8. QED
  BY <1>1, <1>7 DEF n

(* One part more. *)
LEMMA FirstParts ==
  ASSUME NEW parts \in Seq(Seq(Nat))
  PROVE  /\ First(parts, 0) = <<>> /\ First(parts, Len(parts)) = FlattenSeq(parts)
         /\ \A k \in 0 .. Len(parts) : First(parts, k) \in Seq(Nat)
         /\ \A k \in 0 .. Len(parts) - 1 :
              First(parts, k + 1) = First(parts, k) \o parts[k + 1]
<1> DEFINE n == Len(parts)
           S == Seq(Nat)
<1>1. n \in Nat /\ \A i \in 1 .. n : parts[i] \in Seq(Nat)
  BY ElementOfSeq
<1>2. First(parts, 0) = <<>>
  <2>1. SubSeq(parts, 1, 0) = <<>> /\ Len(<<>>) = 0
    OBVIOUS
  <2>2. QED
    BY <2>1 DEF First, FlattenSeq
<1>3. First(parts, n) = FlattenSeq(parts)
  <2>1. SubSeq(parts, 1, n) = parts
    OBVIOUS
  <2>2. QED
    BY <2>1 DEF First
<1>4. ASSUME n > 0
      PROVE  /\ \A k \in 0 .. n : First(parts, k) \in Seq(Nat)
             /\ \A k \in 0 .. n - 1 :
                  First(parts, k + 1) = First(parts, k) \o parts[k + 1]
  <2>1. PICK f : Flattens(parts, f)
    BY <1>4, FlattenExists
  <2>2. ASSUME NEW k \in 1 .. n PROVE First(parts, k) = f[k]
    <3> DEFINE some == SubSeq(parts, 1, k)
    <3>1. /\ some \in Seq(Seq(Nat)) /\ Len(some) = k
          /\ \A i \in 1 .. k : some[i] = parts[i]
      BY <1>1
    <3> HIDE DEF some, n
    <3>2. f[1] = parts[1] /\ \A i \in 2 .. n : f[i] = f[i - 1] \o parts[i]
      BY <2>1 DEF Flattens, n
    <3>6. k >= 1 /\ 1 \in 1 .. k /\ \A i \in 2 .. k : i \in 2 .. n /\ i \in 1 .. k
      BY <1>1
    <3>3. Flattens(some, f)
      <4>1. f[1] = some[1]
        BY <3>1, <3>2, <3>6
      <4>2. \A i \in 2 .. k : f[i] = f[i - 1] \o some[i]
        BY <3>1, <3>2, <3>6
      <4>3. QED
        BY <3>1, <4>1, <4>2 DEF Flattens
    <3>4. FlattenSeq(some) = f[k]
      <4>1. some \in Seq(Seq(Nat)) /\ Len(some) > 0
        BY <3>1, <3>6
      <4>2. FlattenSeq(some) = f[Len(some)]
        BY <4>1, <3>3, FlattenIs
      <4>3. QED
        BY <3>1, <4>2
    <3>5. QED
      BY <3>4 DEF First, some
  <2>3. \A k \in 0 .. n - 1 :
          First(parts, k + 1) = First(parts, k) \o parts[k + 1]
    <3> SUFFICES ASSUME NEW k \in 0 .. n - 1
                 PROVE  First(parts, k + 1) = First(parts, k) \o parts[k + 1]
      OBVIOUS
    <3>1. CASE k = 0
      <4>1. First(parts, 1) = f[1] /\ f[1] = parts[1]
        BY <1>1, <1>4, <2>1, <2>2 DEF Flattens
      <4>2. parts[1] \in Seq(Nat)
        BY <1>1, <1>4
      <4>3. <<>> \o parts[1] = parts[1]
        BY <4>2
      <4>4. QED
        BY <1>2, <3>1, <4>1, <4>3
    <3>2. CASE k # 0
      <4>1. k \in 1 .. n /\ k + 1 \in 2 .. n /\ k + 1 \in 1 .. n /\ (k + 1) - 1 = k
        BY <1>1, <3>2
      <4>2. f[k + 1] = f[k] \o parts[k + 1]
        BY <2>1, <4>1 DEF Flattens
      <4>3. QED
        BY <2>2, <4>1, <4>2
    <3>3. QED
      BY <3>1, <3>2
  <2> DEFINE P == {k \in Nat : k <= n => First(parts, k) \in S}
  <2>4. 0 \in P
    <3>1. First(parts, 0) \in S
      BY <1>2, EmptySeq
    <3> HIDE DEF S
    <3>2. QED
      BY <3>1
  <2>5. ASSUME NEW k \in Nat, k \in P PROVE k + 1 \in P
    <3> SUFFICES ASSUME k + 1 <= n PROVE First(parts, k + 1) \in S
      OBVIOUS
    <3>1. k \in 0 .. n - 1 /\ k + 1 \in 1 .. n
      BY <1>1
    <3>2. First(parts, k) \in Seq(Nat) /\ parts[k + 1] \in Seq(Nat)
      BY <1>1, <2>5, <3>1
    <3>3. First(parts, k) \o parts[k + 1] \in Seq(Nat)
      BY <3>2, Joined
    <3>4. QED
      BY <2>3, <3>1, <3>3
  <2> HIDE DEF P
  <2>6. \A k \in Nat : k \in P
    BY <2>4, <2>5, AllNumbers
  <2>7. \A k \in 0 .. n : First(parts, k) \in Seq(Nat)
    BY <1>1, <2>6 DEF P
  <2>8. QED
    BY <2>3, <2>7
<1>5. CASE n > 0
  BY <1>2, <1>3, <1>4, <1>5
<1>6. CASE n = 0
  <2>1. \A k \in 0 .. n : k = 0
    BY <1>6
  <2>2. (0 .. n - 1) = {}
    BY <1>6
  <2>3. <<>> \in Seq(Nat)
    OBVIOUS
  <2>4. QED
    BY <1>2, <1>3, <2>1, <2>2, <2>3
<1>7. QED
  BY <1>1, <1>5, <1>6, SMTT(40)

(* Where the parts are. *)
LEMMA HoldsParts ==
  ASSUME NEW full \in Seq(Nat), NEW p \in Nat, NEW parts \in Seq(Seq(Nat)),
         Holds(full, p, FlattenSeq(parts))
  PROVE  /\ Before(parts, 0) = 0
         /\ \A k \in 0 .. Len(parts) - 1 :
              /\ Before(parts, k) \in Nat /\ parts[k + 1] \in Seq(Nat)
              /\ Before(parts, k + 1) = Before(parts, k) + Len(parts[k + 1])
              /\ Holds(full, p + Before(parts, k), parts[k + 1])
         /\ Before(parts, Len(parts)) = Len(FlattenSeq(parts))
         /\ Before(parts, Len(parts)) \in Nat
<1> DEFINE n == Len(parts)
           P == {j \in Nat : j <= n => Holds(full, p, First(parts, n - j))}
<1>1. n \in Nat /\ \A i \in 1 .. n : parts[i] \in Seq(Nat)
  BY ElementOfSeq
<1>2. /\ First(parts, 0) = <<>> /\ First(parts, n) = FlattenSeq(parts)
      /\ \A k \in 0 .. n : First(parts, k) \in Seq(Nat)
      /\ \A k \in 0 .. n - 1 :
           First(parts, k + 1) = First(parts, k) \o parts[k + 1]
  BY FirstParts
<1> HIDE DEF n
<1>3. ASSUME NEW k \in 0 .. n - 1, Holds(full, p, First(parts, k + 1))
      PROVE  /\ Holds(full, p, First(parts, k))
             /\ Holds(full, p + Before(parts, k), parts[k + 1])
  <2>1. First(parts, k) \in Seq(Nat) /\ parts[k + 1] \in Seq(Nat)
    BY <1>1, <1>2
  <2>2. First(parts, k + 1) = First(parts, k) \o parts[k + 1]
    BY <1>2
  <2>3. QED
    BY <1>3, <2>1, <2>2, HoldsBoth, ZenonT(40) DEF Before
<1>4. 0 \in P
  BY <1>1, <1>2
<1>5. ASSUME NEW j \in Nat, j \in P PROVE j + 1 \in P
  <2> SUFFICES ASSUME j + 1 <= n PROVE Holds(full, p, First(parts, n - (j + 1)))
    OBVIOUS
  <2> DEFINE k == n - (j + 1)
  <2>1. k \in 0 .. n - 1 /\ k + 1 = n - j /\ j <= n
    BY <1>1
  <2>2. Holds(full, p, First(parts, k + 1))
    BY <1>5, <2>1
  <2> HIDE DEF k
  <2>3. Holds(full, p, First(parts, k))
    BY <1>3, <2>1, <2>2
  <2>4. QED
    BY <2>3 DEF k
<1> HIDE DEF P
<1>6. \A j \in Nat : j \in P
  BY <1>4, <1>5, AllNumbers
<1>7. ASSUME NEW k \in 0 .. n - 1
      PROVE  /\ Before(parts, k) \in Nat /\ parts[k + 1] \in Seq(Nat)
             /\ Before(parts, k + 1) = Before(parts, k) + Len(parts[k + 1])
             /\ Holds(full, p + Before(parts, k), parts[k + 1])
  <2>1. n - (k + 1) \in Nat /\ n - (n - (k + 1)) = k + 1 /\ n - (k + 1) <= n
    BY <1>1
  <2>2. Holds(full, p, First(parts, k + 1))
    <3>1. n - (k + 1) \in P
      BY <1>6, <2>1
    <3>2. QED
      BY <2>1, <3>1 DEF P
  <2>3. First(parts, k) \in Seq(Nat) /\ parts[k + 1] \in Seq(Nat)
    BY <1>1, <1>2
  <2>4. First(parts, k + 1) = First(parts, k) \o parts[k + 1]
    BY <1>2
  <2>5. QED
    BY <1>3, <2>2, <2>3, <2>4, Joined DEF Before
<1>8. Before(parts, 0) = 0
  BY <1>2 DEF Before
<1>9. First(parts, n) \in Seq(Nat)
  BY <1>1, <1>2
<1>10. QED
  BY <1>2, <1>7, <1>8, <1>9 DEF Before, n

-----------------------------------------------------------------------------
(***************************************************************************)
(* The fields of the envelope.                                             *)
(***************************************************************************)
PbReaders == {r \in [data : Seq(Nat), pos : Nat] : r.pos <= Len(r.data)}

LEMMA PbFields ==
  ASSUME NEW r \in PbReaders
  PROVE  /\ r.data \in Seq(Nat) /\ Len(r.data) \in Nat
         /\ r.pos \in 0 .. Len(r.data)
BY LenProperties DEF PbReaders

LEMMA AtPosition ==
  ASSUME NEW r \in PbReaders, NEW p \in 0 .. Len(r.data)
  PROVE  /\ [r EXCEPT !.pos = p] \in PbReaders
         /\ [r EXCEPT !.pos = p].data = r.data
         /\ [r EXCEPT !.pos = p].pos = p
<1>1. r \in [data : Seq(Nat), pos : Nat] /\ Len(r.data) \in Nat
  BY PbFields DEF PbReaders
<1>2. p \in Nat /\ p <= Len(r.data)
  BY <1>1
<1>3. QED
  BY <1>1, <1>2 DEF PbReaders

LEMMA MinOfTwo ==
  ASSUME NEW a \in Int, NEW b \in Int
  PROVE  Min({a, b}) = IF a <= b THEN a ELSE b
<1> DEFINE m == IF a <= b THEN a ELSE b
           S == {a, b}
<1>1. m \in S /\ m \in Int /\ \A y \in S : m <= y /\ y \in Int
  OBVIOUS
<1>2. Min(S) = CHOOSE x \in S : \A y \in S : x <= y
  BY DEF Min
<1> HIDE DEF m, S
<1>3. \A x \in S : (\A y \in S : x <= y) => x = m
  BY <1>1
<1>4. Min(S) = m
  BY <1>1, <1>2, <1>3
<1>5. QED
  BY <1>4 DEF m, S

LEMMA GoesOnNat == GoesOn \in Nat /\ GoesOn > 1
BY SizesAssumption DEF GoesOn

LEMMA VarintIs ==
  \A v \in Word :
    /\ AppendVarint[v] \in Seq(Nat) /\ Len(AppendVarint[v]) > 0
    /\ v < GoesOn => AppendVarint[v] = <<v>>
    /\ v >= GoesOn =>
         /\ v \div GoesOn \in Word /\ v \div GoesOn < v
         /\ AppendVarint[v] =
              <<GoesOn + (v % GoesOn)>> \o AppendVarint[v \div GoesOn]
<1> DEFINE S == Seq(Nat)
           small == {v \in Word : v < GoesOn}
           Is(f) ==
             f = [v \in Word |->
                    IF v < GoesOn THEN <<v>>
                    ELSE <<GoesOn + (v % GoesOn)>> \o f[v \div GoesOn]]
           size   == [v \in Word |-> v]
           first  == [v \in small |-> <<v>>]
           before == [v \in Word \ small |-> v \div GoesOn]
           step   == [p \in Word \X S |-> <<GoesOn + (p[1] % GoesOn)>> \o p[2]]
<1>0. GoesOn \in Nat \ {0} /\ GoesOn > 1 /\ Word \subseteq Nat /\ WordSize \in Nat
  BY GoesOnNat, WordNat
<1>1. \A v \in Word : v % GoesOn \in Nat /\ v \div GoesOn \in Nat
  <2> SUFFICES ASSUME NEW v \in Word
               PROVE  v % GoesOn \in Nat /\ v \div GoesOn \in Nat
    OBVIOUS
  <2>1. v \in Nat
    BY <1>0
  <2>2. v \div GoesOn \in Nat /\ v % GoesOn \in 0 .. GoesOn - 1
    BY <1>0, <2>1, Quotient
  <2>3. \A m \in 0 .. GoesOn - 1 : m \in Nat
    BY <1>0
  <2>4. QED
    BY <2>2, <2>3
<1>2. \A v \in Word : v >= GoesOn => v \div GoesOn \in Word /\ v \div GoesOn < v
  <2> SUFFICES ASSUME NEW v \in Word, v >= GoesOn
               PROVE  v \div GoesOn \in Word /\ v \div GoesOn < v
    OBVIOUS
  <2> DEFINE q == v \div GoesOn
  <2>1. v \in Nat \ {0}
    BY <1>0
  <2>2. q \in 0 .. v - 1
    BY <1>0, <2>1, SmallerQuotient
  <2> HIDE DEF q
  <2>3. q \in Word /\ q < v
    BY <1>0, <2>1, <2>2 DEF Word
  <2>4. QED
    BY <2>3 DEF q
<1>3. PICK f \in [Word -> S] :
        \A v \in Word : f[v] = Rule(first, before, step, f, v)
  <2>1. size \in [Word -> Nat] /\ small \subseteq Word
    BY <1>0
  <2>2. /\ before \in [Word \ small -> Word]
        /\ \A v \in Word \ small : size[before[v]] < size[v]
    <3>1. \A v \in Word \ small : v >= GoesOn
      BY <1>0
    <3>2. QED
      BY <1>2, <3>1
  <2>3. first \in [small -> S] /\ S # {}
    <3>1. \A v \in small : <<v>> \in S
      BY <1>0
    <3>2. S # {}
      BY EmptySeq
    <3> HIDE DEF S
    <3>3. QED
      BY <3>1, <3>2
  <2>4. step \in [Word \X S -> S]
    <3> SUFFICES ASSUME NEW p \in Word \X S
                 PROVE  <<GoesOn + (p[1] % GoesOn)>> \o p[2] \in S
      OBVIOUS
    <3>1. p[1] % GoesOn \in Nat /\ p[2] \in S
      BY <1>1
    <3> DEFINE d == GoesOn + (p[1] % GoesOn)
    <3>2. d \in Nat
      BY <1>0, <3>1
    <3> HIDE DEF d
    <3>3. <<d>> \o p[2] \in S
      BY <3>1, <3>2
    <3>4. QED
      BY <3>3 DEF d
  <2> HIDE DEF small, S, size, first, before, step
  <2>5. Recursion(Word, S, size, small, first, before, step)
    BY <2>1, <2>2, <2>3, <2>4 DEF Recursion
  <2>6. QED
    BY <2>5, RecursionExists
<1>4. ASSUME NEW v \in Word
      PROVE  f[v] = IF v < GoesOn THEN <<v>>
                    ELSE <<GoesOn + (v % GoesOn)>> \o f[v \div GoesOn]
  <2>1. f[v] = Rule(first, before, step, f, v)
    BY <1>3
  <2>2. CASE v < GoesOn
    BY <2>1, <2>2 DEF Rule
  <2>3. CASE ~(v < GoesOn)
    <3>1. v \notin DOMAIN first /\ before[v] = v \div GoesOn /\ v >= GoesOn
      BY <1>0, <2>3
    <3>2. f[v] = step[<<v, f[v \div GoesOn]>>]
      BY <2>1, <3>1 DEF Rule
    <3> DEFINE s == f[v \div GoesOn]
    <3>3. s \in S
      BY <1>2, <1>3, <3>1
    <3> HIDE DEF s
    <3>4. step[<<v, s>>] = <<GoesOn + (v % GoesOn)>> \o s
      BY <3>3
    <3>5. QED
      BY <2>3, <3>2, <3>4 DEF s
  <2>4. QED
    BY <2>2, <2>3
<1>5. Is(f)
  <2>1. f = [v \in Word |-> f[v]]
    BY <1>3
  <2>2. QED
    BY <1>4, <2>1
<1> DEFINE g == CHOOSE h : Is(h)
<1>6. Is(g) /\ AppendVarint = g
  BY <1>5, ZenonT(40) DEF AppendVarint
<1> HIDE DEF g
<1>7. \A v \in Word :
        g[v] = IF v < GoesOn THEN <<v>>
               ELSE <<GoesOn + (v % GoesOn)>> \o g[v \div GoesOn]
  BY <1>6
<1> DEFINE P == {v \in Nat : v \in Word => g[v] \in S /\ Len(g[v]) > 0}
<1>8. ASSUME NEW v \in Nat, \A k \in 0 .. v - 1 : k \in P
      PROVE  v \in P
  <2> SUFFICES ASSUME v \in Word PROVE g[v] \in S /\ Len(g[v]) > 0
    OBVIOUS
  <2>1. CASE v < GoesOn
    <3>1. g[v] = <<v>>
      BY <1>7, <2>1
    <3>2. QED
      BY <3>1
  <2>2. CASE ~(v < GoesOn)
    <3> DEFINE q == v \div GoesOn
               d == GoesOn + (v % GoesOn)
    <3>1. v >= GoesOn
      BY <1>0, <2>2
    <3>2. q \in Word /\ q \in 0 .. v - 1
      <4>1. q \in Word /\ q < v /\ q \in Nat
        BY <1>1, <1>2, <3>1
      <4> HIDE DEF q
      <4>2. QED
        BY <4>1
    <3>3. g[q] \in S
      BY <1>8, <3>2
    <3>4. g[v] = <<d>> \o g[q]
      BY <1>7, <2>2
    <3>5. d \in Nat
      BY <1>0, <1>1
    <3> HIDE DEF d, q
    <3>6. <<d>> \o g[q] \in S /\ Len(<<d>> \o g[q]) = 1 + Len(g[q]) /\ Len(g[q]) \in Nat
      BY <3>3, <3>5, Appended
    <3>7. QED
      BY <3>4, <3>6
  <2>3. QED
    BY <2>1, <2>2
<1> HIDE DEF P
<1>9. \A v \in Nat : v \in P
  BY <1>8, AllFromSmaller
<1>10. \A v \in Word : v \in Nat /\ g[v] \in S /\ Len(g[v]) > 0
  BY <1>0, <1>9 DEF P
<1>11. \A v \in Word : v < GoesOn => g[v] = <<v>>
  BY <1>7
<1>12. \A v \in Word : v >= GoesOn =>
         g[v] = <<GoesOn + (v % GoesOn)>> \o g[v \div GoesOn]
  <2>1. \A v \in Word : v >= GoesOn => ~(v < GoesOn)
    BY <1>0
  <2>2. QED
    BY <1>7, <2>1
<1>13. QED
  BY <1>2, <1>6, <1>10, <1>11, <1>12

-----------------------------------------------------------------------------
(***************************************************************************)
(* A varint that is written is the one that is read.                       *)
(***************************************************************************)
(* The varint that begins at the i-th byte ends there or with a later one. *)
EndsAt(data, i) == i > Len(data) \/ data[i] < GoesOn

(* What ReadVarint makes of the bytes from the i-th on, and where it ends.  *)
Varints(data, indices, bits, end) ==
  \A i \in indices :
    /\ bits[i] = IF i > Len(data) THEN 0
                 ELSE (data[i] % GoesOn)
                        + (IF EndsAt(data, i) THEN 0 ELSE GoesOn * bits[i + 1])
    /\ end[i] = IF EndsAt(data, i) THEN i ELSE end[i + 1]

LEMMA VarintReads ==
  ASSUME NEW r \in PbReaders
  PROVE  \E bits, end :
           /\ Varints(r.data, r.pos + 1 .. Len(r.data) + 1, bits, end)
           /\ ReadVarint(r) =
                [v |-> bits[r.pos + 1] % WordSize,
                 r |-> [r EXCEPT !.pos = Min({end[r.pos + 1], Len(r.data)})]]
<1> DEFINE data == r.data
           n == Len(data)
           D == r.pos + 1 .. n + 1
           base == {i \in D : EndsAt(data, i)}
           Bits(i) == IF i > n THEN 0 ELSE data[i] % GoesOn
           size   == [i \in D |-> n + 1 - i]
           before == [i \in D \ base |-> i + 1]
           firstB == [i \in base |-> Bits(i)]
           stepB  == [p \in D \X Nat |-> Bits(p[1]) + GoesOn * p[2]]
           firstE == [i \in base |-> i]
           stepE  == [p \in D \X Nat |-> p[2]]
           IsBits(f) ==
             f = [i \in D |->
                    IF i > Len(r.data) THEN 0
                    ELSE (r.data[i] % GoesOn)
                           + (IF EndsAt(data, i) THEN 0 ELSE GoesOn * f[i + 1])]
           IsEnd(f) ==
             f = [i \in D |-> IF EndsAt(data, i) THEN i ELSE f[i + 1]]
<1>1. data \in Seq(Nat) /\ n \in Nat /\ r.pos \in Nat /\ r.pos <= n
  BY PbFields
<1>2. GoesOn \in Nat \ {0}
  BY GoesOnNat
<1>3. \A i \in D : Bits(i) \in Nat /\ i \in Nat
  <2> SUFFICES ASSUME NEW i \in D PROVE Bits(i) \in Nat /\ i \in Nat
    OBVIOUS
  <2>1. i \in Nat /\ (i <= n => i \in 1 .. n) /\ (~(i > n) => i <= n)
    BY <1>1
  <2>2. i <= n => data[i] \in Nat
    BY <1>1, <2>1, ElementOfSeq
  <2>3. i <= n => data[i] % GoesOn \in 0 .. GoesOn - 1
    BY <1>2, <2>2, Quotient
  <2>4. QED
    BY <1>2, <2>1, <2>3
<1>4. \A i \in D \ base : /\ i \in 1 .. n /\ ~(i > n) /\ i + 1 \in D
                          /\ ~EndsAt(data, i)
  <2> SUFFICES ASSUME NEW i \in D, ~EndsAt(data, i)
               PROVE  i \in 1 .. n /\ ~(i > n) /\ i + 1 \in D
    OBVIOUS
  <2>1. ~(i > n)
    BY DEF EndsAt
  <2>2. QED
    BY <1>1, <2>1
<1>5. /\ size \in [D -> Nat] /\ base \subseteq D /\ Nat # {}
      /\ before \in [D \ base -> D]
      /\ \A i \in D \ base : size[before[i]] < size[i]
  <2>1. size \in [D -> Nat]
    BY <1>1
  <2>2. before \in [D \ base -> D]
    BY <1>4
  <2>3. \A i \in D \ base : before[i] = i + 1 /\ i + 1 \in D /\ i \in D
    BY <1>4
  <2>4. \A i \in D \ base : n + 1 - (i + 1) < n + 1 - i
    <3> SUFFICES ASSUME NEW i \in D PROVE n + 1 - (i + 1) < n + 1 - i
      OBVIOUS
    <3>1. i \in Int
      OBVIOUS
    <3> HIDE DEF D, n
    <3>2. QED
      BY <1>1, <3>1
  <2> HIDE DEF base
  <2>5. \A i \in D \ base : size[before[i]] < size[i]
    BY <2>3, <2>4
  <2>6. QED
    BY <2>1, <2>2, <2>5 DEF base
<1>6. \E f : IsBits(f)
  <2>1. firstB \in [base -> Nat]
    BY <1>3
  <2>2. stepB \in [D \X Nat -> Nat]
    <3> SUFFICES ASSUME NEW p \in D \X Nat
                 PROVE  Bits(p[1]) + GoesOn * p[2] \in Nat
      OBVIOUS
    <3>1. Bits(p[1]) \in Nat /\ p[2] \in Nat
      BY <1>3
    <3>2. GoesOn * p[2] \in Nat
      BY <1>2, <3>1, Products
    <3> HIDE DEF Bits
    <3>3. QED
      BY <3>1, <3>2
  <2>3. PICK f \in [D -> Nat] : \A i \in D : f[i] = Rule(firstB, before, stepB, f, i)
    <3> HIDE DEF D, base, size, before, firstB, stepB
    <3>1. Recursion(D, Nat, size, base, firstB, before, stepB)
      BY <1>5, <2>1, <2>2 DEF Recursion
    <3>2. QED
      BY <3>1, RecursionExists
  <2>4. ASSUME NEW i \in D
        PROVE  f[i] = IF i > n THEN 0
                      ELSE (data[i] % GoesOn)
                             + (IF EndsAt(data, i) THEN 0 ELSE GoesOn * f[i + 1])
    <3>1. f[i] = Rule(firstB, before, stepB, f, i)
      BY <2>3
    <3>2. CASE i \in base
      <4>1. f[i] = Bits(i) /\ EndsAt(data, i)
        BY <3>1, <3>2, ZenonT(40) DEF Rule
      <4>2. i > n => f[i] = 0
        BY <4>1
      <4>3. ~(i > n) => f[i] = data[i] % GoesOn /\ f[i] \in Nat
        BY <1>3, <4>1
      <4>4. ~(i > n) => f[i] = (data[i] % GoesOn) + 0
        BY <4>3
      <4>5. QED
        BY <4>1, <4>2, <4>4
    <3>3. CASE i \notin base
      <4>1. i \notin DOMAIN firstB /\ before[i] = i + 1
        BY <3>3
      <4>2. ~(i > n) /\ i + 1 \in D /\ ~EndsAt(data, i)
        BY <1>4, <3>3, SMTT(40)
      <4>3. f[i] = stepB[<<i, f[i + 1]>>]
        BY <3>1, <4>1, ZenonT(40) DEF Rule
      <4> DEFINE v == f[i + 1]
      <4>4. v \in Nat
        BY <2>3, <4>2
      <4> HIDE DEF v
      <4>5. stepB[<<i, v>>] = Bits(i) + GoesOn * v
        BY <4>4
      <4>6. Bits(i) = data[i] % GoesOn
        BY <4>2
      <4>7. QED
        BY <4>2, <4>3, <4>5, <4>6 DEF v
    <3>4. QED
      BY <3>2, <3>3
  <2>5. f = [i \in D |-> f[i]]
    BY <2>3
  <2>6. IsBits(f)
    BY <2>4, <2>5
  <2>7. QED
    BY <2>6
<1>7. \E f : IsEnd(f)
  <2>1. firstE \in [base -> Nat] /\ stepE \in [D \X Nat -> Nat]
    BY <1>3
  <2>2. PICK f \in [D -> Nat] : \A i \in D : f[i] = Rule(firstE, before, stepE, f, i)
    <3> HIDE DEF D, base, size, before, firstE, stepE
    <3>1. Recursion(D, Nat, size, base, firstE, before, stepE)
      BY <1>5, <2>1 DEF Recursion
    <3>2. QED
      BY <3>1, RecursionExists
  <2>3. ASSUME NEW i \in D
        PROVE  f[i] = IF EndsAt(data, i) THEN i ELSE f[i + 1]
    <3>1. f[i] = Rule(firstE, before, stepE, f, i)
      BY <2>2
    <3>2. CASE i \in base
      <4>1. f[i] = i /\ EndsAt(data, i)
        BY <3>1, <3>2 DEF Rule
      <4>2. QED
        BY <4>1
    <3>3. CASE i \notin base
      <4>1. i \notin DOMAIN firstE /\ before[i] = i + 1
        BY <3>3
      <4>2. i + 1 \in D /\ ~EndsAt(data, i)
        BY <1>4, <3>3
      <4>3. f[i] = stepE[<<i, f[i + 1]>>]
        BY <3>1, <4>1 DEF Rule
      <4> DEFINE v == f[i + 1]
      <4>4. v \in Nat
        BY <2>2, <4>2
      <4> HIDE DEF v
      <4>5. stepE[<<i, v>>] = v
        BY <4>4
      <4>6. QED
        BY <4>2, <4>3, <4>5 DEF v
    <3>4. QED
      BY <3>2, <3>3
  <2>4. f = [i \in D |-> f[i]]
    BY <2>2
  <2>5. IsEnd(f)
    BY <2>3, <2>4
  <2>6. QED
    BY <2>5
<1> DEFINE bits == CHOOSE f : IsBits(f)
           end  == CHOOSE f : IsEnd(f)
<1>8. IsBits(bits) /\ IsEnd(end)
  BY <1>6, <1>7
<1>9. ReadVarint(r) =
        [v |-> bits[r.pos + 1] % WordSize,
         r |-> [r EXCEPT !.pos = Min({end[r.pos + 1], Len(r.data)})]]
  BY DEF ReadVarint, EndsAt
<1> HIDE DEF bits, end
<1>10. Varints(r.data, D, bits, end)
  BY <1>8 DEF Varints
<1>11. QED
  BY <1>9, <1>10

LEMMA SmallRemainder ==
  ASSUME NEW v \in Nat, NEW m \in Nat, v < m
  PROVE  v % m = v
<1>1. m \in Nat \ {0} /\ v \in 0 .. m - 1 /\ v = m * 0 + v
  OBVIOUS
<1>2. QED
  BY <1>1, QuotientIs

LEMMA LargerProduct ==
  ASSUME NEW g \in Nat, NEW q \in Nat, NEW b \in 0 .. q
  PROVE  g * b \in Nat /\ g * q \in Nat /\ g * b <= g * q
<1>1. PICK c \in Nat : q = b + c
  <2>1. q - b \in Nat /\ q = b + (q - b)
    OBVIOUS
  <2>2. QED
    BY <2>1
<1>2. g * q = g * b + g * c
  BY <1>1
<1>3. b \in Nat
  OBVIOUS
<1>4. g * b \in Nat /\ g * c \in Nat /\ g * q \in Nat
  BY <1>1, <1>3, Products
<1>5. QED
  BY <1>2, <1>4

(* bits and end tell v and where it ends, or that it is cut short.          *)
VarintRight(data, bits, end, v, p) ==
  LET n == Len(AppendVarint[v])
  IN  /\ p + n <= Len(data) => bits[p + 1] = v /\ end[p + 1] = p + n
      /\ p + n > Len(data) =>
           bits[p + 1] \in 0 .. v /\ end[p + 1] = Len(data) + 1

(* A varint of which some bytes are there. *)
LEMMA VarintWithin ==
  ASSUME NEW data \in Seq(Nat), NEW full \in Seq(Nat), CutOf(data, full),
         NEW low \in Nat, NEW bits, NEW end,
         Varints(data, low + 1 .. Len(data) + 1, bits, end)
  PROVE  \A v \in Word : \A p \in low .. Len(data) :
           Holds(full, p, AppendVarint[v]) =>
             VarintRight(data, bits, end, v, p)
<1> DEFINE size == Len(data)
           Right(v, p, n) ==
             /\ p + n <= size => bits[p + 1] = v /\ end[p + 1] = p + n
             /\ p + n > size => bits[p + 1] \in 0 .. v /\ end[p + 1] = size + 1
           P == {v \in Nat : v \in Word =>
                   \A p \in low .. size : Holds(full, p, AppendVarint[v]) =>
                     Right(v, p, Len(AppendVarint[v]))}
<1>1. size \in Nat
  OBVIOUS
<1>2. GoesOn \in Nat \ {0} /\ Word \subseteq Nat
  BY GoesOnNat, WordNat
<1>3. ASSUME NEW p \in low .. size
      PROVE  /\ bits[p + 1] = IF p + 1 > size THEN 0
                              ELSE (data[p + 1] % GoesOn)
                                     + (IF EndsAt(data, p + 1) THEN 0
                                        ELSE GoesOn * bits[(p + 1) + 1])
             /\ end[p + 1] = IF EndsAt(data, p + 1) THEN p + 1
                             ELSE end[(p + 1) + 1]
  <2>1. p + 1 \in low + 1 .. size + 1
    BY <1>1
  <2>2. QED
    BY <2>1 DEF Varints
<1>4. ASSUME NEW v \in Nat, \A k \in 0 .. v - 1 : k \in P
      PROVE  v \in P
  <2> DEFINE s == AppendVarint[v]
             n == Len(s)
  <2> SUFFICES ASSUME v \in Word, NEW p \in low .. size, Holds(full, p, s)
               PROVE  Right(v, p, n)
    OBVIOUS
  <2>0. p \in Nat /\ p <= size
    BY <1>1
  <2>1. s \in Seq(Nat) /\ n > 0 /\ n \in Nat
    <3>1. s \in Seq(Nat) /\ Len(s) > 0
      BY VarintIs
    <3> HIDE DEF s
    <3>2. QED
      BY <3>1
  <2>2. CASE p = size
    <3>1. p + 1 > size /\ p + n > size
      BY <1>1, <2>1, <2>2
    <3>2. EndsAt(data, p + 1)
      BY <3>1 DEF EndsAt
    <3>3. bits[p + 1] = 0 /\ end[p + 1] = size + 1
      BY <1>3, <2>2, <3>1, <3>2
    <3> HIDE DEF n, size
    <3>4. QED
      BY <1>1, <2>0, <2>1, <3>1, <3>3
  <2>3. CASE p # size
    <3>1. p + 1 \in 1 .. size /\ p + 1 \in low .. size /\ ~(p + 1 > size)
      BY <1>1, <2>0, <2>3
    <3>2. data[p + 1] = full[p + 1] /\ full[p + 1] = s[1]
      BY <2>1, <3>1 DEF CutOf, Holds
    <3>3. CASE v < GoesOn
      <4>1. s = <<v>>
        BY <3>3, VarintIs
      <4>2. n = 1 /\ data[p + 1] = v
        BY <3>2, <4>1
      <4>3. EndsAt(data, p + 1) /\ v % GoesOn = v
        BY <1>2, <3>3, <4>2, SmallRemainder DEF EndsAt
      <4>4. bits[p + 1] = v + 0 /\ end[p + 1] = p + 1
        BY <1>3, <3>1, <4>2, <4>3
      <4>5. p + n <= size
        BY <3>1, <4>2
      <4> HIDE DEF n, size
      <4>6. QED
        BY <1>1, <2>0, <4>2, <4>4, <4>5
    <3>4. CASE ~(v < GoesOn)
      <4> DEFINE q == v \div GoesOn
                 m == v % GoesOn
                 d == GoesOn + m
                 t == AppendVarint[q]
      <4>1. v >= GoesOn
        BY <1>2, <3>4
      <4>2. q \in Word /\ q < v /\ s = <<d>> \o t
        BY <4>1, VarintIs
      <4>3. q \in Nat /\ m \in 0 .. GoesOn - 1 /\ v = GoesOn * q + m
        BY <1>2, Quotient
      <4>4. t \in Seq(Nat)
        BY <4>2, VarintIs
      <4> HIDE DEF q, m, t
      <4>5. d \in Nat /\ ~(d < GoesOn) /\ d % GoesOn = m /\ m \in Nat
        <5>1. d \in Nat /\ ~(d < GoesOn) /\ d = GoesOn * 1 + m /\ m \in Nat
          BY <1>2, <4>3
        <5> HIDE DEF d
        <5>2. d % GoesOn = m
          BY <1>2, <4>3, <5>1, QuotientIs
        <5>3. QED
          BY <5>1, <5>2
      <4> HIDE DEF d
      <4>6. s[1] = d /\ n = 1 + Len(t) /\ Len(t) \in Nat
        BY <4>2, <4>4, <4>5
      <4>7. Holds(full, p + 1, t)
        <5>1. <<d>> \in Seq(Nat) /\ Len(<<d>>) = 1
          BY <4>5
        <5>2. Holds(full, p, <<d>> \o t)
          BY <4>2
        <5> DEFINE one == <<d>>
        <5> HIDE DEF one
        <5>3. Holds(full, p + Len(one), t)
          BY <2>0, <4>4, <5>1, <5>2, HoldsBoth DEF one
        <5>4. QED
          BY <5>1, <5>3 DEF one
      <4>8. ~EndsAt(data, p + 1)
        BY <3>1, <3>2, <4>5, <4>6 DEF EndsAt
      <4>9. /\ bits[p + 1] = m + GoesOn * bits[(p + 1) + 1]
            /\ end[p + 1] = end[(p + 1) + 1]
        BY <1>3, <3>1, <3>2, <4>5, <4>6, <4>8
      <4>10. Right(q, p + 1, Len(t))
        <5>1. q \in P
          <6>1. q \in 0 .. v - 1
            BY <4>2, <4>3
          <6> HIDE DEF P
          <6>2. QED
            BY <1>4, <6>1
        <5>2. QED
          BY <3>1, <4>2, <4>7, <5>1 DEF t
      <4> DEFINE b == bits[(p + 1) + 1]
                 e == end[(p + 1) + 1]
                 k == Len(t)
      <4>11. /\ (p + 1) + k <= size => b = q /\ e = (p + 1) + k
             /\ (p + 1) + k > size => b \in 0 .. q /\ e = size + 1
        BY <4>10
      <4>12. bits[p + 1] = m + GoesOn * b /\ end[p + 1] = e /\ n = 1 + k /\ k \in Nat
        BY <4>6, <4>9
      <4> HIDE DEF b, e, k, n, size
      <4>13. GoesOn * q \in Nat
        BY <1>2, <4>3, Products
      <4>14. CASE (p + 1) + k <= size
        <5>1. bits[p + 1] = v
          BY <4>3, <4>5, <4>11, <4>12, <4>13, <4>14
        <5>2. end[p + 1] = p + n /\ p + n <= size
          BY <2>0, <4>11, <4>12, <4>14
        <5>3. QED
          BY <1>1, <2>0, <2>1, <5>1, <5>2
      <4>15. CASE ~((p + 1) + k <= size)
        <5>1. b \in 0 .. q /\ e = size + 1
          BY <1>1, <2>0, <4>11, <4>12, <4>15
        <5>2. GoesOn * b \in Nat /\ GoesOn * b <= GoesOn * q
          BY <1>2, <4>3, <5>1, LargerProduct
        <5>3. bits[p + 1] \in 0 .. v
          BY <4>3, <4>5, <4>12, <4>13, <5>2, SMTT(40)
        <5>4. end[p + 1] = size + 1 /\ ~(p + n <= size)
          BY <1>1, <2>0, <4>12, <4>15, <5>1
        <5>5. QED
          BY <1>1, <2>0, <2>1, <5>3, <5>4
      <4>16. QED
        BY <4>14, <4>15
    <3>5. QED
      BY <3>3, <3>4
  <2>4. QED
    BY <2>2, <2>3
<1> HIDE DEF P
<1>5. \A v \in Nat : v \in P
  BY <1>4, AllFromSmaller
<1>6. QED
  BY <1>2, <1>5 DEF P, VarintRight

(* A varint comes back as it was (pbAppendVarint against                   *)
(* pbReader.readVarint, src/internal/python.go:60-67 and 217-230), for     *)
(* every word; of one that is cut short no more than it was is read, and   *)
(* the reader is at the end.                                               *)
THEOREM VarintComesBack ==
  ASSUME NEW r \in PbReaders, NEW full \in Seq(Nat), CutOf(r.data, full),
         NEW v \in Word, Holds(full, r.pos, AppendVarint[v])
  PROVE  LET n == Len(AppendVarint[v])
         IN  /\ n \in Nat /\ n > 0
             /\ r.pos + n <= Len(r.data) =>
                  ReadVarint(r) = [v |-> v, r |-> [r EXCEPT !.pos = r.pos + n]]
             /\ r.pos + n > Len(r.data) =>
                  /\ ReadVarint(r).v \in 0 .. v
                  /\ ReadVarint(r).r = [r EXCEPT !.pos = Len(r.data)]
<1> DEFINE n == Len(AppendVarint[v])
           size == Len(r.data)
           p == r.pos
<1>1. r.data \in Seq(Nat) /\ size \in Nat /\ p \in 0 .. size
  BY PbFields
<1>2. n \in Nat /\ n > 0
  <2> DEFINE s == AppendVarint[v]
  <2>1. s \in Seq(Nat) /\ Len(s) > 0
    BY VarintIs
  <2> HIDE DEF s
  <2>2. Len(s) \in Nat /\ Len(s) > 0
    BY <2>1
  <2>3. QED
    BY <2>2 DEF s
<1>3. PICK bits, end :
        /\ Varints(r.data, p + 1 .. size + 1, bits, end)
        /\ ReadVarint(r) =
             [v |-> bits[p + 1] % WordSize,
              r |-> [r EXCEPT !.pos = Min({end[p + 1], size})]]
  BY VarintReads
<1>4. p \in Nat /\ p \in p .. size
  BY <1>1
<1>5. /\ p + n <= size => bits[p + 1] = v /\ end[p + 1] = p + n
      /\ p + n > size => bits[p + 1] \in 0 .. v /\ end[p + 1] = size + 1
  <2> DEFINE bytes == AppendVarint[v]
             data == r.data
  <2>1. data \in Seq(Nat) /\ CutOf(data, full) /\ p \in Nat
    BY <1>1, <1>4
  <2>2. Varints(data, p + 1 .. Len(data) + 1, bits, end)
    BY <1>3
  <2>3. p \in p .. Len(data) /\ Holds(full, p, bytes)
    BY <1>4
  <2> HIDE DEF p, data
  <2>4. \A w \in Word : \A q \in p .. Len(data) :
          Holds(full, q, AppendVarint[w]) => VarintRight(data, bits, end, w, q)
    BY <2>1, <2>2, VarintWithin
  <2>5. VarintRight(data, bits, end, v, p)
    BY <2>3, <2>4
  <2>6. QED
    BY <2>5 DEF data, VarintRight
<1> HIDE DEF n, size, p
<1>6. v \in Nat /\ v < WordSize /\ WordSize \in Nat
  BY WordNat DEF Word
<1>7. CASE p + n <= size
  <2>1. v % WordSize = v
    BY <1>6, SmallRemainder
  <2>2. Min({p + n, size}) = p + n
    BY <1>1, <1>2, <1>4, <1>7, MinOfTwo
  <2>3. ReadVarint(r) = [v |-> v, r |-> [r EXCEPT !.pos = p + n]]
    BY <1>3, <1>5, <1>7, <2>1, <2>2
  <2>4. ~(p + n > size)
    BY <1>1, <1>2, <1>4, <1>7
  <2>5. QED
    BY <1>2, <2>3, <2>4 DEF n, p, size
<1>8. CASE ~(p + n <= size)
  <2>1. p + n > size /\ bits[p + 1] \in 0 .. v /\ end[p + 1] = size + 1
    BY <1>1, <1>2, <1>4, <1>5, <1>8
  <2> DEFINE b == bits[p + 1]
  <2>2. b \in Nat /\ b < WordSize /\ b \in 0 .. v
    BY <1>6, <2>1
  <2> HIDE DEF b
  <2>3. b % WordSize = b
    BY <1>6, <2>2, SmallRemainder
  <2>4. Min({size + 1, size}) = size
    BY <1>1, MinOfTwo
  <2>5. ReadVarint(r).v = b /\ ReadVarint(r).r = [r EXCEPT !.pos = size]
    BY <1>3, <2>1, <2>3, <2>4 DEF b
  <2>6. QED
    BY <1>2, <1>8, <2>1, <2>2, <2>5 DEF n, p, size
<1>9. QED
  BY <1>7, <1>8

(* At the end there is nothing to read. *)
LEMMA VarintAtEnd ==
  ASSUME NEW r \in PbReaders, r.pos = Len(r.data)
  PROVE  ReadVarint(r) = [v |-> 0, r |-> [r EXCEPT !.pos = Len(r.data)]]
<1> DEFINE size == Len(r.data)
<1>1. size \in Nat /\ r.pos = size
  BY PbFields
<1>2. PICK bits, end :
        /\ Varints(r.data, r.pos + 1 .. size + 1, bits, end)
        /\ ReadVarint(r) =
             [v |-> bits[r.pos + 1] % WordSize,
              r |-> [r EXCEPT !.pos = Min({end[r.pos + 1], size})]]
  BY VarintReads
<1>3. size + 1 \in r.pos + 1 .. size + 1 /\ size + 1 > size
  BY <1>1
<1>4. bits[size + 1] = 0 /\ end[size + 1] = size + 1
  BY <1>2, <1>3 DEF Varints, EndsAt
<1> HIDE DEF size
<1>5. 0 % WordSize = 0
  BY WordNat, SmallRemainder
<1>6. Min({size + 1, size}) = size
  BY <1>1, MinOfTwo
<1>7. QED
  BY <1>1, <1>2, <1>4, <1>5, <1>6 DEF size

-----------------------------------------------------------------------------
(***************************************************************************)
(* A field is read, or skipped, by the wire type of its tag.               *)
(***************************************************************************)
(* What a field holds after its tag, by the wire type of the tag: nothing, *)
(* as far as skip goes, if it does not know the type.                      *)
Body(w, s) ==
  \/ w = 0 /\ \E v \in Word : s = AppendVarint[v]
  \/ w = 1 /\ s \in Seq(Nat) /\ Len(s) = WordBytes
  \/ w = 5 /\ s \in Seq(Nat) /\ Len(s) = HalfBytes
  \/ w = 2 /\ \E d \in Seq(Nat) : /\ Len(d) < WordSize \div 2
                                  /\ s = AppendVarint[Len(d)] \o d
  \/ w \notin {0, 1, 2, 5} /\ s = <<>>

LEMMA HalfWord ==
  /\ WordSize \in Nat \ {0} /\ HalfSize \in Nat \ {0}
  /\ WordSize > 127 /\ HalfSize > 15
  /\ WordSize \div 2 \in Nat /\ WordSize \div 2 <= WordSize
  /\ HalfSize \div 2 \in Nat /\ HalfSize \div 2 <= HalfSize
<1>1. WordBytes \in Nat /\ HalfBytes \in Nat
  BY SizesAssumption
<1>2. WordSize \in Nat \ {0} /\ HalfSize \in Nat \ {0}
  BY <1>1, PowerNat DEF WordSize, HalfSize
<1>3. WordSize > 127 /\ HalfSize > 15
  BY SizesAssumption DEF WordSize, HalfSize
<1>4. \A n \in Nat : n \div 2 \in Nat /\ n \div 2 <= n
  OBVIOUS
<1>5. QED
  BY <1>2, <1>3, <1>4

LEMMA SignedSmall ==
  ASSUME NEW n \in Nat, n < WordSize \div 2
  PROVE  n \in Word /\ n % WordSize = n /\ Signed(n, WordSize) = n
<1>1. n \in Word /\ n < WordSize
  BY HalfWord DEF Word
<1>2. QED
  BY <1>1, HalfWord, SmallRemainder DEF Signed

(* The tag of a field is a word, and its parts come back. *)
LEMMA TagParts ==
  ASSUME NEW f \in 0 .. 15, NEW w \in 0 .. 7
  PROVE  /\ f * 8 + w \in Word
         /\ ((f * 8 + w) \div 8) % HalfSize = f
         /\ (f * 8 + w) % 8 = w
<1>1. f * 8 + w \in Nat /\ f * 8 + w <= 127
  OBVIOUS
<1>2. (f * 8 + w) \div 8 = f /\ (f * 8 + w) % 8 = w
  OBVIOUS
<1>3. f % HalfSize = f
  BY HalfWord, SmallRemainder
<1>4. QED
  BY <1>1, <1>2, <1>3, HalfWord DEF Word

LEMMA NextTagIs ==
  ASSUME NEW r \in PbReaders, NEW full \in Seq(Nat), CutOf(r.data, full),
         NEW f \in 0 .. 15, NEW w \in 0 .. 7, Holds(full, r.pos, AppendTag(f, w))
  PROVE  LET n == Len(AppendTag(f, w))
         IN  /\ n \in Nat /\ n > 0
             /\ r.pos + n <= Len(r.data) =>
                  NextTag(r) = [field |-> f, wireType |-> w,
                                r |-> [r EXCEPT !.pos = r.pos + n]]
             /\ r.pos + n > Len(r.data) =>
                  /\ NextTag(r).r = [r EXCEPT !.pos = Len(r.data)]
                  /\ NextTag(r).field \in Nat /\ NextTag(r).wireType \in 0 .. 7
<1> DEFINE t == f * 8 + w
           n == Len(AppendVarint[t])
           u == ReadVarint(r)
<1>1. t \in Word /\ (t \div 8) % HalfSize = f /\ t % 8 = w
  BY TagParts
<1>2. AppendTag(f, w) = AppendVarint[t] /\ Word \subseteq Nat
  BY WordNat DEF AppendTag
<1> HIDE DEF t
<1>3. Holds(full, r.pos, AppendVarint[t])
  BY <1>2
<1>4. /\ n \in Nat /\ n > 0
      /\ r.pos + n <= Len(r.data) =>
           u = [v |-> t, r |-> [r EXCEPT !.pos = r.pos + n]]
      /\ r.pos + n > Len(r.data) =>
           /\ u.v \in 0 .. t
           /\ u.r = [r EXCEPT !.pos = Len(r.data)]
  BY <1>1, <1>3, VarintComesBack
<1> HIDE DEF n, u
<1>5. \A v \in 0 .. t : (v \div 8) % HalfSize \in Nat /\ v % 8 \in 0 .. 7
  <2> SUFFICES ASSUME NEW v \in 0 .. t
               PROVE  (v \div 8) % HalfSize \in Nat /\ v % 8 \in 0 .. 7
    OBVIOUS
  <2>1. v \in Nat /\ v \div 8 \in Nat /\ v % 8 \in 0 .. 7
    BY <1>1, <1>2
  <2>2. (v \div 8) % HalfSize \in 0 .. HalfSize - 1
    BY <2>1, HalfWord, Quotient
  <2>3. QED
    BY <2>1, <2>2, HalfWord
<1>6. NextTag(r) = [field |-> (u.v \div 8) % HalfSize,
                    wireType |-> u.v % 8, r |-> u.r]
  BY DEF NextTag, u
<1>7. r.pos + n <= Len(r.data) =>
        NextTag(r) = [field |-> f, wireType |-> w,
                      r |-> [r EXCEPT !.pos = r.pos + n]]
  BY <1>1, <1>4, <1>6
<1>8. r.pos + n > Len(r.data) =>
        /\ NextTag(r).r = [r EXCEPT !.pos = Len(r.data)]
        /\ NextTag(r).field \in Nat /\ NextTag(r).wireType \in 0 .. 7
  BY <1>4, <1>5, <1>6
<1>9. QED
  BY <1>2, <1>4, <1>7, <1>8 DEF n

(* The end of what is there of n bytes that begin at p. *)
EndOf(p, n, size) == IF p + n <= size THEN p + n ELSE size

LEMMA EndIs ==
  ASSUME NEW p \in Nat, NEW n \in Nat, NEW size \in Nat, p <= size
  PROVE  /\ EndOf(p, n, size) \in p .. size
         /\ EndOf(p, n, size) = Min({p + n, size})
         /\ p + n <= size => EndOf(p, n, size) = p + n
         /\ p + n > size => EndOf(p, n, size) = size
         /\ p = size => EndOf(p, n, size) = size
<1>1. Min({p + n, size}) = IF p + n <= size THEN p + n ELSE size
  <2> DEFINE a == p + n
  <2>1. a \in Int
    OBVIOUS
  <2> HIDE DEF a
  <2>2. QED
    BY <2>1, MinOfTwo DEF a
<1>2. QED
  BY <1>1 DEF EndOf

(* What is there of s is the beginning of s. *)
LEMMA CutHere ==
  ASSUME NEW data \in Seq(Nat), NEW full \in Seq(Nat), CutOf(data, full),
         NEW a \in Nat, a <= Len(data), NEW s \in Seq(Nat), Holds(full, a, s)
  PROVE  LET v == SubSeq(data, a + 1, EndOf(a, Len(s), Len(data)))
         IN  /\ v \in Seq(Nat) /\ CutOf(v, s)
             /\ a + Len(s) <= Len(data) => v = s
<1> DEFINE size == Len(data)
           m == Len(s)
           e == EndOf(a, m, size)
           v == SubSeq(data, a + 1, e)
           k == e - a
<1>1. m \in Nat /\ size \in Nat /\ a <= size
  OBVIOUS
<1>2. \A i \in 1 .. size : data[i] \in Nat /\ data[i] = full[i]
  BY ElementOfSeq DEF CutOf
<1>3. \A i \in 1 .. m : full[a + i] = s[i]
  BY DEF Holds
<1> HIDE DEF size, m
<1>4. e \in a .. size /\ (a + m <= size => e = a + m) /\ (a + m > size => e = size)
  BY <1>1, EndIs
<1> HIDE DEF e
<1>5. /\ k \in 0 .. m /\ e \in Nat /\ (a + m <= size => k = m)
      /\ \A i \in a + 1 .. e : i \in 1 .. size
      /\ \A i \in 1 .. k : /\ a + i \in 1 .. size /\ i \in 1 .. m
                           /\ (a + 1) + i - 1 = a + i
      /\ e - (a + 1) + 1 = k /\ a + 1 \in Int /\ e \in Int
      /\ k = IF a + 1 <= e THEN e - (a + 1) + 1 ELSE 0
  BY <1>1, <1>4
<1>6. /\ v \in Seq(Nat) /\ Len(v) = k
      /\ \A i \in 1 .. k : v[i] = data[a + i]
  <2> DEFINE b == a + 1
  <2>1. /\ b \in Int /\ \A i \in b .. e : data[i] \in Nat
        /\ e - b + 1 = k /\ k = IF b <= e THEN e - b + 1 ELSE 0
        /\ \A i \in 1 .. k : b + i - 1 = a + i
    BY <1>2, <1>5
  <2> HIDE DEF b
  <2>2. /\ SubSeq(data, b, e) \in Seq(Nat)
        /\ Len(SubSeq(data, b, e)) = IF b <= e THEN e - b + 1 ELSE 0
        /\ \A i \in 1 .. e - b + 1 : SubSeq(data, b, e)[i] = data[b + i - 1]
    BY <1>5, <2>1, SubSeqProperties
  <2> HIDE DEF k
  <2>3. QED
    BY <2>1, <2>2 DEF b
<1> HIDE DEF v, k
<1>7. \A i \in 1 .. k : v[i] = s[i]
  BY <1>2, <1>3, <1>5, <1>6
<1>8. CutOf(v, s)
  BY <1>5, <1>6, <1>7 DEF CutOf, m
<1>9. k = m => v = s
  BY <1>6, <1>7, SeqEqual DEF m
<1>10. QED
  BY <1>5, <1>6, <1>8, <1>9 DEF v, e, m, size

LEMMA LengthBytes ==
  ASSUME NEW s \in Seq(Nat), Len(s) < WordSize \div 2
  PROVE  LET head == AppendVarint[Len(s)]
         IN  /\ Len(s) \in Word /\ head \in Seq(Nat) /\ Len(head) \in Nat
             /\ Len(head) > 0
             /\ head \o s \in Seq(Nat) /\ Len(head \o s) = Len(head) + Len(s)
<1> DEFINE head == AppendVarint[Len(s)]
<1>1. Len(s) \in Word
  <2> DEFINE n == Len(s)
  <2>1. n \in Nat /\ n < WordSize \div 2
    OBVIOUS
  <2> HIDE DEF n
  <2>2. n \in Word
    BY <2>1, SignedSmall
  <2>3. QED
    BY <2>2 DEF n
<1>2. head \in Seq(Nat) /\ Len(head) > 0
  BY <1>1, VarintIs
<1> HIDE DEF head
<1>3. QED
  BY <1>1, <1>2 DEF head

LEMMA BodyBytes ==
  ASSUME NEW w, NEW s, Body(w, s)
  PROVE  s \in Seq(Nat) /\ Len(s) \in Nat
<1>1. CASE w = 0 /\ \E v \in Word : s = AppendVarint[v]
  <2>1. s \in Seq(Nat)
    BY <1>1, VarintIs
  <2>2. QED
    BY <2>1
<1>2. CASE \E d \in Seq(Nat) : /\ Len(d) < WordSize \div 2
                               /\ s = AppendVarint[Len(d)] \o d
  <2>1. s \in Seq(Nat)
    BY <1>2, LengthBytes
  <2>2. QED
    BY <2>1
<1>3. CASE s = <<>>
  BY <1>3, EmptySeq
<1>4. QED
  BY <1>1, <1>2, <1>3 DEF Body

LEMMA LengthIs ==
  ASSUME NEW r \in PbReaders, NEW full \in Seq(Nat), CutOf(r.data, full),
         NEW s \in Seq(Nat), Len(s) < WordSize \div 2,
         Holds(full, r.pos, AppendVarint[Len(s)] \o s)
  PROVE  LET h == Len(AppendVarint[Len(s)])
             u == ReadVarint(r)
             past == u.r.pos + Signed(u.v, WordSize)
         IN  /\ h \in Nat /\ Holds(full, r.pos + h, s)
             /\ r.pos + h <= Len(r.data) =>
                  u.r.pos = r.pos + h /\ past = r.pos + h + Len(s)
             /\ r.pos + h > Len(r.data) =>
                  /\ u.r.pos = Len(r.data)
                  /\ past \in Nat /\ past >= Len(r.data)
<1> DEFINE m == Len(s)
           head == AppendVarint[m]
           h == Len(head)
           size == Len(r.data)
           p == r.pos
           u == ReadVarint(r)
<1>1. /\ m \in Nat /\ m < WordSize \div 2 /\ m \in Word
      /\ size \in Nat /\ p \in Nat /\ p <= size
  BY PbFields, LengthBytes
<1>2. head \in Seq(Nat) /\ h \in Nat
  BY LengthBytes
<1>3. Holds(full, p, head) /\ Holds(full, p + h, s)
  <2> DEFINE t == head
  <2> HIDE DEF head
  <2>1. QED
    BY <1>1, <1>2, HoldsBoth DEF head
<1>4. /\ p + h <= size => u = [v |-> m, r |-> [r EXCEPT !.pos = p + h]]
      /\ p + h > size => u.v \in 0 .. m /\ u.r = [r EXCEPT !.pos = size]
  BY <1>1, <1>3, VarintComesBack
<1>5. \A q : [r EXCEPT !.pos = q].pos = q
  BY DEF PbReaders
<1> HIDE DEF u, p, size, h, m
<1>6. \A v \in 0 .. m : v \in Nat /\ Signed(v, WordSize) = v
  <2> SUFFICES ASSUME NEW v \in 0 .. m PROVE v \in Nat /\ Signed(v, WordSize) = v
    OBVIOUS
  <2>1. v \in Nat /\ v < WordSize \div 2
    BY <1>1, HalfWord
  <2>2. QED
    BY <2>1, SignedSmall
<1>7. m \in 0 .. m
  BY <1>1
<1>8. p + h <= size => u.v = m /\ u.r.pos = p + h
  <2> SUFFICES ASSUME p + h <= size PROVE u.v = m /\ u.r.pos = p + h
    OBVIOUS
  <2> DEFINE x == [r EXCEPT !.pos = p + h]
  <2>1. u = [v |-> m, r |-> x] /\ x.pos = p + h
    BY <1>4, <1>5
  <2> HIDE DEF x
  <2>2. QED
    BY <2>1
<1>9. p + h > size => u.v \in 0 .. m /\ u.r.pos = size
  BY <1>4, <1>5
<1>10. /\ p + h <= size => u.r.pos + Signed(u.v, WordSize) = p + h + m
       /\ p + h > size => /\ u.r.pos + Signed(u.v, WordSize) \in Nat
                          /\ u.r.pos + Signed(u.v, WordSize) >= size
  <2> DEFINE x == u.v
             y == u.r.pos
             z == Signed(u.v, WordSize)
  <2>1. p + h <= size => y = p + h /\ z = m
    BY <1>6, <1>7, <1>8
  <2>2. p + h > size => y = size /\ z \in Nat
    BY <1>6, <1>9
  <2> HIDE DEF x, y, z
  <2>3. p + h <= size => y + z = p + h + m
    BY <1>1, <1>2, <2>1
  <2>4. p + h > size => y + z \in Nat /\ y + z >= size
    BY <1>1, <1>2, <2>2
  <2>5. QED
    BY <2>3, <2>4 DEF y, z
<1>11. QED
  BY <1>2, <1>3, <1>8, <1>9, <1>10 DEF u, p, size, h, m

(* The length and the bytes after it, as many as there are. *)
LEMMA BytesAreRead ==
  ASSUME NEW r \in PbReaders, NEW full \in Seq(Nat), CutOf(r.data, full),
         NEW s \in Seq(Nat), Len(s) < WordSize \div 2,
         Holds(full, r.pos, AppendVarint[Len(s)] \o s)
  PROVE  LET n == Len(AppendVarint[Len(s)] \o s)
             b == ReadBytes(r)
         IN  /\ n \in Nat
             /\ b.v \in Seq(Nat) /\ CutOf(b.v, s)
             /\ b.r = [r EXCEPT !.pos = EndOf(r.pos, n, Len(r.data))]
             /\ r.pos + n <= Len(r.data) => b.v = s
<1> DEFINE m == Len(s)
           head == AppendVarint[m]
           h == Len(head)
           data == r.data
           size == Len(data)
           p == r.pos
           u == ReadVarint(r)
           past == u.r.pos + Signed(u.v, WordSize)
           e == Min({past, size})
           b == ReadBytes(r)
           n == Len(head \o s)
<1>1. /\ m \in Nat /\ data \in Seq(Nat) /\ size \in Nat /\ p \in Nat /\ p <= size
      /\ CutOf(data, full)
  BY PbFields
<1>2. h \in Nat /\ n = h + m
  BY LengthBytes
<1>3. /\ Holds(full, p + h, s)
      /\ p + h <= size => u.r.pos = p + h /\ past = p + h + m
      /\ p + h > size => u.r.pos = size /\ past \in Nat /\ past >= size
  BY LengthIs
<1>4. b = [v |-> SubSeq(data, u.r.pos + 1, e), r |-> [r EXCEPT !.pos = e]]
  BY DEF ReadBytes
<1> DEFINE q == u.r.pos
           v == SubSeq(data, q + 1, e)
           after == [r EXCEPT !.pos = e]
<1>5. b.v = v /\ b.r = after
  <2>1. b = [v |-> v, r |-> after]
    BY <1>4
  <2> HIDE DEF b, v, after
  <2>2. QED
    BY <2>1
<1> HIDE DEF b, v, e, past, q, n, h, size, p, data
<1>6. CASE p + h <= size
  <2>1. q = p + h /\ past = (p + h) + m
    BY <1>3, <1>6 DEF q
  <2> DEFINE a == p + h
  <2>2. a \in Nat /\ a <= size /\ a + m = p + n
    BY <1>1, <1>2, <1>6
  <2>3. q = a /\ past = a + m
    BY <2>1
  <2>4. Holds(full, a, s)
    BY <1>3
  <2> HIDE DEF a, m
  <2>5. e = EndOf(a, m, size)
    BY <1>1, <2>2, <2>3, EndIs DEF e
  <2>6. EndOf(a, m, size) = EndOf(p, n, size)
    BY <2>2 DEF EndOf
  <2>7. v = SubSeq(data, a + 1, EndOf(a, m, size))
    BY <2>3, <2>5 DEF v
  <2>8. v \in Seq(Nat) /\ CutOf(v, s) /\ (a + m <= size => v = s)
    BY <1>1, <2>2, <2>4, <2>7, CutHere DEF m, size
  <2>9. n \in Nat
    BY <1>1, <1>2
  <2>10. QED
    BY <1>5, <2>2, <2>5, <2>6, <2>8, <2>9 DEF b, n, h, size, p, data, m
<1>7. CASE p + h > size
  <2>1. q = size /\ past \in Nat /\ past >= size
    BY <1>3, <1>7 DEF q
  <2>2. e = size
    <3>1. Min({past, size}) = IF past <= size THEN past ELSE size
      BY <1>1, <2>1, MinOfTwo, SMTT(40)
    <3>2. QED
      BY <1>1, <2>1, <3>1 DEF e
  <2>3. v = <<>>
    <3>1. size + 1 \in Int /\ size \in Int /\ size < size + 1
      BY <1>1
    <3>2. SubSeq(data, size + 1, size) = <<>>
      BY <3>1, SubSeqEmpty
    <3>3. QED
      BY <2>1, <2>2, <3>2 DEF v
  <2>4. CutOf(<<>>, s) /\ <<>> \in Seq(Nat)
    BY <1>1 DEF CutOf
  <2> HIDE DEF m
  <2>5. p + n > size /\ n \in Nat
    BY <1>1, <1>2, <1>7
  <2>6. EndOf(p, n, size) = size /\ ~(p + n <= size)
    BY <1>1, <2>5 DEF EndOf
  <2>7. QED
    BY <1>5, <2>2, <2>3, <2>4, <2>5, <2>6 DEF b, n, h, size, p, data, m
<1>8. QED
  BY <1>1, <1>2, <1>6, <1>7

-----------------------------------------------------------------------------
(* The end of the data is the most that is skipped. *)
LEMMA MinAtEnd ==
  ASSUME NEW past \in Nat, NEW size \in Nat, past >= size
  PROVE  Min({past, size}) = size
<1>1. Min({past, size}) = IF past <= size THEN past ELSE size
  BY MinOfTwo
<1>2. QED
  BY <1>1

(* How far is skipped. *)
SkipEnd(r, w) ==
  CASE w = 0 -> ReadVarint(r).r.pos
    [] w = 1 -> r.pos + WordBytes
    [] w = 2 -> ReadVarint(r).r.pos + Signed(ReadVarint(r).v, WordSize)
    [] w = 5 -> r.pos + HalfBytes
    [] OTHER -> r.pos

LEMMA Skips ==
  ASSUME NEW r, NEW w
  PROVE  Skip(r, w) = [r EXCEPT !.pos = Min({SkipEnd(r, w), Len(r.data)})]
BY DEF Skip, SkipEnd

LEMMA SkipEnds ==
  ASSUME NEW r
  PROVE  /\ SkipEnd(r, 0) = ReadVarint(r).r.pos
         /\ SkipEnd(r, 1) = r.pos + WordBytes
         /\ SkipEnd(r, 2) =
              ReadVarint(r).r.pos + Signed(ReadVarint(r).v, WordSize)
         /\ SkipEnd(r, 5) = r.pos + HalfBytes
         /\ \A w : w \notin {0, 1, 2, 5} => SkipEnd(r, w) = r.pos
BY DEF SkipEnd

LEMMA SkipIs ==
  ASSUME NEW r \in PbReaders, NEW full \in Seq(Nat), CutOf(r.data, full),
         NEW w, NEW s, Body(w, s), Holds(full, r.pos, s)
  PROVE  Skip(r, w) = [r EXCEPT !.pos = EndOf(r.pos, Len(s), Len(r.data))]
<1> DEFINE m == Len(s)
           size == Len(r.data)
           p == r.pos
           u == ReadVarint(r)
           e == SkipEnd(r, w)
<1>1. /\ s \in Seq(Nat) /\ m \in Nat /\ size \in Nat /\ p \in Nat /\ p <= size
      /\ WordBytes \in Nat /\ HalfBytes \in Nat
  BY PbFields, BodyBytes, Sizes
<1>2. SUFFICES Min({e, size}) = EndOf(p, m, size)
  BY Skips
<1> HIDE DEF m, p, size
<1>3. /\ p + m > size => EndOf(p, m, size) = size
      /\ e = p + m => Min({e, size}) = EndOf(p, m, size)
      /\ e \in Nat /\ e >= size => Min({e, size}) = size
  <2> DEFINE x == p + m
  <2>1. Min({x, size}) = EndOf(p, m, size) /\ (x > size => EndOf(p, m, size) = size)
    <3>1. p \in Nat /\ m \in Nat /\ size \in Nat /\ p <= size
      BY <1>1
    <3>2. EndOf(p, m, size) = Min({p + m, size})
      BY <3>1, EndIs
    <3>3. p + m > size => EndOf(p, m, size) = size
      BY <3>1, EndIs, Zenon
    <3>4. QED
      BY <3>2, <3>3, Zenon
  <2> HIDE DEF x, e
  <2>2. e = x => Min({e, size}) = EndOf(p, m, size)
    BY <2>1
  <2>3. e \in Nat /\ e >= size => Min({e, size}) = size
    BY <1>1, MinAtEnd
  <2>4. QED
    BY <2>1, <2>2, <2>3 DEF x
<1>4. CASE w = 1 /\ Len(s) = WordBytes
  BY <1>3, <1>4, SkipEnds DEF m, p
<1>5. CASE w = 5 /\ Len(s) = HalfBytes
  BY <1>3, <1>5, SkipEnds DEF m, p
<1>6. CASE w = 0 /\ \E v \in Word : s = AppendVarint[v]
  <2>1. PICK v \in Word : s = AppendVarint[v]
    BY <1>6
  <2>2. /\ p + m <= size => u = [v |-> v, r |-> [r EXCEPT !.pos = p + m]]
        /\ p + m > size => u.r = [r EXCEPT !.pos = size]
    BY <2>1, VarintComesBack DEF p, m, size
  <2>3. \A q : [r EXCEPT !.pos = q].pos = q
    BY DEF PbReaders
  <2>4. e = u.r.pos
    BY <1>6, SkipEnds
  <2> HIDE DEF u, e
  <2>5. p + m <= size => e = p + m
    <3> SUFFICES ASSUME p + m <= size PROVE e = p + m
      OBVIOUS
    <3> DEFINE x == [r EXCEPT !.pos = p + m]
    <3>1. x.pos = p + m /\ u = [v |-> v, r |-> x]
      BY <2>2, <2>3
    <3> HIDE DEF x
    <3>2. QED
      BY <2>4, <3>1
  <2>6. p + m > size => e = size
    <3> SUFFICES ASSUME p + m > size PROVE e = size
      OBVIOUS
    <3>1. [r EXCEPT !.pos = size].pos = size
      BY <2>3
    <3>2. QED
      BY <2>2, <2>4, <3>1
  <2>7. QED
    BY <1>1, <1>3, <2>5, <2>6 DEF e
<1>7. CASE w = 2 /\ \E d \in Seq(Nat) : /\ Len(d) < WordSize \div 2
                                        /\ s = AppendVarint[Len(d)] \o d
  <2>1. PICK d \in Seq(Nat) : /\ Len(d) < WordSize \div 2
                              /\ s = AppendVarint[Len(d)] \o d
    BY <1>7
  <2> DEFINE h == Len(AppendVarint[Len(d)])
             k == Len(d)
  <2>2. h \in Nat /\ m = h + k /\ k \in Nat
    BY <2>1, LengthBytes DEF m
  <2>3. e = u.r.pos + Signed(u.v, WordSize)
    BY <1>7, SkipEnds
  <2>4. /\ p + h <= size => e = p + h + k
        /\ p + h > size => e \in Nat /\ e >= size
    <3>1. /\ r.pos + h <= Len(r.data) =>
               u.r.pos + Signed(u.v, WordSize) = r.pos + h + k
          /\ r.pos + h > Len(r.data) =>
               /\ u.r.pos + Signed(u.v, WordSize) \in Nat
               /\ u.r.pos + Signed(u.v, WordSize) >= Len(r.data)
      BY <2>1, LengthIs
    <3>2. QED
      BY <2>3, <3>1 DEF p, size
  <2> HIDE DEF h, k, e
  <2>5. CASE p + h <= size
    <3>1. e = p + m
      BY <1>1, <2>2, <2>4, <2>5
    <3>2. QED
      BY <1>3, <3>1 DEF e
  <2>6. CASE p + h > size
    <3>1. Min({e, size}) = size
      BY <1>3, <2>4, <2>6 DEF e
    <3>2. p + m > size
      BY <1>1, <2>2, <2>6
    <3>3. QED
      BY <1>3, <3>1, <3>2 DEF e
  <2>7. QED
    BY <1>1, <2>2, <2>5, <2>6
<1>8. CASE w \notin {0, 1, 2, 5} /\ s = <<>>
  <2>1. e = p
    BY <1>8, SkipEnds, Zenon DEF p, e
  <2>2. m = 0
    BY <1>8, EmptySeq DEF m
  <2> HIDE DEF e
  <2>3. e = p + m
    BY <1>1, <2>1, <2>2
  <2>4. QED
    BY <1>3, <2>3 DEF e
<1>9. QED
  BY <1>4, <1>5, <1>6, <1>7, <1>8 DEF Body

(* At the end there is nothing to skip, and no bytes to read. *)
LEMMA NothingAtEnd ==
  ASSUME NEW r \in PbReaders, r.pos = Len(r.data), NEW w
  PROVE  /\ Skip(r, w) = [r EXCEPT !.pos = Len(r.data)]
         /\ ReadBytes(r) = [v |-> <<>>, r |-> [r EXCEPT !.pos = Len(r.data)]]
<1> DEFINE size == Len(r.data)
           u == ReadVarint(r)
           past == u.r.pos + Signed(u.v, WordSize)
           e == SkipEnd(r, w)
<1>1. size \in Nat /\ r.pos = size /\ WordBytes \in Nat /\ HalfBytes \in Nat
  BY PbFields, Sizes
<1>2. u.v = 0 /\ u.r.pos = size
  <2>1. u = [v |-> 0, r |-> [r EXCEPT !.pos = size]]
    BY VarintAtEnd
  <2>2. [r EXCEPT !.pos = size].pos = size
    BY DEF PbReaders
  <2> HIDE DEF u, size
  <2>3. QED
    BY <2>1, <2>2
<1>3. Signed(0, WordSize) = 0
  <2>1. 0 \in Nat /\ 0 < WordSize \div 2
    <3>1. WordSize \in Nat /\ WordSize > 127
      BY HalfWord
    <3>2. QED
      BY <3>1
  <2>2. QED
    BY <2>1, SignedSmall
<1>4. past = size
  <2> HIDE DEF size, u
  <2>1. QED
    BY <1>1, <1>2, <1>3
<1>5. ReadBytes(r) = [v |-> SubSeq(r.data, u.r.pos + 1, Min({past, size})),
                      r |-> [r EXCEPT !.pos = Min({past, size})]]
  BY DEF ReadBytes
<1>6. e \in Nat /\ e >= size
  <2>1. \/ e = u.r.pos \/ e = r.pos + WordBytes \/ e = past
        \/ e = r.pos + HalfBytes \/ e = r.pos
    BY SkipEnds
  <2> HIDE DEF size, u, past, e
  <2>2. QED
    BY <1>1, <1>2, <1>4, <2>1
<1>7. Skip(r, w) = [r EXCEPT !.pos = Min({e, size})]
  BY Skips
<1> HIDE DEF u, size, past, e
<1>8. Min({size, size}) = size /\ Min({e, size}) = size
  BY <1>1, <1>6, MinAtEnd
<1>9. SubSeq(r.data, size + 1, size) = <<>>
  BY <1>1, SubSeqEmpty
<1>10. ReadBytes(r) = [v |-> <<>>, r |-> [r EXCEPT !.pos = size]]
  BY <1>2, <1>4, <1>5, <1>8, <1>9
<1>11. QED
  BY <1>7, <1>8, <1>10 DEF size

-----------------------------------------------------------------------------
(***************************************************************************)
(* The exports, as the rows of one table.                                  *)
(***************************************************************************)
(* The elements of the first n of a table. *)
RowsOf(table, n) == {table[i] : i \in 1 .. n}

(* The rows of all of them. *)
Rows == RowsOf(ExportsToDictValues, 10) \cup RowsOf(ExportsToListAppend, 10)
          \cup RowsOf(ExportsToNewTuple, 7) \cup RowsOf(ExportsToStr, 8)

LEMMA TablesOfRows ==
  /\ ExportsToDictValues \in Seq(Rows) /\ Len(ExportsToDictValues) = 10
  /\ ExportsToListAppend \in Seq(Rows) /\ Len(ExportsToListAppend) = 10
  /\ ExportsToNewTuple \in Seq(Rows) /\ Len(ExportsToNewTuple) = 7
  /\ ExportsToStr \in Seq(Rows) /\ Len(ExportsToStr) = 8
<1>1. /\ ExportsToDictValues \in Seq(RowsOf(ExportsToDictValues, 10))
      /\ Len(ExportsToDictValues) = 10
  BY DEF RowsOf, ExportsToDictValues
<1>2. /\ ExportsToListAppend \in Seq(RowsOf(ExportsToListAppend, 10))
      /\ Len(ExportsToListAppend) = 10
  BY DEF RowsOf, ExportsToListAppend
<1>3. /\ ExportsToNewTuple \in Seq(RowsOf(ExportsToNewTuple, 7))
      /\ Len(ExportsToNewTuple) = 7
  BY DEF RowsOf, ExportsToNewTuple
<1>4. /\ ExportsToStr \in Seq(RowsOf(ExportsToStr, 8))
      /\ Len(ExportsToStr) = 8
  BY DEF RowsOf, ExportsToStr
<1>5. /\ RowsOf(ExportsToDictValues, 10) \subseteq Rows
      /\ RowsOf(ExportsToListAppend, 10) \subseteq Rows
      /\ RowsOf(ExportsToNewTuple, 7) \subseteq Rows
      /\ RowsOf(ExportsToStr, 8) \subseteq Rows
  BY DEF Rows
<1>6. QED
  BY <1>1, <1>2, <1>3, <1>4, <1>5, SeqMonotonic

(* The elements of a sequence that is joined to another, at their places. *)
LEMMA JoinedAt ==
  ASSUME NEW S, NEW a \in Seq(S), NEW b \in Seq(S)
  PROVE  /\ a \o b \in Seq(S) /\ Len(a \o b) = Len(a) + Len(b)
         /\ \A i \in 1 .. Len(a) : (a \o b)[i] = a[i]
         /\ \A i \in 1 .. Len(b) : (a \o b)[Len(a) + i] = b[i]
OBVIOUS

(* The rows of the four parts of the table are its rows, in that order. *)
LEMMA RowIs ==
  /\ \A i \in 1 .. 10 : Exports[i] = ExportsToDictValues[i]
  /\ \A i \in 1 .. 10 : Exports[10 + i] = ExportsToListAppend[i]
  /\ \A i \in 1 .. 7 : Exports[20 + i] = ExportsToNewTuple[i]
  /\ \A i \in 1 .. 8 : Exports[27 + i] = ExportsToStr[i]
<1> DEFINE a == ExportsToDictValues
           b == ExportsToListAppend
           c == ExportsToNewTuple
           d == ExportsToStr
           ab == a \o b
           abc == ab \o c
           all == abc \o d
<1>1. /\ Len(a) = 10 /\ Len(b) = 10 /\ Len(c) = 7 /\ Len(d) = 8
  BY TablesOfRows
<1>0. /\ a \in Seq(Rows) /\ b \in Seq(Rows) /\ c \in Seq(Rows) /\ d \in Seq(Rows)
  BY TablesOfRows
<1>2. Exports = all
  BY DEF Exports
<1> HIDE DEF a, b, c, d
<1>3. /\ ab \in Seq(Rows) /\ Len(ab) = Len(a) + Len(b)
      /\ \A i \in 1 .. Len(a) : ab[i] = a[i]
      /\ \A i \in 1 .. Len(b) : ab[Len(a) + i] = b[i]
  BY <1>0, JoinedAt
<1> HIDE DEF ab
<1>11. ab \in Seq(Rows)
  BY <1>3
<1>4. Len(ab) = 20
  BY <1>1, <1>3
<1>5. /\ abc \in Seq(Rows) /\ Len(abc) = Len(ab) + Len(c)
      /\ \A i \in 1 .. Len(ab) : abc[i] = ab[i]
      /\ \A i \in 1 .. Len(c) : abc[Len(ab) + i] = c[i]
  BY <1>0, <1>11, JoinedAt
<1> HIDE DEF abc
<1>6. Len(abc) = 27
  BY <1>1, <1>4, <1>5
<1>7. /\ \A i \in 1 .. Len(abc) : all[i] = abc[i]
      /\ \A i \in 1 .. Len(d) : all[Len(abc) + i] = d[i]
  BY <1>0, <1>5, JoinedAt, SMTT(40)
<1> HIDE DEF all
<1>8. /\ \A i \in 1 .. 10 : i \in 1 .. 20 /\ i \in 1 .. 27
      /\ \A i \in 1 .. 10 : 10 + i \in 1 .. 20 /\ 10 + i \in 1 .. 27
      /\ \A i \in 1 .. 7 : 20 + i \in 1 .. 27
  OBVIOUS
<1>9. /\ \A i \in 1 .. 10 : ab[i] = a[i] /\ ab[10 + i] = b[i]
      /\ \A i \in 1 .. 20 : abc[i] = ab[i]
      /\ \A i \in 1 .. 7 : abc[20 + i] = c[i]
      /\ \A i \in 1 .. 27 : all[i] = abc[i]
      /\ \A i \in 1 .. 8 : all[27 + i] = d[i]
  BY <1>1, <1>3, <1>4, <1>5, <1>6, <1>7
<1>10. QED
  BY <1>2, <1>8, <1>9 DEF a, b, c, d

LEMMA FirstRows ==
  /\ Called("asyncExcAddr") = Export(<<>>, "half")
  /\ Called("CallOp") = Export(Object \o Buffer \o Buffer, "node")
  /\ Called("CallMethodOp") = Export(Object \o Buffer \o Buffer \o Buffer, "node")
  /\ Called("Close") = Export(<<>>, "checked")
  /\ Called("ContainsOp") = Export(Object \o Buffer, "bool")
  /\ Called("DelItemOp") = Export(Object \o Buffer, "empty")
  /\ Called("DictGetOp") = Export(Object \o Buffer, "exists")
  /\ Called("DictItemsOp") = Export(Object, "items")
  /\ Called("DictKeysOp") = Export(Object, "list")
  /\ Called("DictValuesOp") = Export(Object, "list")
<1>1. \A i \in 1 .. 10 : Exports[i] = ExportsToDictValues[i]
  BY RowIs
<1>2. /\ Entry["asyncExcAddr"] + 1 = 1
      /\ Entry["CallOp"] + 1 = 2
      /\ Entry["CallMethodOp"] + 1 = 3
      /\ Entry["Close"] + 1 = 4
      /\ Entry["ContainsOp"] + 1 = 5
      /\ Entry["DelItemOp"] + 1 = 6
      /\ Entry["DictGetOp"] + 1 = 7
      /\ Entry["DictItemsOp"] + 1 = 8
      /\ Entry["DictKeysOp"] + 1 = 9
      /\ Entry["DictValuesOp"] + 1 = 10
  BY DEF Entry
<1>3. Called("asyncExcAddr") = ExportsToDictValues[1]
  BY <1>1, <1>2 DEF Called
<1>4. Called("CallOp") = ExportsToDictValues[2]
  BY <1>1, <1>2 DEF Called
<1>5. Called("CallMethodOp") = ExportsToDictValues[3]
  BY <1>1, <1>2 DEF Called
<1>6. Called("Close") = ExportsToDictValues[4]
  BY <1>1, <1>2 DEF Called
<1>7. Called("ContainsOp") = ExportsToDictValues[5]
  BY <1>1, <1>2 DEF Called
<1>8. Called("DelItemOp") = ExportsToDictValues[6]
  BY <1>1, <1>2 DEF Called
<1>9. Called("DictGetOp") = ExportsToDictValues[7]
  BY <1>1, <1>2 DEF Called
<1>10. Called("DictItemsOp") = ExportsToDictValues[8]
  BY <1>1, <1>2 DEF Called
<1>11. Called("DictKeysOp") = ExportsToDictValues[9]
  BY <1>1, <1>2 DEF Called
<1>12. Called("DictValuesOp") = ExportsToDictValues[10]
  BY <1>1, <1>2 DEF Called
<1>13. QED
  BY <1>3, <1>4, <1>5, <1>6, <1>7, <1>8, <1>9, <1>10, <1>11, <1>12 DEF ExportsToDictValues

LEMMA SecondRows ==
  /\ Called("EvalOp") = Export(<<"text">>, "eval")
  /\ Called("breakerAddr") = Export(<<>>, "half")
  /\ Called("GetAttrOp") = Export(Object \o Buffer, "node")
  /\ Called("GetItemOp") = Export(Object \o Buffer, "node")
  /\ Called("ImportOp") = Export(Buffer, "node")
  /\ Called("IsInstanceOp") = Export(Object \o Object, "bool")
  /\ Called("IterOp") = Export(Object, "list")
  /\ Called("kbdIntObj") = Export(<<>>, "half")
  /\ Called("LenOp") = Export(Object, "i64")
  /\ Called("ListAppendOp") = Export(Object \o Buffer, "empty")
<1>1. \A i \in 1 .. 10 : Exports[10 + i] = ExportsToListAppend[i]
  BY RowIs
<1>2. /\ Entry["EvalOp"] + 1 = 11
      /\ Entry["breakerAddr"] + 1 = 12
      /\ Entry["GetAttrOp"] + 1 = 13
      /\ Entry["GetItemOp"] + 1 = 14
      /\ Entry["ImportOp"] + 1 = 15
      /\ Entry["IsInstanceOp"] + 1 = 16
      /\ Entry["IterOp"] + 1 = 17
      /\ Entry["kbdIntObj"] + 1 = 18
      /\ Entry["LenOp"] + 1 = 19
      /\ Entry["ListAppendOp"] + 1 = 20
  BY DEF Entry
<1>3. Called("EvalOp") = ExportsToListAppend[1]
  BY <1>1, <1>2 DEF Called
<1>4. Called("breakerAddr") = ExportsToListAppend[2]
  BY <1>1, <1>2 DEF Called
<1>5. Called("GetAttrOp") = ExportsToListAppend[3]
  BY <1>1, <1>2 DEF Called
<1>6. Called("GetItemOp") = ExportsToListAppend[4]
  BY <1>1, <1>2 DEF Called
<1>7. Called("ImportOp") = ExportsToListAppend[5]
  BY <1>1, <1>2 DEF Called
<1>8. Called("IsInstanceOp") = ExportsToListAppend[6]
  BY <1>1, <1>2 DEF Called
<1>9. Called("IterOp") = ExportsToListAppend[7]
  BY <1>1, <1>2 DEF Called
<1>10. Called("kbdIntObj") = ExportsToListAppend[8]
  BY <1>1, <1>2 DEF Called
<1>11. Called("LenOp") = ExportsToListAppend[9]
  BY <1>1, <1>2 DEF Called
<1>12. Called("ListAppendOp") = ExportsToListAppend[10]
  BY <1>1, <1>2 DEF Called
<1>13. QED
  BY <1>3, <1>4, <1>5, <1>6, <1>7, <1>8, <1>9, <1>10, <1>11, <1>12 DEF ExportsToListAppend

LEMMA ThirdRows ==
  /\ Called("pyNew") = [takes |-> <<"text">>, answers |-> "word"]
  /\ Called("NewDictOp") = Export(Buffer, "node")
  /\ Called("NewFrozenSetOp") = Export(Buffer, "node")
  /\ Called("NewFunctionOp") = Export(Buffer \o <<"int32">>, "node")
  /\ Called("NewListOp") = Export(Buffer, "node")
  /\ Called("NewSetOp") = Export(Buffer, "node")
  /\ Called("NewTupleOp") = Export(Buffer, "node")
<1>1. \A i \in 1 .. 7 : Exports[20 + i] = ExportsToNewTuple[i]
  BY RowIs
<1>2. /\ Entry["pyNew"] + 1 = 21
      /\ Entry["NewDictOp"] + 1 = 22
      /\ Entry["NewFrozenSetOp"] + 1 = 23
      /\ Entry["NewFunctionOp"] + 1 = 24
      /\ Entry["NewListOp"] + 1 = 25
      /\ Entry["NewSetOp"] + 1 = 26
      /\ Entry["NewTupleOp"] + 1 = 27
  BY DEF Entry
<1>3. Called("pyNew") = ExportsToNewTuple[1]
  BY <1>1, <1>2 DEF Called
<1>4. Called("NewDictOp") = ExportsToNewTuple[2]
  BY <1>1, <1>2 DEF Called
<1>5. Called("NewFrozenSetOp") = ExportsToNewTuple[3]
  BY <1>1, <1>2 DEF Called
<1>6. Called("NewFunctionOp") = ExportsToNewTuple[4]
  BY <1>1, <1>2 DEF Called
<1>7. Called("NewListOp") = ExportsToNewTuple[5]
  BY <1>1, <1>2 DEF Called
<1>8. Called("NewSetOp") = ExportsToNewTuple[6]
  BY <1>1, <1>2 DEF Called
<1>9. Called("NewTupleOp") = ExportsToNewTuple[7]
  BY <1>1, <1>2 DEF Called
<1>10. QED
  BY <1>3, <1>4, <1>5, <1>6, <1>7, <1>8, <1>9 DEF ExportsToNewTuple

LEMMA FourthRows ==
  /\ Called("drainReleases") = Export(Buffer, "empty")
  /\ Called("ReprOp") = Export(Object, "text")
  /\ Called("SetAddOp") = Export(Object \o Buffer, "empty")
  /\ Called("SetDiscardOp") = Export(Object \o Buffer, "empty")
  /\ Called("EnsureDispatcher") = Export(<<"int32">>, "checked")
  /\ Called("SetAttrOp") = Export(Object \o Buffer \o Buffer, "empty")
  /\ Called("SetItemOp") = Export(Object \o Buffer \o Buffer, "empty")
  /\ Called("StrOp") = Export(Object, "text")
<1>1. \A i \in 1 .. 8 : Exports[27 + i] = ExportsToStr[i]
  BY RowIs
<1>2. /\ Entry["drainReleases"] + 1 = 28
      /\ Entry["ReprOp"] + 1 = 29
      /\ Entry["SetAddOp"] + 1 = 30
      /\ Entry["SetDiscardOp"] + 1 = 31
      /\ Entry["EnsureDispatcher"] + 1 = 32
      /\ Entry["SetAttrOp"] + 1 = 33
      /\ Entry["SetItemOp"] + 1 = 34
      /\ Entry["StrOp"] + 1 = 35
  BY DEF Entry
<1>3. Called("drainReleases") = ExportsToStr[1]
  BY <1>1, <1>2 DEF Called
<1>4. Called("ReprOp") = ExportsToStr[2]
  BY <1>1, <1>2 DEF Called
<1>5. Called("SetAddOp") = ExportsToStr[3]
  BY <1>1, <1>2 DEF Called
<1>6. Called("SetDiscardOp") = ExportsToStr[4]
  BY <1>1, <1>2 DEF Called
<1>7. Called("EnsureDispatcher") = ExportsToStr[5]
  BY <1>1, <1>2 DEF Called
<1>8. Called("SetAttrOp") = ExportsToStr[6]
  BY <1>1, <1>2 DEF Called
<1>9. Called("SetItemOp") = ExportsToStr[7]
  BY <1>1, <1>2 DEF Called
<1>10. Called("StrOp") = ExportsToStr[8]
  BY <1>1, <1>2 DEF Called
<1>11. QED
  BY <1>3, <1>4, <1>5, <1>6, <1>7, <1>8, <1>9, <1>10 DEF ExportsToStr

-----------------------------------------------------------------------------
(* A half word is a word. *)
LEMMA HalfIsWord ==
  WordSize \in Nat \ {0} /\ HalfSize \in Nat \ {0} /\ HalfSize <= WordSize
<1>1. HalfSize <= WordSize \div 2
  BY SizesAssumption DEF HalfSize, WordSize
<1>2. QED
  BY <1>1, HalfWord

LEMMA SmallModulus ==
  ASSUME NEW n \in Nat \ {0}, NEW w \in Nat, n <= w, NEW k \in 0 .. n - 1
  PROVE  k \in 0 .. w - 1 /\ (k % n) = k
OBVIOUS

LEMMA FunctionIsSeq ==
  ASSUME NEW S, NEW n \in Nat, NEW f \in [1 .. n -> S]
  PROVE  f \in Seq(S) /\ Len(f) = n
OBVIOUS

(* Of a sequence, the first elements and the one after them.               *)
LEMMA FirstOnes ==
  ASSUME NEW S, NEW s \in Seq(S)
  PROVE  /\ SubSeq(s, 1, 0) = <<>> /\ SubSeq(s, 1, Len(s)) = s
         /\ \A k \in 0 .. Len(s) :
              SubSeq(s, 1, k) \in Seq(S) /\ Len(SubSeq(s, 1, k)) = k
         /\ \A k \in 0 .. Len(s) - 1 :
              Append(SubSeq(s, 1, k), s[k + 1]) = SubSeq(s, 1, k + 1)
<1> DEFINE n == Len(s)
<1>1. n \in Nat /\ \A i \in 1 .. n : s[i] \in S
  BY ElementOfSeq
<1>2. SubSeq(s, 1, 0) = <<>> /\ SubSeq(s, 1, n) = s
  BY SubSeqEmpty, SubSeqFull
<1> HIDE DEF n
<1>3. ASSUME NEW k \in 0 .. n
      PROVE  /\ SubSeq(s, 1, k) \in Seq(S) /\ Len(SubSeq(s, 1, k)) = k
             /\ \A i \in 1 .. k : SubSeq(s, 1, k)[i] = s[i]
  <2>1. k \in Int /\ 1 \in Int /\ (\A i \in 1 .. k : s[i] \in S)
        /\ k = (IF 1 <= k THEN k - 1 + 1 ELSE 0) /\ k - 1 + 1 = k
        /\ \A i \in 1 .. k : 1 + i - 1 = i
    BY <1>1
  <2>2. /\ SubSeq(s, 1, k) \in Seq(S)
        /\ Len(SubSeq(s, 1, k)) = IF 1 <= k THEN k - 1 + 1 ELSE 0
        /\ \A i \in 1 .. k - 1 + 1 : SubSeq(s, 1, k)[i] = s[1 + i - 1]
    BY <2>1, SubSeqProperties
  <2>3. QED
    BY <2>1, <2>2
<1>4. ASSUME NEW k \in 0 .. n - 1
      PROVE  Append(SubSeq(s, 1, k), s[k + 1]) = SubSeq(s, 1, k + 1)
  <2> DEFINE a == SubSeq(s, 1, k)
             b == SubSeq(s, 1, k + 1)
             e == s[k + 1]
  <2>1. k \in 0 .. n /\ k + 1 \in 0 .. n /\ k \in Nat /\ k + 1 \in 1 .. n
    BY <1>1
  <2>2. /\ a \in Seq(S) /\ Len(a) = k /\ \A i \in 1 .. k : a[i] = s[i]
        /\ b \in Seq(S) /\ Len(b) = k + 1 /\ \A i \in 1 .. k + 1 : b[i] = s[i]
        /\ e \in S
    BY <1>1, <1>3, <2>1
  <2>3. b[k + 1] = e
    BY <2>1, <2>2
  <2> HIDE DEF a, b, e
  <2>4. /\ Append(a, e) \in Seq(S) /\ Len(Append(a, e)) = k + 1
        /\ Append(a, e)[k + 1] = e /\ \A i \in 1 .. k : Append(a, e)[i] = a[i]
    BY <2>1, <2>2
  <2>5. \A i \in 1 .. k + 1 : i \in 1 .. k \/ i = k + 1
    BY <2>1
  <2>6. \A i \in 1 .. k + 1 : Append(a, e)[i] = b[i]
    <3> SUFFICES ASSUME NEW i \in 1 .. k + 1 PROVE Append(a, e)[i] = b[i]
      OBVIOUS
    <3>1. CASE i \in 1 .. k
      BY <2>2, <2>4, <3>1
    <3>2. CASE i = k + 1
      BY <2>3, <2>4, <3>2
    <3>3. QED
      BY <2>5, <3>1, <3>2
  <2>7. Append(a, e) = b
    <3> DEFINE c == Append(a, e)
    <3>1. c \in Seq(S) /\ Len(c) = k + 1 /\ \A i \in 1 .. k + 1 : c[i] = b[i]
      BY <2>4, <2>6
    <3> HIDE DEF c
    <3>2. c = b
      BY <2>2, <3>1, SeqEqual
    <3>3. QED
      BY <3>2 DEF c
  <2>8. QED
    BY <2>7 DEF a, b, e
<1>5. QED
  BY <1>2, <1>3, <1>4 DEF n

LEMMA JoinAssociative ==
  ASSUME NEW a \in Seq(Nat), NEW b \in Seq(Nat), NEW c \in Seq(Nat)
  PROVE  (a \o b) \o c = a \o (b \o c)
BY ConcatAssociative, SMTT(40)

LEMMA JoinClosed ==
  ASSUME NEW a \in Seq(Nat), NEW b \in Seq(Nat)
  PROVE  a \o b \in Seq(Nat)
BY SMT

LEMMA ThreeJoined ==
  ASSUME NEW a \in Seq(Nat), NEW b \in Seq(Nat), NEW c \in Seq(Nat)
  PROVE  /\ (a \o b) \o c = a \o (b \o c)
         /\ a \o b \in Seq(Nat) /\ b \o c \in Seq(Nat)
         /\ a \o (b \o c) \in Seq(Nat) /\ (a \o b) \o c \in Seq(Nat)
<1>1. (a \o b) \o c = a \o (b \o c)
  BY JoinAssociative, Zenon
<1>2. a \o b \in Seq(Nat) /\ b \o c \in Seq(Nat)
  BY JoinClosed, Zenon
<1>3. a \o (b \o c) \in Seq(Nat) /\ (a \o b) \o c \in Seq(Nat)
  BY <1>2, JoinClosed, Zenon
<1>4. QED
  BY <1>1, <1>2, <1>3, Zenon

-----------------------------------------------------------------------------
(***************************************************************************)
(* Fields one after another, and what a scan finds among them.             *)
(***************************************************************************)
LEMMA CutIsWhole ==
  ASSUME NEW data \in Seq(Nat), NEW full \in Seq(Nat), CutOf(data, full)
  PROVE  Len(data) = Len(full) => data = full
BY SMTT(40) DEF CutOf

(* A field with this tag and these bytes after it. *)
IsPiece(s, f, w, body) == Body(w, body) /\ s = AppendTag(f, w) \o body

(* A tag is read where a field is, or the end of the bytes. *)
LEMMA TagRead ==
  ASSUME NEW q \in PbReaders, NEW full \in Seq(Nat), CutOf(q.data, full),
         NEW f \in 0 .. 15, NEW w \in 0 .. 7, NEW piece, NEW s,
         IsPiece(piece, f, w, s), Holds(full, q.pos, piece),
         NEW next, next = NextTag(q)
  PROVE  /\ next.r \in PbReaders /\ next.r.data = q.data
         /\ \/ /\ next.field = f /\ next.wireType = w
               /\ Holds(full, next.r.pos, s)
               /\ next.r.pos + Len(s) = q.pos + Len(piece)
            \/ next.r.pos = Len(q.data) /\ q.data # full
<1> DEFINE tag0 == AppendTag(f, w)
           k == Len(tag0)
           size == Len(q.data)
<1>11. Body(w, s) /\ piece = AppendTag(f, w) \o s
  BY DEF IsPiece
<1>1. s \in Seq(Nat) /\ Len(s) \in Nat
  BY <1>11, BodyBytes
<1>2. tag0 \in Seq(Nat)
  BY TagParts, VarintIs DEF AppendTag
<1>3. q.data \in Seq(Nat) /\ q.pos \in Nat /\ q.pos <= size /\ size \in Nat
  BY PbFields
<1>4. Holds(full, q.pos, tag0) /\ Holds(full, q.pos + k, s)
  <2> HIDE DEF tag0
  <2>1. Holds(full, q.pos, tag0 \o s)
    BY <1>11 DEF tag0
  <2>2. QED
    BY <1>1, <1>2, <1>3, <2>1, HoldsBoth
<1>5. /\ k \in Nat /\ k > 0
      /\ q.pos + k <= size =>
           next = [field |-> f, wireType |-> w, r |-> [q EXCEPT !.pos = q.pos + k]]
      /\ q.pos + k > size => next.r = [q EXCEPT !.pos = size]
  BY <1>4, NextTagIs
<1>6. Len(tag0 \o s) = k + Len(s)
  BY <1>1, <1>2
<1>7. q.pos + k <= Len(full) /\ (q.data = full => size = Len(full))
  BY <1>4 DEF Holds
<1> HIDE DEF tag0, k, size
<1>8. CASE q.pos + k <= size
  <2> DEFINE p == q.pos + k
  <2>1. p \in 0 .. Len(q.data)
    BY <1>3, <1>5, <1>8 DEF size
  <2>2. next.field = f /\ next.wireType = w /\ next.r = [q EXCEPT !.pos = p]
    <3>1. next = [field |-> f, wireType |-> w, r |-> [q EXCEPT !.pos = p]]
      BY <1>5, <1>8
    <3> HIDE DEF p
    <3>2. QED
      BY <3>1
  <2> HIDE DEF p
  <2>3. next.r \in PbReaders /\ next.r.data = q.data /\ next.r.pos = p
    BY <2>1, <2>2, AtPosition
  <2>4. p + Len(s) = q.pos + Len(tag0 \o s) /\ Len(tag0 \o s) \in Nat
    BY <1>1, <1>3, <1>5, <1>6, SMTT(40) DEF p
  <2>5. piece = tag0 \o s
    BY <1>11 DEF tag0
  <2>6. QED
    BY <1>4, <2>2, <2>3, <2>4, <2>5 DEF p
<1>9. CASE q.pos + k > size
  <2>1. next.r = [q EXCEPT !.pos = size] /\ size \in 0 .. Len(q.data)
    BY <1>3, <1>5, <1>9 DEF size
  <2>2. next.r \in PbReaders /\ next.r.data = q.data /\ next.r.pos = size
    BY <2>1, AtPosition
  <2>3. q.data # full
    <3>1. Len(full) \in Nat
      OBVIOUS
    <3>2. QED
      BY <1>3, <1>5, <1>7, <1>9, <3>1
  <2>4. QED
    BY <2>2, <2>3 DEF size
<1>10. QED
  BY <1>3, <1>5, <1>8, <1>9

(* The end of a field, or of the bytes. *)
LEMMA EndReached ==
  ASSUME NEW q \in PbReaders, NEW full \in Seq(Nat), CutOf(q.data, full),
         NEW s \in Seq(Nat), Holds(full, q.pos, s)
  PROVE  LET p == EndOf(q.pos, Len(s), Len(q.data))
         IN  /\ p \in 0 .. Len(q.data)
             /\ \/ p = q.pos + Len(s) /\ q.pos + Len(s) <= Len(q.data)
                \/ p = Len(q.data) /\ q.data # full
<1> DEFINE n == Len(s)
           size == Len(q.data)
           p == EndOf(q.pos, n, size)
<1>1. q.data \in Seq(Nat) /\ q.pos \in Nat /\ q.pos <= size /\ size \in Nat /\ n \in Nat
  BY PbFields
<1>2. /\ p \in q.pos .. size
      /\ q.pos + n <= size => p = q.pos + n
      /\ q.pos + n > size => p = size
  BY <1>1, EndIs
<1>3. q.pos + n <= Len(full)
  BY DEF Holds
<1> HIDE DEF n, size, p
<1>4. p \in 0 .. Len(q.data)
  BY <1>1, <1>2 DEF size
<1>5. q.pos + n > size => q.data # full
  BY <1>1, <1>3 DEF size
<1>6. q.pos + n <= size \/ q.pos + n > size
  BY <1>1
<1>7. QED
  BY <1>2, <1>4, <1>5, <1>6 DEF n, size, p

LEMMA FieldSkipped ==
  ASSUME NEW q \in PbReaders, NEW full \in Seq(Nat), CutOf(q.data, full),
         NEW w, NEW s, Body(w, s), Holds(full, q.pos, s)
  PROVE  /\ Skip(q, w) \in PbReaders /\ Skip(q, w).data = q.data
         /\ \/ Skip(q, w).pos = q.pos + Len(s)
            \/ Skip(q, w).pos = Len(q.data) /\ q.data # full
<1>1. s \in Seq(Nat) /\ Len(s) \in Nat
  BY BodyBytes
<1> DEFINE after == Skip(q, w)
<1>2. after = [q EXCEPT !.pos = EndOf(q.pos, Len(s), Len(q.data))]
  BY SkipIs
<1> DEFINE p == EndOf(q.pos, Len(s), Len(q.data))
<1>5. /\ p \in 0 .. Len(q.data)
      /\ \/ p = q.pos + Len(s)
         \/ p = Len(q.data) /\ q.data # full
  BY <1>1, EndReached
<1> HIDE DEF after, p
<1>6. /\ [q EXCEPT !.pos = p] \in PbReaders /\ [q EXCEPT !.pos = p].data = q.data
      /\ [q EXCEPT !.pos = p].pos = p
  BY <1>5, AtPosition
<1>7. after = [q EXCEPT !.pos = p]
  BY <1>2 DEF p
<1>3. /\ after \in PbReaders /\ after.data = q.data
      /\ \/ after.pos = q.pos + Len(s)
         \/ after.pos = Len(q.data) /\ q.data # full
  BY <1>5, <1>6, <1>7
<1>4. QED
  BY <1>3 DEF after

(* Bytes with their length before them. *)
IsPacked(body, s) == body = AppendVarint[Len(s)] \o s

LEMMA BytesFound ==
  ASSUME NEW q \in PbReaders, NEW full \in Seq(Nat), CutOf(q.data, full),
         NEW s \in Seq(Nat), Len(s) < WordSize \div 2,
         NEW body, IsPacked(body, s), Holds(full, q.pos, body)
  PROVE  /\ ReadBytes(q).v \in Seq(Nat) /\ CutOf(ReadBytes(q).v, s)
         /\ ReadBytes(q).r \in PbReaders /\ ReadBytes(q).r.data = q.data
         /\ \/ /\ ReadBytes(q).v = s
               /\ ReadBytes(q).r.pos = q.pos + Len(body)
            \/ ReadBytes(q).r.pos = Len(q.data) /\ q.data # full
<1> DEFINE b == ReadBytes(q)
           n == Len(body)
<1>10. body = AppendVarint[Len(s)] \o s
  BY DEF IsPacked
<1>1. body \in Seq(Nat)
  BY <1>10, LengthBytes
<1>2. /\ b.v \in Seq(Nat) /\ CutOf(b.v, s)
      /\ b.r = [q EXCEPT !.pos = EndOf(q.pos, n, Len(q.data))]
      /\ q.pos + n <= Len(q.data) => b.v = s
  BY <1>10, BytesAreRead
<1> DEFINE after == b.r
<1>5. Holds(full, q.pos, body) /\ after = [q EXCEPT !.pos = EndOf(q.pos, n, Len(q.data))]
  BY <1>2
<1> DEFINE p == EndOf(q.pos, n, Len(q.data))
<1> HIDE DEF b, after
<1>7. /\ p \in 0 .. Len(q.data)
      /\ \/ p = q.pos + n /\ q.pos + n <= Len(q.data)
         \/ p = Len(q.data) /\ q.data # full
  BY <1>1, <1>5, EndReached
<1> HIDE DEF n, p
<1>8. /\ [q EXCEPT !.pos = p] \in PbReaders /\ [q EXCEPT !.pos = p].data = q.data
      /\ [q EXCEPT !.pos = p].pos = p
  BY <1>7, AtPosition
<1>9. after = [q EXCEPT !.pos = p]
  BY <1>5 DEF p
<1>6. /\ after \in PbReaders /\ after.data = q.data
      /\ \/ after.pos = q.pos + n /\ q.pos + n <= Len(q.data)
         \/ after.pos = Len(q.data) /\ q.data # full
  BY <1>7, <1>8, <1>9
<1>3. /\ b.r \in PbReaders /\ b.r.data = q.data
      /\ \/ b.r.pos = q.pos + n /\ q.pos + n <= Len(q.data)
         \/ b.r.pos = Len(q.data) /\ q.data # full
  BY <1>6 DEF after
<1>4. QED
  BY <1>2, <1>3 DEF b, n

LEMMA VarintFound ==
  ASSUME NEW q \in PbReaders, NEW full \in Seq(Nat), CutOf(q.data, full),
         NEW v \in Word, Holds(full, q.pos, AppendVarint[v])
  PROVE  LET u == ReadVarint(q)
             n == Len(AppendVarint[v])
         IN  /\ u.v \in Nat /\ u = [v |-> u.v, r |-> u.r]
             /\ u.r \in PbReaders /\ u.r.data = q.data
             /\ \/ u.v = v /\ u.r.pos = q.pos + n
                \/ u.r.pos = Len(q.data) /\ q.data # full
<1> DEFINE u == ReadVarint(q)
           n == Len(AppendVarint[v])
           size == Len(q.data)
<1>1. /\ n \in Nat
      /\ q.pos + n <= size => u = [v |-> v, r |-> [q EXCEPT !.pos = q.pos + n]]
      /\ q.pos + n > size => u.v \in 0 .. v /\ u.r = [q EXCEPT !.pos = size]
  BY VarintComesBack
<1>2. q.pos + n <= Len(full) /\ (q.data = full => size = Len(full))
      /\ Len(full) \in Nat
  BY DEF Holds
<1>3. q.data \in Seq(Nat) /\ q.pos \in Nat /\ q.pos <= size /\ size \in Nat /\ v \in Nat
  BY PbFields, HalfWord DEF Word
<1>4. u = [v |-> u.v, r |-> u.r]
  BY DEF ReadVarint
<1> HIDE DEF u, n, size
<1>5. CASE q.pos + n <= size
  <2> DEFINE p == q.pos + n
  <2>1. p \in 0 .. Len(q.data) /\ u.v = v /\ u.r = [q EXCEPT !.pos = p]
    BY <1>1, <1>3, <1>5 DEF size
  <2> HIDE DEF p
  <2>2. u.r \in PbReaders /\ u.r.data = q.data /\ u.r.pos = p
    BY <2>1, AtPosition
  <2>3. QED
    BY <1>3, <1>4, <2>1, <2>2 DEF u, n, p
<1>6. CASE q.pos + n > size
  <2>1. size \in 0 .. Len(q.data) /\ u.v \in 0 .. v /\ u.r = [q EXCEPT !.pos = size]
    BY <1>1, <1>3, <1>6 DEF size
  <2>2. u.r \in PbReaders /\ u.r.data = q.data /\ u.r.pos = size
    BY <2>1, AtPosition
  <2>3. q.data # full
    BY <1>1, <1>2, <1>6, <1>3
  <2>4. u.v \in Nat
    BY <1>3, <2>1
  <2>5. QED
    BY <1>4, <2>2, <2>3, <2>4 DEF u, size
<1>7. QED
  BY <1>1, <1>3, <1>5, <1>6

-----------------------------------------------------------------------------
LEMMA TagBytes ==
  ASSUME NEW f \in 0 .. 15, NEW w \in 0 .. 7
  PROVE  AppendTag(f, w) \in Seq(Nat)
<1>1. f * 8 + w \in Word
  BY TagParts
<1>2. AppendVarint[f * 8 + w] \in Seq(Nat)
  BY <1>1, VarintIs
<1>3. QED
  BY <1>2 DEF AppendTag

LEMMA BytesPiece ==
  ASSUME NEW f \in 0 .. 15, NEW data \in Seq(Nat), Len(data) < WordSize \div 2
  PROVE  /\ IsPiece(AppendBytes(f, data), f, 2, AppendVarint[Len(data)] \o data)
         /\ AppendBytes(f, data) \in Seq(Nat)
<1> DEFINE head == AppendVarint[Len(data)]
           tag0 == AppendTag(f, 2)
<1>1. Len(data) \in Nat /\ Len(data) % WordSize = Len(data)
  BY SignedSmall
<1>2. head \in Seq(Nat)
  BY LengthBytes
<1>3. tag0 \in Seq(Nat)
  <2>1. 2 \in 0 .. 7
    OBVIOUS
  <2>2. QED
    BY <2>1, TagBytes
<1>4. AppendBytes(f, data) = (tag0 \o head) \o data
  BY <1>1 DEF AppendBytes
<1>5. Body(2, head \o data)
  BY DEF Body
<1> HIDE DEF head, tag0
<1>6. (tag0 \o head) \o data = tag0 \o (head \o data) /\ tag0 \o (head \o data) \in Seq(Nat)
  BY <1>2, <1>3, ThreeJoined, ZenonT(40)
<1>7. AppendBytes(f, data) = tag0 \o (head \o data) /\ AppendBytes(f, data) \in Seq(Nat)
  BY <1>4, <1>6
<1>8. QED
  BY <1>5, <1>7 DEF IsPiece, head, tag0

LEMMA NumberPiece ==
  ASSUME NEW f \in 0 .. 15, NEW v \in Word
  PROVE  /\ IsPiece(AppendUint64(f, v), f, 0, AppendVarint[v])
         /\ AppendUint64(f, v) \in Seq(Nat)
<1>1. AppendTag(f, 0) \in Seq(Nat) /\ AppendVarint[v] \in Seq(Nat)
  <2>1. 0 \in 0 .. 7
    OBVIOUS
  <2>2. QED
    BY <2>1, TagBytes, VarintIs
<1>2. Body(0, AppendVarint[v])
  BY DEF Body
<1>3. AppendUint64(f, v) = AppendTag(f, 0) \o AppendVarint[v]
  BY DEF AppendUint64
<1>4. QED
  BY <1>1, <1>2, <1>3 DEF IsPiece

LEMMA TextFits ==
  ASSUME NEW s \in Seq(Nat), Len(s) < HalfSize
  PROVE  Len(s) < WordSize \div 2
<1>1. HalfSize <= WordSize \div 2
  BY SizesAssumption DEF HalfSize, WordSize
<1>2. WordSize \div 2 \in Nat /\ HalfSize \in Nat
  BY HalfWord
<1>3. QED
  BY <1>1, <1>2

-----------------------------------------------------------------------------
(***************************************************************************)
(* The fields of a request, and what the export reads of each.             *)
(***************************************************************************)
(* A word is a whole number of half words. *)
LEMMA HalvesOfWord ==
  \E c \in Nat \ {0} : WordSize = HalfSize * c
<1> DEFINE P == {k \in Nat : Power[HalfBytes + k] = HalfSize * Power[k]}
<1>1. HalfBytes \in Nat /\ WordBytes \in Nat /\ HalfBytes <= WordBytes
  BY SizesAssumption
<1>2. HalfSize \in Nat /\ ByteSize \in Nat /\ HalfSize = Power[HalfBytes]
  BY HalfWord, SizesAssumption DEF HalfSize
<1>3. 0 \in P
  <2>1. HalfBytes + 0 = HalfBytes /\ Power[0] = 1
    BY <1>1, PowerDef
  <2>2. QED
    BY <1>2, <2>1
<1>4. ASSUME NEW k \in Nat, k \in P PROVE k + 1 \in P
  <2> DEFINE a == Power[HalfBytes + k]
             b == Power[k]
             h == HalfSize
  <2>1. HalfBytes + k \in Nat /\ HalfBytes + (k + 1) = (HalfBytes + k) + 1
    BY <1>1
  <2>2. Power[(HalfBytes + k) + 1] = ByteSize * a /\ Power[k + 1] = ByteSize * b
    BY <2>1, PowerStep
  <2>3. a = h * b /\ a \in Nat /\ b \in Nat /\ h \in Nat
    BY <1>2, <1>4, <2>1, PowerNat
  <2> HIDE DEF a, b, h
  <2>4. ByteSize * (h * b) = h * (ByteSize * b)
    BY <1>2, <2>3
  <2>5. Power[HalfBytes + (k + 1)] = h * Power[k + 1]
    BY <2>1, <2>2, <2>3, <2>4
  <2>6. QED
    BY <2>5 DEF h
<1> HIDE DEF P
<1>5. \A k \in Nat : k \in P
  BY <1>3, <1>4, AllNumbers
<1> DEFINE d == WordBytes - HalfBytes
<1>6. d \in Nat /\ HalfBytes + d = WordBytes
  BY <1>1
<1> HIDE DEF d
<1>7. Power[WordBytes] = HalfSize * Power[d] /\ Power[d] \in Nat \ {0}
  BY <1>5, <1>6, PowerNat DEF P
<1>8. QED
  BY <1>7 DEF WordSize

(* An int32 comes back from the word to which its sign is extended. *)
LEMMA Int32ComesBack ==
  ASSUME NEW v \in -(HalfSize \div 2) .. HalfSize \div 2 - 1
  PROVE  v % WordSize \in Word /\ Signed((v % WordSize) % HalfSize, HalfSize) = v
<1> DEFINE h == HalfSize \div 2
           w == WordSize
           n == HalfSize
<1>1. n \in Nat \ {0} /\ w \in Nat \ {0} /\ n <= w /\ n > 15
  BY HalfIsWord, HalfWord
<1>2. PICK c \in Nat \ {0} : w = n * c
  BY HalvesOfWord
<1>3. h \in Nat /\ 2 * h <= n /\ n <= 2 * h + 1 /\ h = n \div 2
  BY <1>1
<1>4. v \in Int /\ -h <= v /\ v < h
  BY <1>3
<1>5. Word = 0 .. w - 1 /\ \A u : Signed(u, n) = IF u < h THEN u ELSE u - n
  BY DEF Word, Signed
<1> HIDE DEF w, n, h
<1>6. CASE v >= 0
  <2>1. v \in Nat /\ v < n /\ v < w
    BY <1>1, <1>3, <1>4, <1>6
  <2>2. v % w = v /\ v % n = v
    BY <1>1, <2>1, SmallRemainder
  <2>3. v \in Word
    BY <1>1, <1>5, <2>1
  <2>4. Signed((v % w) % n, n) = v /\ v % w \in Word
    BY <1>4, <1>5, <2>1, <2>2, <2>3
  <2>5. QED
    BY <2>4 DEF w, n
<1>7. CASE v < 0
  <2> DEFINE u == v + w
             q == c - 1
             m == v + n
  <2>1. /\ u \in 0 .. w - 1 /\ m \in 0 .. n - 1 /\ q \in Nat /\ u \in Nat
        /\ m >= h /\ m - n = v
    BY <1>1, <1>2, <1>3, <1>4, <1>7
  <2>2. u = n * q + m
    <3>1. n * c = n * (c - 1) + n
      BY <1>1, <1>2
    <3>2. QED
      BY <1>1, <1>2, <1>4, <3>1
  <2>3. v % w = u
    BY <1>1, <1>4, <1>7, <2>1
  <2> HIDE DEF u, q, m
  <2>4. u % n = m
    BY <1>1, <2>1, <2>2, QuotientIs
  <2>5. Signed((v % w) % n, n) = v /\ v % w \in Word
    <3>1. ~(m < h)
      BY <1>3, <2>1
    <3>2. Signed(m, n) = m - n
      BY <1>5, <3>1
    <3>3. QED
      BY <1>5, <2>1, <2>3, <2>4, <3>2
  <2>6. QED
    BY <2>5 DEF w, n
<1>8. QED
  BY <1>4, <1>6, <1>7

-----------------------------------------------------------------------------
(* The types of an export's parameters. *)
ParameterKinds == {"word", "size", "int32", "data", "text"}

(* What the guest can take for a parameter. *)
Takes(t, g) ==
  \/ t = "word" /\ g \in Word
  \/ t = "size" /\ g \in 0 .. HalfSize - 1
  \/ t = "int32" /\ g \in -(HalfSize \div 2) .. HalfSize \div 2 - 1
  \/ t \in {"data", "text"} /\ g \in Seq(Nat) /\ Len(g) < WordSize \div 2

(* The field in which it is sent. *)
FieldFor(t, f, g) ==
  CASE t \in {"word", "size"} -> AppendUint64(f, g)
    [] t = "int32" -> AppendInt32(f, g)
    [] t \in {"data", "text"} -> AppendBytes(f, g)

(* The wire type of that field, and what follows its tag. *)
FieldWire(t) == IF t \in {"data", "text"} THEN 2 ELSE 0

FieldBody(t, g) ==
  CASE t \in {"word", "size"} -> AppendVarint[g]
    [] t = "int32" -> AppendVarint[g % WordSize]
    [] t \in {"data", "text"} -> AppendVarint[Len(g)] \o g

LEMMA FieldIsPiece ==
  ASSUME NEW t, NEW g, Takes(t, g), NEW f \in 0 .. 15
  PROVE  /\ IsPiece(FieldFor(t, f, g), f, FieldWire(t), FieldBody(t, g))
         /\ FieldFor(t, f, g) \in Seq(Nat) /\ FieldWire(t) \in 0 .. 7
<1>1. CASE t \in {"word", "size"}
  <2>1. g \in Word
    <3> DEFINE n == HalfSize
               w == WordSize
    <3>1. n \in Nat \ {0} /\ w \in Nat /\ n <= w /\ Word = 0 .. w - 1
      BY HalfIsWord DEF Word
    <3>2. g \in Word \/ g \in 0 .. n - 1
      BY <1>1 DEF Takes
    <3> HIDE DEF n, w
    <3>3. QED
      BY <3>1, <3>2
  <2>2. FieldFor(t, f, g) = AppendUint64(f, g) /\ FieldWire(t) = 0
        /\ FieldBody(t, g) = AppendVarint[g]
    BY <1>1 DEF FieldFor, FieldWire, FieldBody
  <2>3. 0 \in 0 .. 7
    OBVIOUS
  <2>4. QED
    BY <2>1, <2>2, <2>3, NumberPiece
<1>2. CASE t = "int32"
  <2> DEFINE v == g % WordSize
  <2>1. v \in Word
    BY <1>2, Int32ComesBack DEF Takes
  <2>2. FieldFor(t, f, g) = AppendInt32(f, g) /\ FieldWire(t) = 0
        /\ FieldBody(t, g) = AppendVarint[v]
    BY <1>2 DEF FieldFor, FieldWire, FieldBody
  <2>3. AppendInt32(f, g) = AppendUint64(f, v)
    BY DEF AppendInt32, AppendUint64
  <2>4. 0 \in 0 .. 7
    OBVIOUS
  <2> HIDE DEF v
  <2>5. QED
    BY <2>1, <2>2, <2>3, <2>4, NumberPiece
<1>3. CASE t \in {"data", "text"}
  <2>1. g \in Seq(Nat) /\ Len(g) < WordSize \div 2
    BY <1>3 DEF Takes
  <2> DEFINE body == AppendVarint[Len(g)] \o g
  <2>2. FieldFor(t, f, g) = AppendBytes(f, g) /\ FieldWire(t) = 2
        /\ FieldBody(t, g) = body
    BY <1>3 DEF FieldFor, FieldWire, FieldBody
  <2>3. IsPiece(AppendBytes(f, g), f, 2, body) /\ AppendBytes(f, g) \in Seq(Nat)
    BY <2>1, BytesPiece
  <2>4. 2 \in 0 .. 7
    OBVIOUS
  <2> HIDE DEF body
  <2>5. QED
    BY <2>2, <2>3, <2>4
<1>4. QED
  BY <1>1, <1>2, <1>3 DEF Takes

(* The parameter that is taken of such a field. *)
LEMMA ParameterRead ==
  ASSUME NEW q \in PbReaders, NEW t, NEW g, Takes(t, g),
         NEW body, body = FieldBody(t, g), Holds(q.data, q.pos, body)
  PROVE  /\ Parameter(t, q).v = g
         /\ Parameter(t, q).r \in PbReaders /\ Parameter(t, q).r.data = q.data
         /\ Parameter(t, q).r.pos = q.pos + Len(body)
<1> DEFINE full == q.data
           u == ReadVarint(q)
<1>1. full \in Seq(Nat) /\ CutOf(q.data, full)
  <2>1. q.data \in Seq(Nat)
    BY PbFields
  <2>2. Len(q.data) \in Nat
    BY <2>1
  <2>3. QED
    BY <2>1, <2>2 DEF CutOf
<1> DEFINE read == Parameter(t, q)
<1>2. ASSUME NEW v \in Word, body = AppendVarint[v]
      PROVE  /\ u = [v |-> u.v, r |-> u.r] /\ u.v = v /\ u.r \in PbReaders
             /\ u.r.data = q.data /\ u.r.pos = q.pos + Len(body)
  <2>1. q \in PbReaders /\ full \in Seq(Nat) /\ CutOf(q.data, full)
        /\ Holds(full, q.pos, AppendVarint[v]) /\ full = q.data
    BY <1>1, <1>2
  <2> HIDE DEF full
  <2>2. /\ u = [v |-> u.v, r |-> u.r] /\ u.r \in PbReaders /\ u.r.data = q.data
        /\ u.v = v /\ u.r.pos = q.pos + Len(AppendVarint[v])
    BY <2>1, VarintFound
  <2>3. QED
    BY <1>2, <2>2
<1>3. CASE t = "word"
  <2>1. g \in Word /\ body = AppendVarint[g] /\ read = u
    BY <1>3 DEF Takes, FieldBody, Parameter
  <2> HIDE DEF u, read
  <2>2. read.v = g /\ read.r \in PbReaders /\ read.r.data = q.data
        /\ read.r.pos = q.pos + Len(body)
    BY <1>2, <2>1
  <2>3. QED
    BY <2>2 DEF read
<1>4. CASE t = "size"
  <2>1. g \in 0 .. HalfSize - 1 /\ body = AppendVarint[g]
        /\ read = [u EXCEPT !.v = @ % HalfSize]
    BY <1>4 DEF Takes, FieldBody, Parameter
  <2>2. g \in Word /\ g % HalfSize = g
    <3> DEFINE n == HalfSize
               w == WordSize
    <3>1. n \in Nat \ {0} /\ w \in Nat /\ n <= w /\ Word = 0 .. w - 1
          /\ g \in 0 .. n - 1
      BY <2>1, HalfIsWord DEF Word
    <3> HIDE DEF n, w
    <3>2. g \in Word /\ g % n = g
      BY <3>1, SmallModulus
    <3>3. QED
      BY <3>2 DEF n
  <2> HIDE DEF u, read
  <2>3. /\ u = [v |-> u.v, r |-> u.r] /\ u.v = g /\ u.r \in PbReaders
        /\ u.r.data = q.data /\ u.r.pos = q.pos + Len(body)
    BY <1>2, <2>1, <2>2
  <2>4. read = [v |-> g % HalfSize, r |-> u.r]
    BY <2>1, <2>3
  <2>5. read.v = g /\ read.r \in PbReaders /\ read.r.data = q.data
        /\ read.r.pos = q.pos + Len(body)
    BY <2>2, <2>3, <2>4
  <2>6. QED
    BY <2>5 DEF read
<1>5. CASE t = "int32"
  <2> DEFINE v == g % WordSize
  <2>1. v \in Word /\ Signed(v % HalfSize, HalfSize) = g
    BY <1>5, Int32ComesBack DEF Takes
  <2>2. body = AppendVarint[v] /\ read = ReadInt32(q)
    BY <1>5 DEF FieldBody, Parameter
  <2>3. read = [u EXCEPT !.v = Signed(@ % HalfSize, HalfSize)]
    BY <2>2 DEF ReadInt32
  <2> HIDE DEF u, read, v
  <2>4. /\ u = [v |-> u.v, r |-> u.r] /\ u.v = v /\ u.r \in PbReaders
        /\ u.r.data = q.data /\ u.r.pos = q.pos + Len(body)
    BY <1>2, <2>1, <2>2
  <2>5. read = [v |-> Signed(v % HalfSize, HalfSize), r |-> u.r]
    BY <2>3, <2>4
  <2>6. read.v = g /\ read.r \in PbReaders /\ read.r.data = q.data
        /\ read.r.pos = q.pos + Len(body)
    BY <2>1, <2>4, <2>5
  <2>7. QED
    BY <2>6 DEF read
<1>6. CASE t \in {"data", "text"}
  <2>1. g \in Seq(Nat) /\ Len(g) < WordSize \div 2 /\ read = ReadBytes(q)
        /\ IsPacked(body, g)
    BY <1>6 DEF Takes, FieldBody, Parameter, IsPacked
  <2>2. q \in PbReaders /\ full \in Seq(Nat) /\ CutOf(q.data, full)
        /\ Holds(full, q.pos, body) /\ full = q.data
    BY <1>1
  <2> HIDE DEF full, read
  <2>3. /\ ReadBytes(q).r \in PbReaders /\ ReadBytes(q).r.data = q.data
        /\ ReadBytes(q).v = g /\ ReadBytes(q).r.pos = q.pos + Len(body)
    BY <2>1, <2>2, BytesFound
  <2>4. QED
    BY <2>1, <2>3 DEF read
<1>7. QED
  BY <1>3, <1>4, <1>5, <1>6 DEF Takes

-----------------------------------------------------------------------------
(* The fields, of the first n, that stand for an argument. *)
Among(takes, g) ==
  /\ g[0] = <<>>
  /\ \A n \in 1 .. Len(takes) :
       g[n] = IF takes[n] = "size" THEN g[n - 1] ELSE Append(g[n - 1], n)

LEMMA ParametersFound ==
  ASSUME NEW op, Called(op).takes \in Seq(ParameterKinds)
  PROVE  \E g : /\ Among(Called(op).takes, g)
                /\ Parameters(op) = g[Len(Called(op).takes)]
<1> DEFINE takes == Called(op).takes
           n == Len(takes)
           D == 0 .. n
           S == Seq(Nat)
           Is(f) == f = [i \in 0 .. n |->
                           IF i = 0 THEN <<>>
                           ELSE IF takes[i] = "size" THEN f[i - 1]
                                ELSE Append(f[i - 1], i)]
           size   == [i \in D |-> i]
           first  == [i \in {0} |-> <<>>]
           before == [i \in D \ {0} |-> i - 1]
           step   == [p \in D \X S |-> IF takes[p[1]] = "size" THEN p[2]
                                       ELSE Append(p[2], p[1])]
<1>1. n \in Nat
  OBVIOUS
<1>2. PICK f \in [D -> S] : \A i \in D : f[i] = Rule(first, before, step, f, i)
  <2>1. /\ size \in [D -> Nat] /\ {0} \subseteq D
        /\ \A i \in D \ {0} : size[before[i]] < size[i]
        /\ before \in [D \ {0} -> D]
    <3> HIDE DEF n
    <3>1. QED
      BY <1>1
  <2>2. first \in [{0} -> S] /\ S # {}
    <3>1. <<>> \in S
      OBVIOUS
    <3> HIDE DEF S
    <3>2. QED
      BY <3>1
  <2>3. step \in [D \X S -> S]
    <3> SUFFICES ASSUME NEW p \in D \X S
                 PROVE  (IF takes[p[1]] = "size" THEN p[2] ELSE Append(p[2], p[1])) \in S
      OBVIOUS
    <3>1. p[2] \in S /\ p[1] \in Nat
      BY <1>1
    <3>2. Append(p[2], p[1]) \in S
      BY <3>1
    <3>3. QED
      BY <3>1, <3>2
  <2> HIDE DEF D, S, size, first, before, step
  <2>4. Recursion(D, S, size, {0}, first, before, step)
    BY <2>1, <2>2, <2>3 DEF Recursion
  <2>5. QED
    BY <2>4, RecursionExists
<1>3. ASSUME NEW i \in 0 .. n
      PROVE  f[i] = IF i = 0 THEN <<>>
                    ELSE IF takes[i] = "size" THEN f[i - 1] ELSE Append(f[i - 1], i)
  <2>1. f[i] = Rule(first, before, step, f, i)
    BY <1>2
  <2>2. CASE i = 0
    BY <2>1, <2>2 DEF Rule
  <2>3. CASE i # 0
    <3>1. i \notin DOMAIN first /\ before[i] = i - 1 /\ i - 1 \in D
      BY <1>1, <2>3
    <3>2. f[i] = step[<<i, f[i - 1]>>]
      BY <2>1, <3>1 DEF Rule
    <3> DEFINE s == f[i - 1]
    <3>3. s \in S
      BY <1>2, <3>1
    <3> HIDE DEF s
    <3>4. step[<<i, s>>] = IF takes[i] = "size" THEN s ELSE Append(s, i)
      BY <3>3
    <3>5. QED
      BY <2>3, <3>2, <3>4 DEF s
  <2>4. QED
    BY <2>2, <2>3
<1>4. Is(f)
  <2>1. f = [i \in 0 .. n |-> f[i]]
    BY <1>2
  <2>2. QED
    BY <1>3, <2>1
<1> DEFINE g == CHOOSE h : Is(h)
<1>5. Is(g)
  BY <1>4, ZenonT(40)
<1>6. Parameters(op) = g[n]
  BY DEF Parameters
<1> HIDE DEF g, n
<1>7. \A i \in 0 .. n : g[i] = IF i = 0 THEN <<>>
                               ELSE IF takes[i] = "size" THEN g[i - 1]
                                    ELSE Append(g[i - 1], i)
  BY <1>5
<1>8. Among(takes, g)
  <2>1. 0 \in 0 .. n /\ \A i \in 1 .. n : i \in 0 .. n /\ i # 0
    BY <1>1
  <2>2. QED
    BY <1>7, <2>1 DEF Among, n
<1>9. QED
  BY <1>6, <1>8 DEF n

(* The first n fields of a request, and where each of them ends. *)
LaidAt(s, takes, given, n, ends) ==
  /\ s \in Seq(Nat) /\ n \in Nat
  /\ ends \in [0 .. n -> Nat] /\ ends[0] = 0 /\ ends[n] = Len(s)
  /\ \A k \in 1 .. n :
       /\ Takes(takes[k], given[k])
       /\ Holds(s, ends[k - 1], FieldFor(takes[k], k, given[k]))
       /\ ends[k] = ends[k - 1] + Len(FieldFor(takes[k], k, given[k]))

Laid(s, takes, given, n) == \E ends : LaidAt(s, takes, given, n, ends)

LEMMA NothingLaid ==
  ASSUME NEW takes, NEW given
  PROVE  Laid(<<>>, takes, given, 0)
<1> DEFINE ends == [k \in 0 .. 0 |-> 0]
           s == <<>>
<1>1. s \in Seq(Nat) /\ Len(s) = 0
  OBVIOUS
<1> HIDE DEF s
<1>2. LaidAt(s, takes, given, 0, ends)
  BY <1>1 DEF LaidAt
<1>3. QED
  BY <1>2 DEF Laid, s

LEMMA HoldsLonger ==
  ASSUME NEW s \in Seq(Nat), NEW t \in Seq(Nat), NEW p \in Nat, NEW x \in Seq(Nat),
         Holds(s, p, x)
  PROVE  Holds(s \o t, p, x)
<1> DEFINE all == s \o t
<1>1. Len(all) = Len(s) + Len(t) /\ Len(s) \in Nat /\ Len(t) \in Nat /\ Len(x) \in Nat
  OBVIOUS
<1>2. \A i \in 1 .. Len(s) : all[i] = s[i]
  OBVIOUS
<1> HIDE DEF all
<1>3. p + Len(x) <= Len(s) /\ \A i \in 1 .. Len(x) : s[p + i] = x[i]
  BY DEF Holds
<1>4. \A i \in 1 .. Len(x) : p + i \in 1 .. Len(s)
  BY <1>1, <1>3
<1>5. p + Len(x) <= Len(all) /\ \A i \in 1 .. Len(x) : all[p + i] = x[i]
  BY <1>1, <1>2, <1>3, <1>4, SMTT(40)
<1>6. QED
  BY <1>5 DEF Holds, all

LEMMA LaidMore ==
  ASSUME NEW s, NEW takes, NEW given, NEW n \in 0 .. 14, Laid(s, takes, given, n),
         Takes(takes[n + 1], given[n + 1])
  PROVE  Laid(s \o FieldFor(takes[n + 1], n + 1, given[n + 1]), takes, given, n + 1)
<1> DEFINE x == FieldFor(takes[n + 1], n + 1, given[n + 1])
           all == s \o x
<1>1. PICK ends : LaidAt(s, takes, given, n, ends)
  BY DEF Laid
<1>2. /\ s \in Seq(Nat) /\ n \in Nat
      /\ ends \in [0 .. n -> Nat] /\ ends[0] = 0 /\ ends[n] = Len(s)
      /\ \A k \in 1 .. n :
           /\ Takes(takes[k], given[k])
           /\ Holds(s, ends[k - 1], FieldFor(takes[k], k, given[k]))
           /\ ends[k] = ends[k - 1] + Len(FieldFor(takes[k], k, given[k]))
  BY <1>1 DEF LaidAt
<1>3. x \in Seq(Nat)
  <2>1. n + 1 \in 0 .. 15
    OBVIOUS
  <2>2. QED
    BY <2>1, FieldIsPiece
<1> HIDE DEF x
<1>4. all \in Seq(Nat) /\ Len(all) = Len(s) + Len(x) /\ Len(x) \in Nat
      /\ Len(s) \in Nat
  BY <1>2, <1>3
<1>5. Holds(all, Len(s), x)
  <2>1. \A i \in 1 .. Len(x) : all[Len(s) + i] = x[i]
    BY <1>2, <1>3
  <2> HIDE DEF all
  <2>2. QED
    BY <1>4, <2>1 DEF Holds
<1>6. ASSUME NEW k \in 1 .. n
      PROVE  Holds(all, ends[k - 1], FieldFor(takes[k], k, given[k]))
  <2> DEFINE y == FieldFor(takes[k], k, given[k])
             p == ends[k - 1]
  <2>1. y \in Seq(Nat)
    <3>1. k \in 0 .. 15
      OBVIOUS
    <3>2. Takes(takes[k], given[k])
      BY <1>2, <1>6
    <3>3. QED
      BY <3>1, <3>2, FieldIsPiece
  <2>2. p \in Nat /\ Holds(s, p, y)
    BY <1>2, SMTT(40)
  <2> HIDE DEF y, p
  <2>3. Holds(s \o x, p, y)
    BY <1>2, <1>3, <2>1, <2>2, HoldsLonger
  <2>4. QED
    BY <2>3 DEF y, p
<1> DEFINE m == n + 1
           more == [k \in 0 .. m |-> IF k <= n THEN ends[k] ELSE Len(all)]
<1>7. more \in [0 .. m -> Nat] /\ more[0] = 0 /\ more[m] = Len(all)
  <2> HIDE DEF all
  <2>1. QED
    BY <1>2, <1>4
<1>8. ASSUME NEW k \in 1 .. m
      PROVE  /\ Takes(takes[k], given[k])
             /\ Holds(all, more[k - 1], FieldFor(takes[k], k, given[k]))
             /\ more[k] = more[k - 1] + Len(FieldFor(takes[k], k, given[k]))
  <2>1. CASE k \in 1 .. n
    <3>1. more[k] = ends[k] /\ more[k - 1] = ends[k - 1]
      BY <2>1
    <3> HIDE DEF more, all
    <3>2. QED
      BY <1>2, <1>6, <2>1, <3>1
  <2>2. CASE k = n + 1
    <3>1. more[k] = Len(all) /\ more[k - 1] = ends[n] /\ k - 1 = n
      BY <2>2
    <3> HIDE DEF more, all
    <3>2. Takes(takes[k], given[k]) /\ FieldFor(takes[k], k, given[k]) = x
      BY <2>2 DEF x
    <3>3. QED
      BY <1>2, <1>4, <1>5, <3>1, <3>2
  <2>3. QED
    BY <2>1, <2>2
<1>9. LaidAt(all, takes, given, m, more)
  <2>1. m \in Nat
    OBVIOUS
  <2> HIDE DEF all, more, m
  <2>2. QED
    BY <1>4, <1>7, <1>8, <2>1 DEF LaidAt
<1>10. QED
  BY <1>9 DEF Laid, x

-----------------------------------------------------------------------------
LEMMA FitsTakes ==
  ASSUME NEW t, NEW x, Fits(t, x)
  PROVE  /\ Takes(t, x)
         /\ t = "data" => x \in Seq(Nat) /\ Takes("size", Len(x))
<1>1. HalfSize = Power[HalfBytes] /\ HalfSize \in Nat \ {0} /\ HalfSize <= WordSize \div 2
      /\ WordSize \div 2 \in Nat
  BY HalfWord, SizesAssumption DEF HalfSize, WordSize
<1>2. Byte \subseteq Nat
  BY SizesAssumption DEF Byte
<1>3. x \in Seq(Byte) => x \in Seq(Nat)
  BY <1>2, SeqMonotonic
<1>4. CASE t = "data" /\ IsText(x, HalfBytes)
  <2> DEFINE n == Len(x)
             h == HalfSize
             half == WordSize \div 2
  <2>1. x \in Seq(Nat) /\ n < h
    BY <1>1, <1>3, <1>4 DEF IsText
  <2>2. n \in Nat
    BY <2>1
  <2>3. h \in Nat /\ h <= half /\ half \in Nat
    BY <1>1
  <2> HIDE DEF n, h, half
  <2>4. n \in 0 .. h - 1 /\ n < half
    BY <2>1, <2>2, <2>3
  <2>5. QED
    BY <1>4, <2>1, <2>4 DEF Takes, n, h, half
<1>5. CASE t = "text" /\ x \in Seq(Byte) /\ Len(x) < WordSize \div 2
  BY <1>3, <1>5 DEF Takes
<1>6. CASE t = "word" /\ x \in Word
  BY <1>6 DEF Takes
<1>7. CASE t = "int32" /\ x \in -(HalfSize \div 2) .. HalfSize \div 2 - 1
  BY <1>7 DEF Takes
<1>8. QED
  BY <1>4, <1>5, <1>6, <1>7 DEF Fits

LEMMA LaidBuffer ==
  ASSUME NEW s, NEW takes, NEW given, NEW n \in 0 .. 13, NEW d,
         Laid(s, takes, given, n), Fits("data", d),
         takes[n + 1] = "data", given[n + 1] = d,
         takes[n + 2] = "size", given[n + 2] = Len(d)
  PROVE  Laid(s \o appendBuffer(n + 1, d), takes, given, n + 2)
<1>1. d \in Seq(Nat) /\ Takes("data", d) /\ Takes("size", Len(d))
  BY FitsTakes
<1> DEFINE f == n + 1
           x == AppendBytes(f, d)
           y == AppendUint64(f + 1, Len(d))
<1>2. n \in 0 .. 14 /\ f \in 0 .. 14 /\ f + 1 = n + 2 /\ f \in 0 .. 15 /\ f + 1 \in 0 .. 15
  OBVIOUS
<1>3. FieldFor("data", f, d) = x /\ FieldFor("size", f + 1, Len(d)) = y
  BY DEF FieldFor
<1>4. x \in Seq(Nat) /\ y \in Seq(Nat)
  BY <1>1, <1>2, <1>3, FieldIsPiece
<1>5. s \in Seq(Nat)
  BY DEF Laid, LaidAt
<1>6. appendBuffer(n + 1, d) = x \o y
  BY DEF appendBuffer
<1> HIDE DEF x, y
<1>7. Laid(s \o x, takes, given, f)
  <2>1. Takes(takes[n + 1], given[n + 1])
        /\ FieldFor(takes[n + 1], n + 1, given[n + 1]) = x
    BY <1>1, <1>3
  <2>2. QED
    BY <1>2, <2>1, LaidMore
<1>8. Laid((s \o x) \o y, takes, given, f + 1)
  <2>1. Takes(takes[f + 1], given[f + 1])
        /\ FieldFor(takes[f + 1], f + 1, given[f + 1]) = y
    BY <1>1, <1>2, <1>3
  <2> HIDE DEF f
  <2>2. QED
    BY <1>2, <1>7, <2>1, LaidMore
<1>9. (s \o x) \o y = s \o (x \o y)
  BY <1>4, <1>5, ThreeJoined
<1>10. QED
  BY <1>2, <1>6, <1>8, <1>9

(* A request as the guest takes it: laid out in fields that stand for its  *)
(* arguments.                                                              *)
Taken(op, a, given) ==
  LET takes == Called(op).takes
  IN  /\ takes \in Seq(ParameterKinds) /\ Len(takes) \in 1 .. 14
      /\ Laid(Request(op, a), takes, given, Len(takes))
      /\ given = [k \in 1 .. Len(takes) |-> given[k]]
      /\ Understood(op, given) = a

LEMMA ArgumentsSeen ==
  ASSUME NEW op, NEW a, NEW given, NEW fields, Parameters(op) = fields,
         a = [i \in DOMAIN fields |-> a[i]],
         \A i \in DOMAIN fields :
           /\ given[fields[i]] = a[i]
           /\ Called(op).takes[fields[i]] = "data" =>
                a[i] \in Seq(Nat) /\ given[fields[i] + 1] = Len(a[i])
  PROVE  Understood(op, given) = a
<1> DEFINE takes == Called(op).takes
           Seen(f) == IF takes[f] # "data" THEN given[f]
                      ELSE IF given[f + 1] <= Len(given[f])
                           THEN SubSeq(given[f], 1, given[f + 1])
                           ELSE <<-1>>
<1>1. Understood(op, given) = [i \in DOMAIN fields |-> Seen(fields[i])]
  BY DEF Understood
<1>2. ASSUME NEW i \in DOMAIN fields PROVE Seen(fields[i]) = a[i]
  <2> DEFINE f == fields[i]
             x == a[i]
  <2>1. given[f] = x /\ (takes[f] = "data" => x \in Seq(Nat) /\ given[f + 1] = Len(x))
    OBVIOUS
  <2> HIDE DEF f, x, takes
  <2>2. CASE takes[f] # "data"
    BY <2>1, <2>2 DEF f, x
  <2>3. CASE takes[f] = "data"
    <3>1. x \in Seq(Nat) /\ Len(x) \in Nat /\ SubSeq(x, 1, Len(x)) = x
      BY <2>1, <2>3, FirstOnes
    <3>2. given[f + 1] <= Len(given[f]) /\ SubSeq(given[f], 1, given[f + 1]) = x
      BY <2>1, <2>3, <3>1
    <3>3. QED
      BY <2>3, <3>2 DEF f, x
  <2>4. QED
    BY <2>2, <2>3
<1> HIDE DEF Seen
<1>3. QED
  BY <1>1, <1>2

-----------------------------------------------------------------------------
(***************************************************************************)
(* Every way that the methods of Python lay a request out.                 *)
(***************************************************************************)
(* The first field of a request. *)
LEMMA LaidFirst ==
  ASSUME NEW takes, NEW given, Takes(takes[1], given[1])
  PROVE  Laid(FieldFor(takes[1], 1, given[1]), takes, given, 1)
<1> DEFINE x == FieldFor(takes[1], 1, given[1])
<1>1. x \in Seq(Nat)
  <2>1. 1 \in 0 .. 15
    OBVIOUS
  <2>2. QED
    BY <2>1, FieldIsPiece
<1>2. 0 \in 0 .. 14 /\ 0 + 1 = 1
  OBVIOUS
<1>3. Takes(takes[0 + 1], given[0 + 1]) /\ x = FieldFor(takes[0 + 1], 0 + 1, given[0 + 1])
  BY <1>2
<1> HIDE DEF x
<1>4. Laid(<<>> \o x, takes, given, 0 + 1)
  BY <1>2, <1>3, NothingLaid, LaidMore
<1>5. <<>> \o x = x
  BY <1>1, ConcatEmptySeq
<1>6. QED
  BY <1>2, <1>4, <1>5 DEF x


LEMMA AppendedTo ==
  ASSUME NEW s \in Seq(Nat), NEW n \in Nat, Len(s) = n, NEW x \in Nat
  PROVE  /\ Append(s, x) \in Seq(Nat) /\ Len(Append(s, x)) = n + 1
         /\ Append(s, x)[n + 1] = x
         /\ \A i \in 1 .. n : Append(s, x)[i] = s[i]
BY AppendProperties

LEMMA AppendTo1 ==
  ASSUME NEW a \in Nat,
         NEW x \in Nat
  PROVE  Append(<<a>>, x) = <<a, x>>
<1> DEFINE s == <<a>>
           t == Append(s, x)
           n == 1
<1>1. s \in Seq(Nat) /\ Len(s) = n /\ s[1] = a /\ n \in Nat
  OBVIOUS
<1> HIDE DEF s, n
<1>2. /\ t \in Seq(Nat) /\ Len(t) = n + 1 /\ t[n + 1] = x
      /\ \A i \in 1 .. n : t[i] = s[i]
  BY <1>1, AppendedTo
<1> HIDE DEF t
<1>3. t = <<a, x>>
  BY <1>1, <1>2 DEF n
<1>4. QED
  BY <1>3 DEF t, s

LEMMA AppendTo2 ==
  ASSUME NEW a \in Nat, NEW b \in Nat,
         NEW x \in Nat
  PROVE  Append(<<a, b>>, x) = <<a, b, x>>
<1> DEFINE s == <<a, b>>
           t == Append(s, x)
           n == 2
<1>1. s \in Seq(Nat) /\ Len(s) = n /\ s[1] = a /\ s[2] = b /\ n \in Nat
  OBVIOUS
<1> HIDE DEF s, n
<1>2. /\ t \in Seq(Nat) /\ Len(t) = n + 1 /\ t[n + 1] = x
      /\ \A i \in 1 .. n : t[i] = s[i]
  BY <1>1, AppendedTo
<1> HIDE DEF t
<1>3. t = <<a, b, x>>
  BY <1>1, <1>2 DEF n
<1>4. QED
  BY <1>3 DEF t, s

LEMMA AppendTo3 ==
  ASSUME NEW a \in Nat, NEW b \in Nat, NEW c \in Nat,
         NEW x \in Nat
  PROVE  Append(<<a, b, c>>, x) = <<a, b, c, x>>
<1> DEFINE s == <<a, b, c>>
           t == Append(s, x)
           n == 3
<1>1. s \in Seq(Nat) /\ Len(s) = n /\ s[1] = a /\ s[2] = b /\ s[3] = c /\ n \in Nat
  OBVIOUS
<1> HIDE DEF s, n
<1>2. /\ t \in Seq(Nat) /\ Len(t) = n + 1 /\ t[n + 1] = x
      /\ \A i \in 1 .. n : t[i] = s[i]
  BY <1>1, AppendedTo
<1> HIDE DEF t
<1>3. t = <<a, b, c, x>>
  BY <1>1, <1>2 DEF n
<1>4. QED
  BY <1>3 DEF t, s

LEMMA AppendTo4 ==
  ASSUME NEW a \in Nat, NEW b \in Nat, NEW c \in Nat, NEW d \in Nat,
         NEW x \in Nat
  PROVE  Append(<<a, b, c, d>>, x) = <<a, b, c, d, x>>
<1> DEFINE s == <<a, b, c, d>>
           t == Append(s, x)
           n == 4
<1>1. s \in Seq(Nat) /\ Len(s) = n /\ s[1] = a /\ s[2] = b /\ s[3] = c /\ s[4] = d /\ n \in Nat
  OBVIOUS
<1> HIDE DEF s, n
<1>2. /\ t \in Seq(Nat) /\ Len(t) = n + 1 /\ t[n + 1] = x
      /\ \A i \in 1 .. n : t[i] = s[i]
  BY <1>1, AppendedTo
<1> HIDE DEF t
<1>3. t = <<a, b, c, d, x>>
  BY <1>1, <1>2 DEF n
<1>4. QED
  BY <1>3 DEF t, s

LEMMA TakenText ==
  ASSUME NEW op, NEW a, AreArguments(op, a),
         Called(op).takes = <<"text">>,
         Request(op, a) = AppendBytes(1, a[1])
  PROVE  \E given : Taken(op, a, given)
<1> DEFINE takes == <<"text">>
           given == <<a[1]>>
           fields == <<1>>
<1>1. Called(op).takes = takes
  OBVIOUS
<1>2. takes \in Seq(ParameterKinds) /\ Len(takes) = 1
  BY DEF ParameterKinds
<1>3. /\ takes[1] = "text"
      /\ given[1] = a[1]
      /\ given = [k \in 1 .. 1 |-> given[k]]
  OBVIOUS
<1>4. /\ fields[1] = 1
      /\ DOMAIN fields = 1 .. 1
  OBVIOUS
<1>5. Parameters(op) = fields
  <2>1. PICK g : Among(takes, g) /\ Parameters(op) = g[1]
    BY <1>1, <1>2, ParametersFound
  <2> HIDE DEF takes
  <2>2. /\ g[0] = <<>>
        /\ \A n \in 1 .. 1 :
             g[n] = IF takes[n] = "size" THEN g[n - 1] ELSE Append(g[n - 1], n)
    BY <1>2, <2>1 DEF Among
  <2>3. g[1] = <<1>>
    <3>1. 1 \in 1 .. 1 /\ 1 - 1 = 0
      OBVIOUS
    <3>2. g[1 - 1] = <<>>
      BY <3>1, <2>2
    <3>3. takes[1] # "size"
      BY <1>3
    <3>4. g[1] = Append(g[1 - 1], 1)
      BY <2>2, <3>1, <3>3
    <3>5. Append(<<>>, 1) = <<1>>
      OBVIOUS
    <3>6. QED
      BY <3>2, <3>4, <3>5
  <2>4. QED
    BY <2>1, <2>3
<1> HIDE DEF takes, given, fields
<1>6. /\ a = [i \in DOMAIN fields |-> a[i]]
      /\ \A i \in DOMAIN fields : Fits(takes[fields[i]], a[i])
  BY <1>1, <1>5 DEF AreArguments
<1>7. /\ Fits("text", a[1])
  <2>1. 1 \in 1 .. 1
    OBVIOUS
  <2>2. QED
    BY <1>3, <1>4, <1>6, <2>1
<1>8. Laid(Request(op, a), takes, given, 1)
  <2>1. Laid(AppendBytes(1, a[1]), takes, given, 1)
    <3>1. Takes(takes[1], given[1]) /\ FieldFor(takes[1], 1, given[1]) = AppendBytes(1, a[1])
      BY <1>3, <1>7, FitsTakes DEF FieldFor
    <3>2. QED
      BY <3>1, LaidFirst
  <2>2. QED
    BY <2>1 DEF newOp, objOp, keyOp
<1>9. Understood(op, given) = a
  <2>1. ASSUME NEW i \in DOMAIN fields
        PROVE  /\ given[fields[i]] = a[i]
               /\ takes[fields[i]] = "data" =>
                    a[i] \in Seq(Nat) /\ given[fields[i] + 1] = Len(a[i])
    <3>1. CASE i = 1
      BY <1>3, <1>4, <3>1
    <3>2. i \in {1}
      BY <1>4
    <3>3. QED
      BY <3>1, <3>2
  <2>2. \A i \in DOMAIN fields :
          /\ given[fields[i]] = a[i]
          /\ Called(op).takes[fields[i]] = "data" =>
               a[i] \in Seq(Nat) /\ given[fields[i] + 1] = Len(a[i])
    BY <1>1, <2>1
  <2>3. a = [i \in DOMAIN fields |-> a[i]]
    BY <1>6
  <2>4. QED
    BY ONLY <1>5, <2>2, <2>3, ArgumentsSeen
<1>10. Taken(op, a, given)
  <2> DEFINE t == Called(op).takes
  <2>1. t = takes
    BY <1>1
  <2> HIDE DEF t
  <2>2. 1 \in 1 .. 14
    OBVIOUS
  <2>3. t \in Seq(ParameterKinds) /\ Len(t) \in 1 .. 14 /\ Len(t) = 1
    BY <1>2, <2>1, <2>2
  <2>4. Laid(Request(op, a), t, given, Len(t))
    BY <1>8, <2>1, <2>3
  <2>5. given = [k \in 1 .. Len(t) |-> given[k]]
    BY <1>3, <2>3
  <2>6. QED
    BY <1>9, <2>3, <2>4, <2>5 DEF Taken, t
<1>11. QED
  BY <1>10

LEMMA TakenWord ==
  ASSUME NEW op, NEW a, AreArguments(op, a),
         Called(op).takes = <<"word">>,
         Request(op, a) = AppendUint64(1, a[1])
  PROVE  \E given : Taken(op, a, given)
<1> DEFINE takes == <<"word">>
           given == <<a[1]>>
           fields == <<1>>
<1>1. Called(op).takes = takes
  OBVIOUS
<1>2. takes \in Seq(ParameterKinds) /\ Len(takes) = 1
  BY DEF ParameterKinds
<1>3. /\ takes[1] = "word"
      /\ given[1] = a[1]
      /\ given = [k \in 1 .. 1 |-> given[k]]
  OBVIOUS
<1>4. /\ fields[1] = 1
      /\ DOMAIN fields = 1 .. 1
  OBVIOUS
<1>5. Parameters(op) = fields
  <2>1. PICK g : Among(takes, g) /\ Parameters(op) = g[1]
    BY <1>1, <1>2, ParametersFound
  <2> HIDE DEF takes
  <2>2. /\ g[0] = <<>>
        /\ \A n \in 1 .. 1 :
             g[n] = IF takes[n] = "size" THEN g[n - 1] ELSE Append(g[n - 1], n)
    BY <1>2, <2>1 DEF Among
  <2>3. g[1] = <<1>>
    <3>1. 1 \in 1 .. 1 /\ 1 - 1 = 0
      OBVIOUS
    <3>2. g[1 - 1] = <<>>
      BY <3>1, <2>2
    <3>3. takes[1] # "size"
      BY <1>3
    <3>4. g[1] = Append(g[1 - 1], 1)
      BY <2>2, <3>1, <3>3
    <3>5. Append(<<>>, 1) = <<1>>
      OBVIOUS
    <3>6. QED
      BY <3>2, <3>4, <3>5
  <2>4. QED
    BY <2>1, <2>3
<1> HIDE DEF takes, given, fields
<1>6. /\ a = [i \in DOMAIN fields |-> a[i]]
      /\ \A i \in DOMAIN fields : Fits(takes[fields[i]], a[i])
  BY <1>1, <1>5 DEF AreArguments
<1>7. /\ Fits("word", a[1])
  <2>1. 1 \in 1 .. 1
    OBVIOUS
  <2>2. QED
    BY <1>3, <1>4, <1>6, <2>1
<1>8. Laid(Request(op, a), takes, given, 1)
  <2>1. Laid(AppendUint64(1, a[1]), takes, given, 1)
    <3>1. Takes(takes[1], given[1]) /\ FieldFor(takes[1], 1, given[1]) = AppendUint64(1, a[1])
      BY <1>3, <1>7, FitsTakes DEF FieldFor
    <3>2. QED
      BY <3>1, LaidFirst
  <2>2. QED
    BY <2>1 DEF newOp, objOp, keyOp
<1>9. Understood(op, given) = a
  <2>1. ASSUME NEW i \in DOMAIN fields
        PROVE  /\ given[fields[i]] = a[i]
               /\ takes[fields[i]] = "data" =>
                    a[i] \in Seq(Nat) /\ given[fields[i] + 1] = Len(a[i])
    <3>1. CASE i = 1
      BY <1>3, <1>4, <3>1
    <3>2. i \in {1}
      BY <1>4
    <3>3. QED
      BY <3>1, <3>2
  <2>2. \A i \in DOMAIN fields :
          /\ given[fields[i]] = a[i]
          /\ Called(op).takes[fields[i]] = "data" =>
               a[i] \in Seq(Nat) /\ given[fields[i] + 1] = Len(a[i])
    BY <1>1, <2>1
  <2>3. a = [i \in DOMAIN fields |-> a[i]]
    BY <1>6
  <2>4. QED
    BY ONLY <1>5, <2>2, <2>3, ArgumentsSeen
<1>10. Taken(op, a, given)
  <2> DEFINE t == Called(op).takes
  <2>1. t = takes
    BY <1>1
  <2> HIDE DEF t
  <2>2. 1 \in 1 .. 14
    OBVIOUS
  <2>3. t \in Seq(ParameterKinds) /\ Len(t) \in 1 .. 14 /\ Len(t) = 1
    BY <1>2, <2>1, <2>2
  <2>4. Laid(Request(op, a), t, given, Len(t))
    BY <1>8, <2>1, <2>3
  <2>5. given = [k \in 1 .. Len(t) |-> given[k]]
    BY <1>3, <2>3
  <2>6. QED
    BY <1>9, <2>3, <2>4, <2>5 DEF Taken, t
<1>11. QED
  BY <1>10

LEMMA TakenWordText ==
  ASSUME NEW op, NEW a, AreArguments(op, a),
         Called(op).takes = <<"word", "text">>,
         Request(op, a) = AppendUint64(1, a[1]) \o AppendBytes(2, a[2])
  PROVE  \E given : Taken(op, a, given)
<1> DEFINE takes == <<"word", "text">>
           given == <<a[1], a[2]>>
           fields == <<1, 2>>
<1>1. Called(op).takes = takes
  OBVIOUS
<1>2. takes \in Seq(ParameterKinds) /\ Len(takes) = 2
  BY DEF ParameterKinds
<1>3. /\ takes[1] = "word"
      /\ takes[2] = "text"
      /\ given[1] = a[1]
      /\ given[2] = a[2]
      /\ given = [k \in 1 .. 2 |-> given[k]]
  OBVIOUS
<1>4. /\ fields[1] = 1
      /\ fields[2] = 2
      /\ DOMAIN fields = 1 .. 2
  OBVIOUS
<1>5. Parameters(op) = fields
  <2>1. PICK g : Among(takes, g) /\ Parameters(op) = g[2]
    BY <1>1, <1>2, ParametersFound
  <2> HIDE DEF takes
  <2>2. /\ g[0] = <<>>
        /\ \A n \in 1 .. 2 :
             g[n] = IF takes[n] = "size" THEN g[n - 1] ELSE Append(g[n - 1], n)
    BY <1>2, <2>1 DEF Among
  <2>3. g[1] = <<1>>
    <3>1. 1 \in 1 .. 2 /\ 1 - 1 = 0
      OBVIOUS
    <3>2. g[1 - 1] = <<>>
      BY <3>1, <2>2
    <3>3. takes[1] # "size"
      BY <1>3
    <3>4. g[1] = Append(g[1 - 1], 1)
      BY <2>2, <3>1, <3>3
    <3>5. Append(<<>>, 1) = <<1>>
      OBVIOUS
    <3>6. QED
      BY <3>2, <3>4, <3>5
  <2>4. g[2] = <<1, 2>>
    <3>1. 2 \in 1 .. 2 /\ 2 - 1 = 1
      OBVIOUS
    <3>2. g[2 - 1] = <<1>>
      BY <3>1, <2>3
    <3>3. takes[2] # "size"
      BY <1>3
    <3>4. g[2] = Append(g[2 - 1], 2)
      BY <2>2, <3>1, <3>3
    <3>5. Append(<<1>>, 2) = <<1, 2>>
      BY AppendTo1
    <3>6. QED
      BY <3>2, <3>4, <3>5
  <2>5. QED
    BY <2>1, <2>4
<1> HIDE DEF takes, given, fields
<1>6. /\ a = [i \in DOMAIN fields |-> a[i]]
      /\ \A i \in DOMAIN fields : Fits(takes[fields[i]], a[i])
  BY <1>1, <1>5 DEF AreArguments
<1>7. /\ Fits("word", a[1])
      /\ Fits("text", a[2])
  <2>1. 1 \in 1 .. 2 /\ 2 \in 1 .. 2
    OBVIOUS
  <2>2. QED
    BY <1>3, <1>4, <1>6, <2>1
<1>8. Laid(Request(op, a), takes, given, 2)
  <2>1. Laid(AppendUint64(1, a[1]), takes, given, 1)
    <3>1. Takes(takes[1], given[1]) /\ FieldFor(takes[1], 1, given[1]) = AppendUint64(1, a[1])
      BY <1>3, <1>7, FitsTakes DEF FieldFor
    <3>2. QED
      BY <3>1, LaidFirst
  <2>2. Laid(AppendUint64(1, a[1]) \o AppendBytes(2, a[2]), takes, given, 2)
    <3>1. 1 \in 0 .. 14 /\ 1 + 1 = 2
      OBVIOUS
    <3>2. /\ Takes(takes[2], given[2])
          /\ FieldFor(takes[2], 2, given[2]) = AppendBytes(2, a[2])
      BY <1>3, <1>7, FitsTakes DEF FieldFor
    <3>3. Laid(AppendUint64(1, a[1]), takes, given, 1)
      BY <2>1 DEF newOp, objOp
    <3> DEFINE s == AppendUint64(1, a[1])
    <3>4. Laid(s, takes, given, 1)
      BY <3>3
    <3> HIDE DEF s
    <3>5. Laid(s \o FieldFor(takes[1 + 1], 1 + 1, given[1 + 1]), takes, given, 1 + 1)
      BY <3>1, <3>2, <3>4, LaidMore
    <3>6. QED
      BY <3>1, <3>2, <3>5 DEF s
  <2>3. QED
    BY <2>2 DEF newOp, objOp, keyOp
<1>9. Understood(op, given) = a
  <2>1. ASSUME NEW i \in DOMAIN fields
        PROVE  /\ given[fields[i]] = a[i]
               /\ takes[fields[i]] = "data" =>
                    a[i] \in Seq(Nat) /\ given[fields[i] + 1] = Len(a[i])
    <3>1. CASE i = 1
      BY <1>3, <1>4, <3>1
    <3>2. CASE i = 2
      BY <1>3, <1>4, <3>2
    <3>3. i \in {1, 2}
      BY <1>4
    <3>4. QED
      BY <3>1, <3>2, <3>3
  <2>2. \A i \in DOMAIN fields :
          /\ given[fields[i]] = a[i]
          /\ Called(op).takes[fields[i]] = "data" =>
               a[i] \in Seq(Nat) /\ given[fields[i] + 1] = Len(a[i])
    BY <1>1, <2>1
  <2>3. a = [i \in DOMAIN fields |-> a[i]]
    BY <1>6
  <2>4. QED
    BY ONLY <1>5, <2>2, <2>3, ArgumentsSeen
<1>10. Taken(op, a, given)
  <2> DEFINE t == Called(op).takes
  <2>1. t = takes
    BY <1>1
  <2> HIDE DEF t
  <2>2. 2 \in 1 .. 14
    OBVIOUS
  <2>3. t \in Seq(ParameterKinds) /\ Len(t) \in 1 .. 14 /\ Len(t) = 2
    BY <1>2, <2>1, <2>2
  <2>4. Laid(Request(op, a), t, given, Len(t))
    BY <1>8, <2>1, <2>3
  <2>5. given = [k \in 1 .. Len(t) |-> given[k]]
    BY <1>3, <2>3
  <2>6. QED
    BY <1>9, <2>3, <2>4, <2>5 DEF Taken, t
<1>11. QED
  BY <1>10

LEMMA TakenWordInt ==
  ASSUME NEW op, NEW a, AreArguments(op, a),
         Called(op).takes = <<"word", "int32">>,
         Request(op, a) = AppendUint64(1, a[1]) \o AppendInt32(2, a[2])
  PROVE  \E given : Taken(op, a, given)
<1> DEFINE takes == <<"word", "int32">>
           given == <<a[1], a[2]>>
           fields == <<1, 2>>
<1>1. Called(op).takes = takes
  OBVIOUS
<1>2. takes \in Seq(ParameterKinds) /\ Len(takes) = 2
  BY DEF ParameterKinds
<1>3. /\ takes[1] = "word"
      /\ takes[2] = "int32"
      /\ given[1] = a[1]
      /\ given[2] = a[2]
      /\ given = [k \in 1 .. 2 |-> given[k]]
  OBVIOUS
<1>4. /\ fields[1] = 1
      /\ fields[2] = 2
      /\ DOMAIN fields = 1 .. 2
  OBVIOUS
<1>5. Parameters(op) = fields
  <2>1. PICK g : Among(takes, g) /\ Parameters(op) = g[2]
    BY <1>1, <1>2, ParametersFound
  <2> HIDE DEF takes
  <2>2. /\ g[0] = <<>>
        /\ \A n \in 1 .. 2 :
             g[n] = IF takes[n] = "size" THEN g[n - 1] ELSE Append(g[n - 1], n)
    BY <1>2, <2>1 DEF Among
  <2>3. g[1] = <<1>>
    <3>1. 1 \in 1 .. 2 /\ 1 - 1 = 0
      OBVIOUS
    <3>2. g[1 - 1] = <<>>
      BY <3>1, <2>2
    <3>3. takes[1] # "size"
      BY <1>3
    <3>4. g[1] = Append(g[1 - 1], 1)
      BY <2>2, <3>1, <3>3
    <3>5. Append(<<>>, 1) = <<1>>
      OBVIOUS
    <3>6. QED
      BY <3>2, <3>4, <3>5
  <2>4. g[2] = <<1, 2>>
    <3>1. 2 \in 1 .. 2 /\ 2 - 1 = 1
      OBVIOUS
    <3>2. g[2 - 1] = <<1>>
      BY <3>1, <2>3
    <3>3. takes[2] # "size"
      BY <1>3
    <3>4. g[2] = Append(g[2 - 1], 2)
      BY <2>2, <3>1, <3>3
    <3>5. Append(<<1>>, 2) = <<1, 2>>
      BY AppendTo1
    <3>6. QED
      BY <3>2, <3>4, <3>5
  <2>5. QED
    BY <2>1, <2>4
<1> HIDE DEF takes, given, fields
<1>6. /\ a = [i \in DOMAIN fields |-> a[i]]
      /\ \A i \in DOMAIN fields : Fits(takes[fields[i]], a[i])
  BY <1>1, <1>5 DEF AreArguments
<1>7. /\ Fits("word", a[1])
      /\ Fits("int32", a[2])
  <2>1. 1 \in 1 .. 2 /\ 2 \in 1 .. 2
    OBVIOUS
  <2>2. QED
    BY <1>3, <1>4, <1>6, <2>1
<1>8. Laid(Request(op, a), takes, given, 2)
  <2>1. Laid(AppendUint64(1, a[1]), takes, given, 1)
    <3>1. Takes(takes[1], given[1]) /\ FieldFor(takes[1], 1, given[1]) = AppendUint64(1, a[1])
      BY <1>3, <1>7, FitsTakes DEF FieldFor
    <3>2. QED
      BY <3>1, LaidFirst
  <2>2. Laid(AppendUint64(1, a[1]) \o AppendInt32(2, a[2]), takes, given, 2)
    <3>1. 1 \in 0 .. 14 /\ 1 + 1 = 2
      OBVIOUS
    <3>2. /\ Takes(takes[2], given[2])
          /\ FieldFor(takes[2], 2, given[2]) = AppendInt32(2, a[2])
      BY <1>3, <1>7, FitsTakes DEF FieldFor
    <3>3. Laid(AppendUint64(1, a[1]), takes, given, 1)
      BY <2>1 DEF newOp, objOp
    <3> DEFINE s == AppendUint64(1, a[1])
    <3>4. Laid(s, takes, given, 1)
      BY <3>3
    <3> HIDE DEF s
    <3>5. Laid(s \o FieldFor(takes[1 + 1], 1 + 1, given[1 + 1]), takes, given, 1 + 1)
      BY <3>1, <3>2, <3>4, LaidMore
    <3>6. QED
      BY <3>1, <3>2, <3>5 DEF s
  <2>3. QED
    BY <2>2 DEF newOp, objOp, keyOp
<1>9. Understood(op, given) = a
  <2>1. ASSUME NEW i \in DOMAIN fields
        PROVE  /\ given[fields[i]] = a[i]
               /\ takes[fields[i]] = "data" =>
                    a[i] \in Seq(Nat) /\ given[fields[i] + 1] = Len(a[i])
    <3>1. CASE i = 1
      BY <1>3, <1>4, <3>1
    <3>2. CASE i = 2
      BY <1>3, <1>4, <3>2
    <3>3. i \in {1, 2}
      BY <1>4
    <3>4. QED
      BY <3>1, <3>2, <3>3
  <2>2. \A i \in DOMAIN fields :
          /\ given[fields[i]] = a[i]
          /\ Called(op).takes[fields[i]] = "data" =>
               a[i] \in Seq(Nat) /\ given[fields[i] + 1] = Len(a[i])
    BY <1>1, <2>1
  <2>3. a = [i \in DOMAIN fields |-> a[i]]
    BY <1>6
  <2>4. QED
    BY ONLY <1>5, <2>2, <2>3, ArgumentsSeen
<1>10. Taken(op, a, given)
  <2> DEFINE t == Called(op).takes
  <2>1. t = takes
    BY <1>1
  <2> HIDE DEF t
  <2>2. 2 \in 1 .. 14
    OBVIOUS
  <2>3. t \in Seq(ParameterKinds) /\ Len(t) \in 1 .. 14 /\ Len(t) = 2
    BY <1>2, <2>1, <2>2
  <2>4. Laid(Request(op, a), t, given, Len(t))
    BY <1>8, <2>1, <2>3
  <2>5. given = [k \in 1 .. Len(t) |-> given[k]]
    BY <1>3, <2>3
  <2>6. QED
    BY <1>9, <2>3, <2>4, <2>5 DEF Taken, t
<1>11. QED
  BY <1>10

LEMMA TakenNew ==
  ASSUME NEW op, NEW a, AreArguments(op, a),
         Called(op).takes = <<"word", "data", "size">>,
         Request(op, a) = newOp(a)
  PROVE  \E given : Taken(op, a, given)
<1> DEFINE takes == <<"word", "data", "size">>
           given == <<a[1], a[2], Len(a[2])>>
           fields == <<1, 2>>
<1>1. Called(op).takes = takes
  OBVIOUS
<1>2. takes \in Seq(ParameterKinds) /\ Len(takes) = 3
  BY DEF ParameterKinds
<1>3. /\ takes[1] = "word"
      /\ takes[2] = "data"
      /\ takes[3] = "size"
      /\ given[1] = a[1]
      /\ given[2] = a[2]
      /\ given[3] = Len(a[2])
      /\ given = [k \in 1 .. 3 |-> given[k]]
  OBVIOUS
<1>4. /\ fields[1] = 1
      /\ fields[2] = 2
      /\ DOMAIN fields = 1 .. 2
  OBVIOUS
<1>5. Parameters(op) = fields
  <2>1. PICK g : Among(takes, g) /\ Parameters(op) = g[3]
    BY <1>1, <1>2, ParametersFound
  <2> HIDE DEF takes
  <2>2. /\ g[0] = <<>>
        /\ \A n \in 1 .. 3 :
             g[n] = IF takes[n] = "size" THEN g[n - 1] ELSE Append(g[n - 1], n)
    BY <1>2, <2>1 DEF Among
  <2>3. g[1] = <<1>>
    <3>1. 1 \in 1 .. 3 /\ 1 - 1 = 0
      OBVIOUS
    <3>2. g[1 - 1] = <<>>
      BY <3>1, <2>2
    <3>3. takes[1] # "size"
      BY <1>3
    <3>4. g[1] = Append(g[1 - 1], 1)
      BY <2>2, <3>1, <3>3
    <3>5. Append(<<>>, 1) = <<1>>
      OBVIOUS
    <3>6. QED
      BY <3>2, <3>4, <3>5
  <2>4. g[2] = <<1, 2>>
    <3>1. 2 \in 1 .. 3 /\ 2 - 1 = 1
      OBVIOUS
    <3>2. g[2 - 1] = <<1>>
      BY <3>1, <2>3
    <3>3. takes[2] # "size"
      BY <1>3
    <3>4. g[2] = Append(g[2 - 1], 2)
      BY <2>2, <3>1, <3>3
    <3>5. Append(<<1>>, 2) = <<1, 2>>
      BY AppendTo1
    <3>6. QED
      BY <3>2, <3>4, <3>5
  <2>5. g[3] = <<1, 2>>
    <3>1. 3 \in 1 .. 3 /\ 3 - 1 = 2
      OBVIOUS
    <3>2. g[3 - 1] = <<1, 2>>
      BY <3>1, <2>4
    <3>3. g[3] = g[3 - 1]
      BY <1>3, <2>2, <3>1
    <3>4. QED
      BY <3>2, <3>3
  <2>6. QED
    BY <2>1, <2>5
<1> HIDE DEF takes, given, fields
<1>6. /\ a = [i \in DOMAIN fields |-> a[i]]
      /\ \A i \in DOMAIN fields : Fits(takes[fields[i]], a[i])
  BY <1>1, <1>5 DEF AreArguments
<1>7. /\ Fits("word", a[1])
      /\ Fits("data", a[2])
  <2>1. 1 \in 1 .. 2 /\ 2 \in 1 .. 2
    OBVIOUS
  <2>2. QED
    BY <1>3, <1>4, <1>6, <2>1
<1>8. Laid(Request(op, a), takes, given, 3)
  <2>1. Laid(AppendUint64(1, a[1]), takes, given, 1)
    <3>1. Takes(takes[1], given[1]) /\ FieldFor(takes[1], 1, given[1]) = AppendUint64(1, a[1])
      BY <1>3, <1>7, FitsTakes DEF FieldFor
    <3>2. QED
      BY <3>1, LaidFirst
  <2>2. Laid(AppendUint64(1, a[1]) \o appendBuffer(2, a[2]), takes, given, 3)
    <3>1. 1 \in 0 .. 13 /\ 1 + 1 = 2 /\ 1 + 2 = 3
      OBVIOUS
    <3> DEFINE s == AppendUint64(1, a[1])
               d == a[2]
    <3>2. /\ Laid(s, takes, given, 1) /\ Fits("data", d)
          /\ takes[1 + 1] = "data" /\ given[1 + 1] = d
          /\ takes[1 + 2] = "size" /\ given[1 + 2] = Len(d)
      BY <1>3, <1>7, <2>1, <3>1
    <3> HIDE DEF s, d
    <3>3. Laid(s \o appendBuffer(1 + 1, d), takes, given, 1 + 2)
      BY <3>1, <3>2, LaidBuffer
    <3>4. QED
      BY <3>1, <3>3 DEF s, d
  <2>3. QED
    BY <2>2 DEF newOp, objOp, keyOp
<1>9. Understood(op, given) = a
  <2>1. ASSUME NEW i \in DOMAIN fields
        PROVE  /\ given[fields[i]] = a[i]
               /\ takes[fields[i]] = "data" =>
                    a[i] \in Seq(Nat) /\ given[fields[i] + 1] = Len(a[i])
    <3>1. CASE i = 1
      BY <1>3, <1>4, <3>1
    <3>2. CASE i = 2
      <4>1. 2 + 1 = 3
        OBVIOUS
      <4>2. QED
        BY <1>3, <1>4, <1>7, <3>2, <4>1, FitsTakes
    <3>3. i \in {1, 2}
      BY <1>4
    <3>4. QED
      BY <3>1, <3>2, <3>3
  <2>2. \A i \in DOMAIN fields :
          /\ given[fields[i]] = a[i]
          /\ Called(op).takes[fields[i]] = "data" =>
               a[i] \in Seq(Nat) /\ given[fields[i] + 1] = Len(a[i])
    BY <1>1, <2>1
  <2>3. a = [i \in DOMAIN fields |-> a[i]]
    BY <1>6
  <2>4. QED
    BY ONLY <1>5, <2>2, <2>3, ArgumentsSeen
<1>10. Taken(op, a, given)
  <2> DEFINE t == Called(op).takes
  <2>1. t = takes
    BY <1>1
  <2> HIDE DEF t
  <2>2. 3 \in 1 .. 14
    OBVIOUS
  <2>3. t \in Seq(ParameterKinds) /\ Len(t) \in 1 .. 14 /\ Len(t) = 3
    BY <1>2, <2>1, <2>2
  <2>4. Laid(Request(op, a), t, given, Len(t))
    BY <1>8, <2>1, <2>3
  <2>5. given = [k \in 1 .. Len(t) |-> given[k]]
    BY <1>3, <2>3
  <2>6. QED
    BY <1>9, <2>3, <2>4, <2>5 DEF Taken, t
<1>11. QED
  BY <1>10

LEMMA TakenNewInt ==
  ASSUME NEW op, NEW a, AreArguments(op, a),
         Called(op).takes = <<"word", "data", "size", "int32">>,
         Request(op, a) = newOp(a) \o AppendInt32(4, a[3])
  PROVE  \E given : Taken(op, a, given)
<1> DEFINE takes == <<"word", "data", "size", "int32">>
           given == <<a[1], a[2], Len(a[2]), a[3]>>
           fields == <<1, 2, 4>>
<1>1. Called(op).takes = takes
  OBVIOUS
<1>2. takes \in Seq(ParameterKinds) /\ Len(takes) = 4
  BY DEF ParameterKinds
<1>3. /\ takes[1] = "word"
      /\ takes[2] = "data"
      /\ takes[3] = "size"
      /\ takes[4] = "int32"
      /\ given[1] = a[1]
      /\ given[2] = a[2]
      /\ given[3] = Len(a[2])
      /\ given[4] = a[3]
      /\ given = [k \in 1 .. 4 |-> given[k]]
  OBVIOUS
<1>4. /\ fields[1] = 1
      /\ fields[2] = 2
      /\ fields[3] = 4
      /\ DOMAIN fields = 1 .. 3
  OBVIOUS
<1>5. Parameters(op) = fields
  <2>1. PICK g : Among(takes, g) /\ Parameters(op) = g[4]
    BY <1>1, <1>2, ParametersFound
  <2> HIDE DEF takes
  <2>2. /\ g[0] = <<>>
        /\ \A n \in 1 .. 4 :
             g[n] = IF takes[n] = "size" THEN g[n - 1] ELSE Append(g[n - 1], n)
    BY <1>2, <2>1 DEF Among
  <2>3. g[1] = <<1>>
    <3>1. 1 \in 1 .. 4 /\ 1 - 1 = 0
      OBVIOUS
    <3>2. g[1 - 1] = <<>>
      BY <3>1, <2>2
    <3>3. takes[1] # "size"
      BY <1>3
    <3>4. g[1] = Append(g[1 - 1], 1)
      BY <2>2, <3>1, <3>3
    <3>5. Append(<<>>, 1) = <<1>>
      OBVIOUS
    <3>6. QED
      BY <3>2, <3>4, <3>5
  <2>4. g[2] = <<1, 2>>
    <3>1. 2 \in 1 .. 4 /\ 2 - 1 = 1
      OBVIOUS
    <3>2. g[2 - 1] = <<1>>
      BY <3>1, <2>3
    <3>3. takes[2] # "size"
      BY <1>3
    <3>4. g[2] = Append(g[2 - 1], 2)
      BY <2>2, <3>1, <3>3
    <3>5. Append(<<1>>, 2) = <<1, 2>>
      BY AppendTo1
    <3>6. QED
      BY <3>2, <3>4, <3>5
  <2>5. g[3] = <<1, 2>>
    <3>1. 3 \in 1 .. 4 /\ 3 - 1 = 2
      OBVIOUS
    <3>2. g[3 - 1] = <<1, 2>>
      BY <3>1, <2>4
    <3>3. g[3] = g[3 - 1]
      BY <1>3, <2>2, <3>1
    <3>4. QED
      BY <3>2, <3>3
  <2>6. g[4] = <<1, 2, 4>>
    <3>1. 4 \in 1 .. 4 /\ 4 - 1 = 3
      OBVIOUS
    <3>2. g[4 - 1] = <<1, 2>>
      BY <3>1, <2>5
    <3>3. takes[4] # "size"
      BY <1>3
    <3>4. g[4] = Append(g[4 - 1], 4)
      BY <2>2, <3>1, <3>3
    <3>5. Append(<<1, 2>>, 4) = <<1, 2, 4>>
      BY AppendTo2
    <3>6. QED
      BY <3>2, <3>4, <3>5
  <2>7. QED
    BY <2>1, <2>6
<1> HIDE DEF takes, given, fields
<1>6. /\ a = [i \in DOMAIN fields |-> a[i]]
      /\ \A i \in DOMAIN fields : Fits(takes[fields[i]], a[i])
  BY <1>1, <1>5 DEF AreArguments
<1>7. /\ Fits("word", a[1])
      /\ Fits("data", a[2])
      /\ Fits("int32", a[3])
  <2>1. 1 \in 1 .. 3 /\ 2 \in 1 .. 3 /\ 3 \in 1 .. 3
    OBVIOUS
  <2>2. QED
    BY <1>3, <1>4, <1>6, <2>1
<1>8. Laid(Request(op, a), takes, given, 4)
  <2>1. Laid(AppendUint64(1, a[1]), takes, given, 1)
    <3>1. Takes(takes[1], given[1]) /\ FieldFor(takes[1], 1, given[1]) = AppendUint64(1, a[1])
      BY <1>3, <1>7, FitsTakes DEF FieldFor
    <3>2. QED
      BY <3>1, LaidFirst
  <2>2. Laid(AppendUint64(1, a[1]) \o appendBuffer(2, a[2]), takes, given, 3)
    <3>1. 1 \in 0 .. 13 /\ 1 + 1 = 2 /\ 1 + 2 = 3
      OBVIOUS
    <3> DEFINE s == AppendUint64(1, a[1])
               d == a[2]
    <3>2. /\ Laid(s, takes, given, 1) /\ Fits("data", d)
          /\ takes[1 + 1] = "data" /\ given[1 + 1] = d
          /\ takes[1 + 2] = "size" /\ given[1 + 2] = Len(d)
      BY <1>3, <1>7, <2>1, <3>1
    <3> HIDE DEF s, d
    <3>3. Laid(s \o appendBuffer(1 + 1, d), takes, given, 1 + 2)
      BY <3>1, <3>2, LaidBuffer
    <3>4. QED
      BY <3>1, <3>3 DEF s, d
  <2>3. Laid(newOp(a) \o AppendInt32(4, a[3]), takes, given, 4)
    <3>1. 3 \in 0 .. 14 /\ 3 + 1 = 4
      OBVIOUS
    <3>2. /\ Takes(takes[4], given[4])
          /\ FieldFor(takes[4], 4, given[4]) = AppendInt32(4, a[3])
      BY <1>3, <1>7, FitsTakes DEF FieldFor
    <3>3. Laid(newOp(a), takes, given, 3)
      BY <2>2 DEF newOp, objOp
    <3> DEFINE s == newOp(a)
    <3>4. Laid(s, takes, given, 3)
      BY <3>3
    <3> HIDE DEF s
    <3>5. Laid(s \o FieldFor(takes[3 + 1], 3 + 1, given[3 + 1]), takes, given, 3 + 1)
      BY <3>1, <3>2, <3>4, LaidMore
    <3>6. QED
      BY <3>1, <3>2, <3>5 DEF s
  <2>4. QED
    BY <2>3 DEF newOp, objOp, keyOp
<1>9. Understood(op, given) = a
  <2>1. ASSUME NEW i \in DOMAIN fields
        PROVE  /\ given[fields[i]] = a[i]
               /\ takes[fields[i]] = "data" =>
                    a[i] \in Seq(Nat) /\ given[fields[i] + 1] = Len(a[i])
    <3>1. CASE i = 1
      BY <1>3, <1>4, <3>1
    <3>2. CASE i = 2
      <4>1. 2 + 1 = 3
        OBVIOUS
      <4>2. QED
        BY <1>3, <1>4, <1>7, <3>2, <4>1, FitsTakes
    <3>3. CASE i = 3
      BY <1>3, <1>4, <3>3
    <3>4. i \in {1, 2, 3}
      BY <1>4
    <3>5. QED
      BY <3>1, <3>2, <3>3, <3>4
  <2>2. \A i \in DOMAIN fields :
          /\ given[fields[i]] = a[i]
          /\ Called(op).takes[fields[i]] = "data" =>
               a[i] \in Seq(Nat) /\ given[fields[i] + 1] = Len(a[i])
    BY <1>1, <2>1
  <2>3. a = [i \in DOMAIN fields |-> a[i]]
    BY <1>6
  <2>4. QED
    BY ONLY <1>5, <2>2, <2>3, ArgumentsSeen
<1>10. Taken(op, a, given)
  <2> DEFINE t == Called(op).takes
  <2>1. t = takes
    BY <1>1
  <2> HIDE DEF t
  <2>2. 4 \in 1 .. 14
    OBVIOUS
  <2>3. t \in Seq(ParameterKinds) /\ Len(t) \in 1 .. 14 /\ Len(t) = 4
    BY <1>2, <2>1, <2>2
  <2>4. Laid(Request(op, a), t, given, Len(t))
    BY <1>8, <2>1, <2>3
  <2>5. given = [k \in 1 .. Len(t) |-> given[k]]
    BY <1>3, <2>3
  <2>6. QED
    BY <1>9, <2>3, <2>4, <2>5 DEF Taken, t
<1>11. QED
  BY <1>10

LEMMA TakenObject ==
  ASSUME NEW op, NEW a, AreArguments(op, a),
         Called(op).takes = <<"word", "word">>,
         Request(op, a) = objOp(a)
  PROVE  \E given : Taken(op, a, given)
<1> DEFINE takes == <<"word", "word">>
           given == <<a[1], a[2]>>
           fields == <<1, 2>>
<1>1. Called(op).takes = takes
  OBVIOUS
<1>2. takes \in Seq(ParameterKinds) /\ Len(takes) = 2
  BY DEF ParameterKinds
<1>3. /\ takes[1] = "word"
      /\ takes[2] = "word"
      /\ given[1] = a[1]
      /\ given[2] = a[2]
      /\ given = [k \in 1 .. 2 |-> given[k]]
  OBVIOUS
<1>4. /\ fields[1] = 1
      /\ fields[2] = 2
      /\ DOMAIN fields = 1 .. 2
  OBVIOUS
<1>5. Parameters(op) = fields
  <2>1. PICK g : Among(takes, g) /\ Parameters(op) = g[2]
    BY <1>1, <1>2, ParametersFound
  <2> HIDE DEF takes
  <2>2. /\ g[0] = <<>>
        /\ \A n \in 1 .. 2 :
             g[n] = IF takes[n] = "size" THEN g[n - 1] ELSE Append(g[n - 1], n)
    BY <1>2, <2>1 DEF Among
  <2>3. g[1] = <<1>>
    <3>1. 1 \in 1 .. 2 /\ 1 - 1 = 0
      OBVIOUS
    <3>2. g[1 - 1] = <<>>
      BY <3>1, <2>2
    <3>3. takes[1] # "size"
      BY <1>3
    <3>4. g[1] = Append(g[1 - 1], 1)
      BY <2>2, <3>1, <3>3
    <3>5. Append(<<>>, 1) = <<1>>
      OBVIOUS
    <3>6. QED
      BY <3>2, <3>4, <3>5
  <2>4. g[2] = <<1, 2>>
    <3>1. 2 \in 1 .. 2 /\ 2 - 1 = 1
      OBVIOUS
    <3>2. g[2 - 1] = <<1>>
      BY <3>1, <2>3
    <3>3. takes[2] # "size"
      BY <1>3
    <3>4. g[2] = Append(g[2 - 1], 2)
      BY <2>2, <3>1, <3>3
    <3>5. Append(<<1>>, 2) = <<1, 2>>
      BY AppendTo1
    <3>6. QED
      BY <3>2, <3>4, <3>5
  <2>5. QED
    BY <2>1, <2>4
<1> HIDE DEF takes, given, fields
<1>6. /\ a = [i \in DOMAIN fields |-> a[i]]
      /\ \A i \in DOMAIN fields : Fits(takes[fields[i]], a[i])
  BY <1>1, <1>5 DEF AreArguments
<1>7. /\ Fits("word", a[1])
      /\ Fits("word", a[2])
  <2>1. 1 \in 1 .. 2 /\ 2 \in 1 .. 2
    OBVIOUS
  <2>2. QED
    BY <1>3, <1>4, <1>6, <2>1
<1>8. Laid(Request(op, a), takes, given, 2)
  <2>1. Laid(AppendUint64(1, a[1]), takes, given, 1)
    <3>1. Takes(takes[1], given[1]) /\ FieldFor(takes[1], 1, given[1]) = AppendUint64(1, a[1])
      BY <1>3, <1>7, FitsTakes DEF FieldFor
    <3>2. QED
      BY <3>1, LaidFirst
  <2>2. Laid(AppendUint64(1, a[1]) \o AppendUint64(2, a[2]), takes, given, 2)
    <3>1. 1 \in 0 .. 14 /\ 1 + 1 = 2
      OBVIOUS
    <3>2. /\ Takes(takes[2], given[2])
          /\ FieldFor(takes[2], 2, given[2]) = AppendUint64(2, a[2])
      BY <1>3, <1>7, FitsTakes DEF FieldFor
    <3>3. Laid(AppendUint64(1, a[1]), takes, given, 1)
      BY <2>1 DEF newOp, objOp
    <3> DEFINE s == AppendUint64(1, a[1])
    <3>4. Laid(s, takes, given, 1)
      BY <3>3
    <3> HIDE DEF s
    <3>5. Laid(s \o FieldFor(takes[1 + 1], 1 + 1, given[1 + 1]), takes, given, 1 + 1)
      BY <3>1, <3>2, <3>4, LaidMore
    <3>6. QED
      BY <3>1, <3>2, <3>5 DEF s
  <2>3. QED
    BY <2>2 DEF newOp, objOp, keyOp
<1>9. Understood(op, given) = a
  <2>1. ASSUME NEW i \in DOMAIN fields
        PROVE  /\ given[fields[i]] = a[i]
               /\ takes[fields[i]] = "data" =>
                    a[i] \in Seq(Nat) /\ given[fields[i] + 1] = Len(a[i])
    <3>1. CASE i = 1
      BY <1>3, <1>4, <3>1
    <3>2. CASE i = 2
      BY <1>3, <1>4, <3>2
    <3>3. i \in {1, 2}
      BY <1>4
    <3>4. QED
      BY <3>1, <3>2, <3>3
  <2>2. \A i \in DOMAIN fields :
          /\ given[fields[i]] = a[i]
          /\ Called(op).takes[fields[i]] = "data" =>
               a[i] \in Seq(Nat) /\ given[fields[i] + 1] = Len(a[i])
    BY <1>1, <2>1
  <2>3. a = [i \in DOMAIN fields |-> a[i]]
    BY <1>6
  <2>4. QED
    BY ONLY <1>5, <2>2, <2>3, ArgumentsSeen
<1>10. Taken(op, a, given)
  <2> DEFINE t == Called(op).takes
  <2>1. t = takes
    BY <1>1
  <2> HIDE DEF t
  <2>2. 2 \in 1 .. 14
    OBVIOUS
  <2>3. t \in Seq(ParameterKinds) /\ Len(t) \in 1 .. 14 /\ Len(t) = 2
    BY <1>2, <2>1, <2>2
  <2>4. Laid(Request(op, a), t, given, Len(t))
    BY <1>8, <2>1, <2>3
  <2>5. given = [k \in 1 .. Len(t) |-> given[k]]
    BY <1>3, <2>3
  <2>6. QED
    BY <1>9, <2>3, <2>4, <2>5 DEF Taken, t
<1>11. QED
  BY <1>10

LEMMA TakenKey ==
  ASSUME NEW op, NEW a, AreArguments(op, a),
         Called(op).takes = <<"word", "word", "data", "size">>,
         Request(op, a) = keyOp(a)
  PROVE  \E given : Taken(op, a, given)
<1> DEFINE takes == <<"word", "word", "data", "size">>
           given == <<a[1], a[2], a[3], Len(a[3])>>
           fields == <<1, 2, 3>>
<1>1. Called(op).takes = takes
  OBVIOUS
<1>2. takes \in Seq(ParameterKinds) /\ Len(takes) = 4
  BY DEF ParameterKinds
<1>3. /\ takes[1] = "word"
      /\ takes[2] = "word"
      /\ takes[3] = "data"
      /\ takes[4] = "size"
      /\ given[1] = a[1]
      /\ given[2] = a[2]
      /\ given[3] = a[3]
      /\ given[4] = Len(a[3])
      /\ given = [k \in 1 .. 4 |-> given[k]]
  OBVIOUS
<1>4. /\ fields[1] = 1
      /\ fields[2] = 2
      /\ fields[3] = 3
      /\ DOMAIN fields = 1 .. 3
  OBVIOUS
<1>5. Parameters(op) = fields
  <2>1. PICK g : Among(takes, g) /\ Parameters(op) = g[4]
    BY <1>1, <1>2, ParametersFound
  <2> HIDE DEF takes
  <2>2. /\ g[0] = <<>>
        /\ \A n \in 1 .. 4 :
             g[n] = IF takes[n] = "size" THEN g[n - 1] ELSE Append(g[n - 1], n)
    BY <1>2, <2>1 DEF Among
  <2>3. g[1] = <<1>>
    <3>1. 1 \in 1 .. 4 /\ 1 - 1 = 0
      OBVIOUS
    <3>2. g[1 - 1] = <<>>
      BY <3>1, <2>2
    <3>3. takes[1] # "size"
      BY <1>3
    <3>4. g[1] = Append(g[1 - 1], 1)
      BY <2>2, <3>1, <3>3
    <3>5. Append(<<>>, 1) = <<1>>
      OBVIOUS
    <3>6. QED
      BY <3>2, <3>4, <3>5
  <2>4. g[2] = <<1, 2>>
    <3>1. 2 \in 1 .. 4 /\ 2 - 1 = 1
      OBVIOUS
    <3>2. g[2 - 1] = <<1>>
      BY <3>1, <2>3
    <3>3. takes[2] # "size"
      BY <1>3
    <3>4. g[2] = Append(g[2 - 1], 2)
      BY <2>2, <3>1, <3>3
    <3>5. Append(<<1>>, 2) = <<1, 2>>
      BY AppendTo1
    <3>6. QED
      BY <3>2, <3>4, <3>5
  <2>5. g[3] = <<1, 2, 3>>
    <3>1. 3 \in 1 .. 4 /\ 3 - 1 = 2
      OBVIOUS
    <3>2. g[3 - 1] = <<1, 2>>
      BY <3>1, <2>4
    <3>3. takes[3] # "size"
      BY <1>3
    <3>4. g[3] = Append(g[3 - 1], 3)
      BY <2>2, <3>1, <3>3
    <3>5. Append(<<1, 2>>, 3) = <<1, 2, 3>>
      BY AppendTo2
    <3>6. QED
      BY <3>2, <3>4, <3>5
  <2>6. g[4] = <<1, 2, 3>>
    <3>1. 4 \in 1 .. 4 /\ 4 - 1 = 3
      OBVIOUS
    <3>2. g[4 - 1] = <<1, 2, 3>>
      BY <3>1, <2>5
    <3>3. g[4] = g[4 - 1]
      BY <1>3, <2>2, <3>1
    <3>4. QED
      BY <3>2, <3>3
  <2>7. QED
    BY <2>1, <2>6
<1> HIDE DEF takes, given, fields
<1>6. /\ a = [i \in DOMAIN fields |-> a[i]]
      /\ \A i \in DOMAIN fields : Fits(takes[fields[i]], a[i])
  BY <1>1, <1>5 DEF AreArguments
<1>7. /\ Fits("word", a[1])
      /\ Fits("word", a[2])
      /\ Fits("data", a[3])
  <2>1. 1 \in 1 .. 3 /\ 2 \in 1 .. 3 /\ 3 \in 1 .. 3
    OBVIOUS
  <2>2. QED
    BY <1>3, <1>4, <1>6, <2>1
<1>8. Laid(Request(op, a), takes, given, 4)
  <2>1. Laid(AppendUint64(1, a[1]), takes, given, 1)
    <3>1. Takes(takes[1], given[1]) /\ FieldFor(takes[1], 1, given[1]) = AppendUint64(1, a[1])
      BY <1>3, <1>7, FitsTakes DEF FieldFor
    <3>2. QED
      BY <3>1, LaidFirst
  <2>2. Laid(AppendUint64(1, a[1]) \o AppendUint64(2, a[2]), takes, given, 2)
    <3>1. 1 \in 0 .. 14 /\ 1 + 1 = 2
      OBVIOUS
    <3>2. /\ Takes(takes[2], given[2])
          /\ FieldFor(takes[2], 2, given[2]) = AppendUint64(2, a[2])
      BY <1>3, <1>7, FitsTakes DEF FieldFor
    <3>3. Laid(AppendUint64(1, a[1]), takes, given, 1)
      BY <2>1 DEF newOp, objOp
    <3> DEFINE s == AppendUint64(1, a[1])
    <3>4. Laid(s, takes, given, 1)
      BY <3>3
    <3> HIDE DEF s
    <3>5. Laid(s \o FieldFor(takes[1 + 1], 1 + 1, given[1 + 1]), takes, given, 1 + 1)
      BY <3>1, <3>2, <3>4, LaidMore
    <3>6. QED
      BY <3>1, <3>2, <3>5 DEF s
  <2>3. Laid((AppendUint64(1, a[1]) \o AppendUint64(2, a[2]))
          \o appendBuffer(3, a[3]), takes, given, 4)
    <3>1. 2 \in 0 .. 13 /\ 2 + 1 = 3 /\ 2 + 2 = 4
      OBVIOUS
    <3> DEFINE s == AppendUint64(1, a[1]) \o AppendUint64(2, a[2])
               d == a[3]
    <3>2. /\ Laid(s, takes, given, 2) /\ Fits("data", d)
          /\ takes[2 + 1] = "data" /\ given[2 + 1] = d
          /\ takes[2 + 2] = "size" /\ given[2 + 2] = Len(d)
      BY <1>3, <1>7, <2>2, <3>1
    <3> HIDE DEF s, d
    <3>3. Laid(s \o appendBuffer(2 + 1, d), takes, given, 2 + 2)
      BY <3>1, <3>2, LaidBuffer
    <3>4. QED
      BY <3>1, <3>3 DEF s, d
  <2>4. QED
    BY <2>3 DEF newOp, objOp, keyOp
<1>9. Understood(op, given) = a
  <2>1. ASSUME NEW i \in DOMAIN fields
        PROVE  /\ given[fields[i]] = a[i]
               /\ takes[fields[i]] = "data" =>
                    a[i] \in Seq(Nat) /\ given[fields[i] + 1] = Len(a[i])
    <3>1. CASE i = 1
      BY <1>3, <1>4, <3>1
    <3>2. CASE i = 2
      BY <1>3, <1>4, <3>2
    <3>3. CASE i = 3
      <4>1. 3 + 1 = 4
        OBVIOUS
      <4>2. QED
        BY <1>3, <1>4, <1>7, <3>3, <4>1, FitsTakes
    <3>4. i \in {1, 2, 3}
      BY <1>4
    <3>5. QED
      BY <3>1, <3>2, <3>3, <3>4
  <2>2. \A i \in DOMAIN fields :
          /\ given[fields[i]] = a[i]
          /\ Called(op).takes[fields[i]] = "data" =>
               a[i] \in Seq(Nat) /\ given[fields[i] + 1] = Len(a[i])
    BY <1>1, <2>1
  <2>3. a = [i \in DOMAIN fields |-> a[i]]
    BY <1>6
  <2>4. QED
    BY ONLY <1>5, <2>2, <2>3, ArgumentsSeen
<1>10. Taken(op, a, given)
  <2> DEFINE t == Called(op).takes
  <2>1. t = takes
    BY <1>1
  <2> HIDE DEF t
  <2>2. 4 \in 1 .. 14
    OBVIOUS
  <2>3. t \in Seq(ParameterKinds) /\ Len(t) \in 1 .. 14 /\ Len(t) = 4
    BY <1>2, <2>1, <2>2
  <2>4. Laid(Request(op, a), t, given, Len(t))
    BY <1>8, <2>1, <2>3
  <2>5. given = [k \in 1 .. Len(t) |-> given[k]]
    BY <1>3, <2>3
  <2>6. QED
    BY <1>9, <2>3, <2>4, <2>5 DEF Taken, t
<1>11. QED
  BY <1>10

LEMMA TakenObjects ==
  ASSUME NEW op, NEW a, AreArguments(op, a),
         Called(op).takes = <<"word", "word", "word">>,
         Request(op, a) = objOp(a) \o AppendUint64(3, a[3])
  PROVE  \E given : Taken(op, a, given)
<1> DEFINE takes == <<"word", "word", "word">>
           given == <<a[1], a[2], a[3]>>
           fields == <<1, 2, 3>>
<1>1. Called(op).takes = takes
  OBVIOUS
<1>2. takes \in Seq(ParameterKinds) /\ Len(takes) = 3
  BY DEF ParameterKinds
<1>3. /\ takes[1] = "word"
      /\ takes[2] = "word"
      /\ takes[3] = "word"
      /\ given[1] = a[1]
      /\ given[2] = a[2]
      /\ given[3] = a[3]
      /\ given = [k \in 1 .. 3 |-> given[k]]
  OBVIOUS
<1>4. /\ fields[1] = 1
      /\ fields[2] = 2
      /\ fields[3] = 3
      /\ DOMAIN fields = 1 .. 3
  OBVIOUS
<1>5. Parameters(op) = fields
  <2>1. PICK g : Among(takes, g) /\ Parameters(op) = g[3]
    BY <1>1, <1>2, ParametersFound
  <2> HIDE DEF takes
  <2>2. /\ g[0] = <<>>
        /\ \A n \in 1 .. 3 :
             g[n] = IF takes[n] = "size" THEN g[n - 1] ELSE Append(g[n - 1], n)
    BY <1>2, <2>1 DEF Among
  <2>3. g[1] = <<1>>
    <3>1. 1 \in 1 .. 3 /\ 1 - 1 = 0
      OBVIOUS
    <3>2. g[1 - 1] = <<>>
      BY <3>1, <2>2
    <3>3. takes[1] # "size"
      BY <1>3
    <3>4. g[1] = Append(g[1 - 1], 1)
      BY <2>2, <3>1, <3>3
    <3>5. Append(<<>>, 1) = <<1>>
      OBVIOUS
    <3>6. QED
      BY <3>2, <3>4, <3>5
  <2>4. g[2] = <<1, 2>>
    <3>1. 2 \in 1 .. 3 /\ 2 - 1 = 1
      OBVIOUS
    <3>2. g[2 - 1] = <<1>>
      BY <3>1, <2>3
    <3>3. takes[2] # "size"
      BY <1>3
    <3>4. g[2] = Append(g[2 - 1], 2)
      BY <2>2, <3>1, <3>3
    <3>5. Append(<<1>>, 2) = <<1, 2>>
      BY AppendTo1
    <3>6. QED
      BY <3>2, <3>4, <3>5
  <2>5. g[3] = <<1, 2, 3>>
    <3>1. 3 \in 1 .. 3 /\ 3 - 1 = 2
      OBVIOUS
    <3>2. g[3 - 1] = <<1, 2>>
      BY <3>1, <2>4
    <3>3. takes[3] # "size"
      BY <1>3
    <3>4. g[3] = Append(g[3 - 1], 3)
      BY <2>2, <3>1, <3>3
    <3>5. Append(<<1, 2>>, 3) = <<1, 2, 3>>
      BY AppendTo2
    <3>6. QED
      BY <3>2, <3>4, <3>5
  <2>6. QED
    BY <2>1, <2>5
<1> HIDE DEF takes, given, fields
<1>6. /\ a = [i \in DOMAIN fields |-> a[i]]
      /\ \A i \in DOMAIN fields : Fits(takes[fields[i]], a[i])
  BY <1>1, <1>5 DEF AreArguments
<1>7. /\ Fits("word", a[1])
      /\ Fits("word", a[2])
      /\ Fits("word", a[3])
  <2>1. 1 \in 1 .. 3 /\ 2 \in 1 .. 3 /\ 3 \in 1 .. 3
    OBVIOUS
  <2>2. QED
    BY <1>3, <1>4, <1>6, <2>1
<1>8. Laid(Request(op, a), takes, given, 3)
  <2>1. Laid(AppendUint64(1, a[1]), takes, given, 1)
    <3>1. Takes(takes[1], given[1]) /\ FieldFor(takes[1], 1, given[1]) = AppendUint64(1, a[1])
      BY <1>3, <1>7, FitsTakes DEF FieldFor
    <3>2. QED
      BY <3>1, LaidFirst
  <2>2. Laid(AppendUint64(1, a[1]) \o AppendUint64(2, a[2]), takes, given, 2)
    <3>1. 1 \in 0 .. 14 /\ 1 + 1 = 2
      OBVIOUS
    <3>2. /\ Takes(takes[2], given[2])
          /\ FieldFor(takes[2], 2, given[2]) = AppendUint64(2, a[2])
      BY <1>3, <1>7, FitsTakes DEF FieldFor
    <3>3. Laid(AppendUint64(1, a[1]), takes, given, 1)
      BY <2>1 DEF newOp, objOp
    <3> DEFINE s == AppendUint64(1, a[1])
    <3>4. Laid(s, takes, given, 1)
      BY <3>3
    <3> HIDE DEF s
    <3>5. Laid(s \o FieldFor(takes[1 + 1], 1 + 1, given[1 + 1]), takes, given, 1 + 1)
      BY <3>1, <3>2, <3>4, LaidMore
    <3>6. QED
      BY <3>1, <3>2, <3>5 DEF s
  <2>3. Laid(AppendUint64(1, a[1]) \o AppendUint64(2, a[2])
          \o AppendUint64(3, a[3]), takes, given, 3)
    <3>1. 2 \in 0 .. 14 /\ 2 + 1 = 3
      OBVIOUS
    <3>2. /\ Takes(takes[3], given[3])
          /\ FieldFor(takes[3], 3, given[3]) = AppendUint64(3, a[3])
      BY <1>3, <1>7, FitsTakes DEF FieldFor
    <3>3. Laid(AppendUint64(1, a[1]) \o AppendUint64(2, a[2]), takes, given, 2)
      BY <2>2 DEF newOp, objOp
    <3> DEFINE s == AppendUint64(1, a[1]) \o AppendUint64(2, a[2])
    <3>4. Laid(s, takes, given, 2)
      BY <3>3
    <3> HIDE DEF s
    <3>5. Laid(s \o FieldFor(takes[2 + 1], 2 + 1, given[2 + 1]), takes, given, 2 + 1)
      BY <3>1, <3>2, <3>4, LaidMore
    <3>6. QED
      BY <3>1, <3>2, <3>5 DEF s
  <2>4. QED
    BY <2>3 DEF newOp, objOp, keyOp
<1>9. Understood(op, given) = a
  <2>1. ASSUME NEW i \in DOMAIN fields
        PROVE  /\ given[fields[i]] = a[i]
               /\ takes[fields[i]] = "data" =>
                    a[i] \in Seq(Nat) /\ given[fields[i] + 1] = Len(a[i])
    <3>1. CASE i = 1
      BY <1>3, <1>4, <3>1
    <3>2. CASE i = 2
      BY <1>3, <1>4, <3>2
    <3>3. CASE i = 3
      BY <1>3, <1>4, <3>3
    <3>4. i \in {1, 2, 3}
      BY <1>4
    <3>5. QED
      BY <3>1, <3>2, <3>3, <3>4
  <2>2. \A i \in DOMAIN fields :
          /\ given[fields[i]] = a[i]
          /\ Called(op).takes[fields[i]] = "data" =>
               a[i] \in Seq(Nat) /\ given[fields[i] + 1] = Len(a[i])
    BY <1>1, <2>1
  <2>3. a = [i \in DOMAIN fields |-> a[i]]
    BY <1>6
  <2>4. QED
    BY ONLY <1>5, <2>2, <2>3, ArgumentsSeen
<1>10. Taken(op, a, given)
  <2> DEFINE t == Called(op).takes
  <2>1. t = takes
    BY <1>1
  <2> HIDE DEF t
  <2>2. 3 \in 1 .. 14
    OBVIOUS
  <2>3. t \in Seq(ParameterKinds) /\ Len(t) \in 1 .. 14 /\ Len(t) = 3
    BY <1>2, <2>1, <2>2
  <2>4. Laid(Request(op, a), t, given, Len(t))
    BY <1>8, <2>1, <2>3
  <2>5. given = [k \in 1 .. Len(t) |-> given[k]]
    BY <1>3, <2>3
  <2>6. QED
    BY <1>9, <2>3, <2>4, <2>5 DEF Taken, t
<1>11. QED
  BY <1>10

LEMMA TakenKeyBuffer ==
  ASSUME NEW op, NEW a, AreArguments(op, a),
         Called(op).takes = <<"word", "word", "data", "size", "data", "size">>,
         Request(op, a) = keyOp(a) \o appendBuffer(5, a[4])
  PROVE  \E given : Taken(op, a, given)
<1> DEFINE takes == <<"word", "word", "data", "size", "data", "size">>
           given == <<a[1], a[2], a[3], Len(a[3]), a[4], Len(a[4])>>
           fields == <<1, 2, 3, 5>>
<1>1. Called(op).takes = takes
  OBVIOUS
<1>2. takes \in Seq(ParameterKinds) /\ Len(takes) = 6
  BY DEF ParameterKinds
<1>3. /\ takes[1] = "word"
      /\ takes[2] = "word"
      /\ takes[3] = "data"
      /\ takes[4] = "size"
      /\ takes[5] = "data"
      /\ takes[6] = "size"
      /\ given[1] = a[1]
      /\ given[2] = a[2]
      /\ given[3] = a[3]
      /\ given[4] = Len(a[3])
      /\ given[5] = a[4]
      /\ given[6] = Len(a[4])
      /\ given = [k \in 1 .. 6 |-> given[k]]
  OBVIOUS
<1>4. /\ fields[1] = 1
      /\ fields[2] = 2
      /\ fields[3] = 3
      /\ fields[4] = 5
      /\ DOMAIN fields = 1 .. 4
  OBVIOUS
<1>5. Parameters(op) = fields
  <2>1. PICK g : Among(takes, g) /\ Parameters(op) = g[6]
    BY <1>1, <1>2, ParametersFound
  <2> HIDE DEF takes
  <2>2. /\ g[0] = <<>>
        /\ \A n \in 1 .. 6 :
             g[n] = IF takes[n] = "size" THEN g[n - 1] ELSE Append(g[n - 1], n)
    BY <1>2, <2>1 DEF Among
  <2>3. g[1] = <<1>>
    <3>1. 1 \in 1 .. 6 /\ 1 - 1 = 0
      OBVIOUS
    <3>2. g[1 - 1] = <<>>
      BY <3>1, <2>2
    <3>3. takes[1] # "size"
      BY <1>3
    <3>4. g[1] = Append(g[1 - 1], 1)
      BY <2>2, <3>1, <3>3
    <3>5. Append(<<>>, 1) = <<1>>
      OBVIOUS
    <3>6. QED
      BY <3>2, <3>4, <3>5
  <2>4. g[2] = <<1, 2>>
    <3>1. 2 \in 1 .. 6 /\ 2 - 1 = 1
      OBVIOUS
    <3>2. g[2 - 1] = <<1>>
      BY <3>1, <2>3
    <3>3. takes[2] # "size"
      BY <1>3
    <3>4. g[2] = Append(g[2 - 1], 2)
      BY <2>2, <3>1, <3>3
    <3>5. Append(<<1>>, 2) = <<1, 2>>
      BY AppendTo1
    <3>6. QED
      BY <3>2, <3>4, <3>5
  <2>5. g[3] = <<1, 2, 3>>
    <3>1. 3 \in 1 .. 6 /\ 3 - 1 = 2
      OBVIOUS
    <3>2. g[3 - 1] = <<1, 2>>
      BY <3>1, <2>4
    <3>3. takes[3] # "size"
      BY <1>3
    <3>4. g[3] = Append(g[3 - 1], 3)
      BY <2>2, <3>1, <3>3
    <3>5. Append(<<1, 2>>, 3) = <<1, 2, 3>>
      BY AppendTo2
    <3>6. QED
      BY <3>2, <3>4, <3>5
  <2>6. g[4] = <<1, 2, 3>>
    <3>1. 4 \in 1 .. 6 /\ 4 - 1 = 3
      OBVIOUS
    <3>2. g[4 - 1] = <<1, 2, 3>>
      BY <3>1, <2>5
    <3>3. g[4] = g[4 - 1]
      BY <1>3, <2>2, <3>1
    <3>4. QED
      BY <3>2, <3>3
  <2>7. g[5] = <<1, 2, 3, 5>>
    <3>1. 5 \in 1 .. 6 /\ 5 - 1 = 4
      OBVIOUS
    <3>2. g[5 - 1] = <<1, 2, 3>>
      BY <3>1, <2>6
    <3>3. takes[5] # "size"
      BY <1>3
    <3>4. g[5] = Append(g[5 - 1], 5)
      BY <2>2, <3>1, <3>3
    <3>5. Append(<<1, 2, 3>>, 5) = <<1, 2, 3, 5>>
      BY AppendTo3
    <3>6. QED
      BY <3>2, <3>4, <3>5
  <2>8. g[6] = <<1, 2, 3, 5>>
    <3>1. 6 \in 1 .. 6 /\ 6 - 1 = 5
      OBVIOUS
    <3>2. g[6 - 1] = <<1, 2, 3, 5>>
      BY <3>1, <2>7
    <3>3. g[6] = g[6 - 1]
      BY <1>3, <2>2, <3>1
    <3>4. QED
      BY <3>2, <3>3
  <2>9. QED
    BY <2>1, <2>8
<1> HIDE DEF takes, given, fields
<1>6. /\ a = [i \in DOMAIN fields |-> a[i]]
      /\ \A i \in DOMAIN fields : Fits(takes[fields[i]], a[i])
  BY <1>1, <1>5 DEF AreArguments
<1>7. /\ Fits("word", a[1])
      /\ Fits("word", a[2])
      /\ Fits("data", a[3])
      /\ Fits("data", a[4])
  <2>1. 1 \in 1 .. 4 /\ 2 \in 1 .. 4 /\ 3 \in 1 .. 4 /\ 4 \in 1 .. 4
    OBVIOUS
  <2>2. QED
    BY <1>3, <1>4, <1>6, <2>1
<1>8. Laid(Request(op, a), takes, given, 6)
  <2>1. Laid(AppendUint64(1, a[1]), takes, given, 1)
    <3>1. Takes(takes[1], given[1]) /\ FieldFor(takes[1], 1, given[1]) = AppendUint64(1, a[1])
      BY <1>3, <1>7, FitsTakes DEF FieldFor
    <3>2. QED
      BY <3>1, LaidFirst
  <2>2. Laid(AppendUint64(1, a[1]) \o AppendUint64(2, a[2]), takes, given, 2)
    <3>1. 1 \in 0 .. 14 /\ 1 + 1 = 2
      OBVIOUS
    <3>2. /\ Takes(takes[2], given[2])
          /\ FieldFor(takes[2], 2, given[2]) = AppendUint64(2, a[2])
      BY <1>3, <1>7, FitsTakes DEF FieldFor
    <3>3. Laid(AppendUint64(1, a[1]), takes, given, 1)
      BY <2>1 DEF newOp, objOp
    <3> DEFINE s == AppendUint64(1, a[1])
    <3>4. Laid(s, takes, given, 1)
      BY <3>3
    <3> HIDE DEF s
    <3>5. Laid(s \o FieldFor(takes[1 + 1], 1 + 1, given[1 + 1]), takes, given, 1 + 1)
      BY <3>1, <3>2, <3>4, LaidMore
    <3>6. QED
      BY <3>1, <3>2, <3>5 DEF s
  <2>3. Laid((AppendUint64(1, a[1]) \o AppendUint64(2, a[2]))
          \o appendBuffer(3, a[3]), takes, given, 4)
    <3>1. 2 \in 0 .. 13 /\ 2 + 1 = 3 /\ 2 + 2 = 4
      OBVIOUS
    <3> DEFINE s == AppendUint64(1, a[1]) \o AppendUint64(2, a[2])
               d == a[3]
    <3>2. /\ Laid(s, takes, given, 2) /\ Fits("data", d)
          /\ takes[2 + 1] = "data" /\ given[2 + 1] = d
          /\ takes[2 + 2] = "size" /\ given[2 + 2] = Len(d)
      BY <1>3, <1>7, <2>2, <3>1
    <3> HIDE DEF s, d
    <3>3. Laid(s \o appendBuffer(2 + 1, d), takes, given, 2 + 2)
      BY <3>1, <3>2, LaidBuffer
    <3>4. QED
      BY <3>1, <3>3 DEF s, d
  <2>4. Laid(((AppendUint64(1, a[1]) \o AppendUint64(2, a[2]))
          \o appendBuffer(3, a[3])) \o appendBuffer(5, a[4]), takes, given, 6)
    <3>1. 4 \in 0 .. 13 /\ 4 + 1 = 5 /\ 4 + 2 = 6
      OBVIOUS
    <3> DEFINE s == (AppendUint64(1, a[1]) \o AppendUint64(2, a[2])) \o appendBuffer(3, a[3])
               d == a[4]
    <3>2. /\ Laid(s, takes, given, 4) /\ Fits("data", d)
          /\ takes[4 + 1] = "data" /\ given[4 + 1] = d
          /\ takes[4 + 2] = "size" /\ given[4 + 2] = Len(d)
      BY <1>3, <1>7, <2>3, <3>1
    <3> HIDE DEF s, d
    <3>3. Laid(s \o appendBuffer(4 + 1, d), takes, given, 4 + 2)
      BY <3>1, <3>2, LaidBuffer
    <3>4. QED
      BY <3>1, <3>3 DEF s, d
  <2>5. QED
    BY <2>4 DEF newOp, objOp, keyOp
<1>9. Understood(op, given) = a
  <2>1. ASSUME NEW i \in DOMAIN fields
        PROVE  /\ given[fields[i]] = a[i]
               /\ takes[fields[i]] = "data" =>
                    a[i] \in Seq(Nat) /\ given[fields[i] + 1] = Len(a[i])
    <3>1. CASE i = 1
      BY <1>3, <1>4, <3>1
    <3>2. CASE i = 2
      BY <1>3, <1>4, <3>2
    <3>3. CASE i = 3
      <4>1. 3 + 1 = 4
        OBVIOUS
      <4>2. QED
        BY <1>3, <1>4, <1>7, <3>3, <4>1, FitsTakes
    <3>4. CASE i = 4
      <4>1. 5 + 1 = 6
        OBVIOUS
      <4>2. QED
        BY <1>3, <1>4, <1>7, <3>4, <4>1, FitsTakes
    <3>5. i \in {1, 2, 3, 4}
      BY <1>4
    <3>6. QED
      BY <3>1, <3>2, <3>3, <3>4, <3>5
  <2>2. \A i \in DOMAIN fields :
          /\ given[fields[i]] = a[i]
          /\ Called(op).takes[fields[i]] = "data" =>
               a[i] \in Seq(Nat) /\ given[fields[i] + 1] = Len(a[i])
    BY <1>1, <2>1
  <2>3. a = [i \in DOMAIN fields |-> a[i]]
    BY <1>6
  <2>4. QED
    BY ONLY <1>5, <2>2, <2>3, ArgumentsSeen
<1>10. Taken(op, a, given)
  <2> DEFINE t == Called(op).takes
  <2>1. t = takes
    BY <1>1
  <2> HIDE DEF t
  <2>2. 6 \in 1 .. 14
    OBVIOUS
  <2>3. t \in Seq(ParameterKinds) /\ Len(t) \in 1 .. 14 /\ Len(t) = 6
    BY <1>2, <2>1, <2>2
  <2>4. Laid(Request(op, a), t, given, Len(t))
    BY <1>8, <2>1, <2>3
  <2>5. given = [k \in 1 .. Len(t) |-> given[k]]
    BY <1>3, <2>3
  <2>6. QED
    BY <1>9, <2>3, <2>4, <2>5 DEF Taken, t
<1>11. QED
  BY <1>10

LEMMA TakenKeyBuffers ==
  ASSUME NEW op, NEW a, AreArguments(op, a),
         Called(op).takes = <<"word", "word", "data", "size", "data", "size", "data", "size">>,
         Request(op, a) = keyOp(a) \o appendBuffer(5, a[4]) \o appendBuffer(7, a[5])
  PROVE  \E given : Taken(op, a, given)
<1> DEFINE takes == <<"word", "word", "data", "size", "data", "size", "data", "size">>
           given == <<a[1], a[2], a[3], Len(a[3]), a[4], Len(a[4]), a[5], Len(a[5])>>
           fields == <<1, 2, 3, 5, 7>>
<1>1. Called(op).takes = takes
  OBVIOUS
<1>2. takes \in Seq(ParameterKinds) /\ Len(takes) = 8
  BY DEF ParameterKinds
<1>3. /\ takes[1] = "word"
      /\ takes[2] = "word"
      /\ takes[3] = "data"
      /\ takes[4] = "size"
      /\ takes[5] = "data"
      /\ takes[6] = "size"
      /\ takes[7] = "data"
      /\ takes[8] = "size"
      /\ given[1] = a[1]
      /\ given[2] = a[2]
      /\ given[3] = a[3]
      /\ given[4] = Len(a[3])
      /\ given[5] = a[4]
      /\ given[6] = Len(a[4])
      /\ given[7] = a[5]
      /\ given[8] = Len(a[5])
      /\ given = [k \in 1 .. 8 |-> given[k]]
  OBVIOUS
<1>4. /\ fields[1] = 1
      /\ fields[2] = 2
      /\ fields[3] = 3
      /\ fields[4] = 5
      /\ fields[5] = 7
      /\ DOMAIN fields = 1 .. 5
  OBVIOUS
<1>5. Parameters(op) = fields
  <2>1. PICK g : Among(takes, g) /\ Parameters(op) = g[8]
    BY <1>1, <1>2, ParametersFound
  <2> HIDE DEF takes
  <2>2. /\ g[0] = <<>>
        /\ \A n \in 1 .. 8 :
             g[n] = IF takes[n] = "size" THEN g[n - 1] ELSE Append(g[n - 1], n)
    BY <1>2, <2>1 DEF Among
  <2>3. g[1] = <<1>>
    <3>1. 1 \in 1 .. 8 /\ 1 - 1 = 0
      OBVIOUS
    <3>2. g[1 - 1] = <<>>
      BY <3>1, <2>2
    <3>3. takes[1] # "size"
      BY <1>3
    <3>4. g[1] = Append(g[1 - 1], 1)
      BY <2>2, <3>1, <3>3
    <3>5. Append(<<>>, 1) = <<1>>
      OBVIOUS
    <3>6. QED
      BY <3>2, <3>4, <3>5
  <2>4. g[2] = <<1, 2>>
    <3>1. 2 \in 1 .. 8 /\ 2 - 1 = 1
      OBVIOUS
    <3>2. g[2 - 1] = <<1>>
      BY <3>1, <2>3
    <3>3. takes[2] # "size"
      BY <1>3
    <3>4. g[2] = Append(g[2 - 1], 2)
      BY <2>2, <3>1, <3>3
    <3>5. Append(<<1>>, 2) = <<1, 2>>
      BY AppendTo1
    <3>6. QED
      BY <3>2, <3>4, <3>5
  <2>5. g[3] = <<1, 2, 3>>
    <3>1. 3 \in 1 .. 8 /\ 3 - 1 = 2
      OBVIOUS
    <3>2. g[3 - 1] = <<1, 2>>
      BY <3>1, <2>4
    <3>3. takes[3] # "size"
      BY <1>3
    <3>4. g[3] = Append(g[3 - 1], 3)
      BY <2>2, <3>1, <3>3
    <3>5. Append(<<1, 2>>, 3) = <<1, 2, 3>>
      BY AppendTo2
    <3>6. QED
      BY <3>2, <3>4, <3>5
  <2>6. g[4] = <<1, 2, 3>>
    <3>1. 4 \in 1 .. 8 /\ 4 - 1 = 3
      OBVIOUS
    <3>2. g[4 - 1] = <<1, 2, 3>>
      BY <3>1, <2>5
    <3>3. g[4] = g[4 - 1]
      BY <1>3, <2>2, <3>1
    <3>4. QED
      BY <3>2, <3>3
  <2>7. g[5] = <<1, 2, 3, 5>>
    <3>1. 5 \in 1 .. 8 /\ 5 - 1 = 4
      OBVIOUS
    <3>2. g[5 - 1] = <<1, 2, 3>>
      BY <3>1, <2>6
    <3>3. takes[5] # "size"
      BY <1>3
    <3>4. g[5] = Append(g[5 - 1], 5)
      BY <2>2, <3>1, <3>3
    <3>5. Append(<<1, 2, 3>>, 5) = <<1, 2, 3, 5>>
      BY AppendTo3
    <3>6. QED
      BY <3>2, <3>4, <3>5
  <2>8. g[6] = <<1, 2, 3, 5>>
    <3>1. 6 \in 1 .. 8 /\ 6 - 1 = 5
      OBVIOUS
    <3>2. g[6 - 1] = <<1, 2, 3, 5>>
      BY <3>1, <2>7
    <3>3. g[6] = g[6 - 1]
      BY <1>3, <2>2, <3>1
    <3>4. QED
      BY <3>2, <3>3
  <2>9. g[7] = <<1, 2, 3, 5, 7>>
    <3>1. 7 \in 1 .. 8 /\ 7 - 1 = 6
      OBVIOUS
    <3>2. g[7 - 1] = <<1, 2, 3, 5>>
      BY <3>1, <2>8
    <3>3. takes[7] # "size"
      BY <1>3
    <3>4. g[7] = Append(g[7 - 1], 7)
      BY <2>2, <3>1, <3>3
    <3>5. Append(<<1, 2, 3, 5>>, 7) = <<1, 2, 3, 5, 7>>
      BY AppendTo4
    <3>6. QED
      BY <3>2, <3>4, <3>5
  <2>10. g[8] = <<1, 2, 3, 5, 7>>
    <3>1. 8 \in 1 .. 8 /\ 8 - 1 = 7
      OBVIOUS
    <3>2. g[8 - 1] = <<1, 2, 3, 5, 7>>
      BY <3>1, <2>9
    <3>3. g[8] = g[8 - 1]
      BY <1>3, <2>2, <3>1
    <3>4. QED
      BY <3>2, <3>3
  <2>11. QED
    BY <2>1, <2>10
<1> HIDE DEF takes, given, fields
<1>6. /\ a = [i \in DOMAIN fields |-> a[i]]
      /\ \A i \in DOMAIN fields : Fits(takes[fields[i]], a[i])
  BY <1>1, <1>5 DEF AreArguments
<1>7. /\ Fits("word", a[1])
      /\ Fits("word", a[2])
      /\ Fits("data", a[3])
      /\ Fits("data", a[4])
      /\ Fits("data", a[5])
  <2>1. 1 \in 1 .. 5 /\ 2 \in 1 .. 5 /\ 3 \in 1 .. 5 /\ 4 \in 1 .. 5 /\ 5 \in 1 .. 5
    OBVIOUS
  <2>2. QED
    BY <1>3, <1>4, <1>6, <2>1
<1>8. Laid(Request(op, a), takes, given, 8)
  <2>1. Laid(AppendUint64(1, a[1]), takes, given, 1)
    <3>1. Takes(takes[1], given[1]) /\ FieldFor(takes[1], 1, given[1]) = AppendUint64(1, a[1])
      BY <1>3, <1>7, FitsTakes DEF FieldFor
    <3>2. QED
      BY <3>1, LaidFirst
  <2>2. Laid(AppendUint64(1, a[1]) \o AppendUint64(2, a[2]), takes, given, 2)
    <3>1. 1 \in 0 .. 14 /\ 1 + 1 = 2
      OBVIOUS
    <3>2. /\ Takes(takes[2], given[2])
          /\ FieldFor(takes[2], 2, given[2]) = AppendUint64(2, a[2])
      BY <1>3, <1>7, FitsTakes DEF FieldFor
    <3>3. Laid(AppendUint64(1, a[1]), takes, given, 1)
      BY <2>1 DEF newOp, objOp
    <3> DEFINE s == AppendUint64(1, a[1])
    <3>4. Laid(s, takes, given, 1)
      BY <3>3
    <3> HIDE DEF s
    <3>5. Laid(s \o FieldFor(takes[1 + 1], 1 + 1, given[1 + 1]), takes, given, 1 + 1)
      BY <3>1, <3>2, <3>4, LaidMore
    <3>6. QED
      BY <3>1, <3>2, <3>5 DEF s
  <2>3. Laid((AppendUint64(1, a[1]) \o AppendUint64(2, a[2]))
          \o appendBuffer(3, a[3]), takes, given, 4)
    <3>1. 2 \in 0 .. 13 /\ 2 + 1 = 3 /\ 2 + 2 = 4
      OBVIOUS
    <3> DEFINE s == AppendUint64(1, a[1]) \o AppendUint64(2, a[2])
               d == a[3]
    <3>2. /\ Laid(s, takes, given, 2) /\ Fits("data", d)
          /\ takes[2 + 1] = "data" /\ given[2 + 1] = d
          /\ takes[2 + 2] = "size" /\ given[2 + 2] = Len(d)
      BY <1>3, <1>7, <2>2, <3>1
    <3> HIDE DEF s, d
    <3>3. Laid(s \o appendBuffer(2 + 1, d), takes, given, 2 + 2)
      BY <3>1, <3>2, LaidBuffer
    <3>4. QED
      BY <3>1, <3>3 DEF s, d
  <2>4. Laid(((AppendUint64(1, a[1]) \o AppendUint64(2, a[2]))
          \o appendBuffer(3, a[3])) \o appendBuffer(5, a[4]), takes, given, 6)
    <3>1. 4 \in 0 .. 13 /\ 4 + 1 = 5 /\ 4 + 2 = 6
      OBVIOUS
    <3> DEFINE s == (AppendUint64(1, a[1]) \o AppendUint64(2, a[2])) \o appendBuffer(3, a[3])
               d == a[4]
    <3>2. /\ Laid(s, takes, given, 4) /\ Fits("data", d)
          /\ takes[4 + 1] = "data" /\ given[4 + 1] = d
          /\ takes[4 + 2] = "size" /\ given[4 + 2] = Len(d)
      BY <1>3, <1>7, <2>3, <3>1
    <3> HIDE DEF s, d
    <3>3. Laid(s \o appendBuffer(4 + 1, d), takes, given, 4 + 2)
      BY <3>1, <3>2, LaidBuffer
    <3>4. QED
      BY <3>1, <3>3 DEF s, d
  <2>5. Laid((((AppendUint64(1, a[1]) \o AppendUint64(2, a[2]))
          \o appendBuffer(3, a[3])) \o appendBuffer(5, a[4]))
          \o appendBuffer(7, a[5]), takes, given, 8)
    <3>1. 6 \in 0 .. 13 /\ 6 + 1 = 7 /\ 6 + 2 = 8
      OBVIOUS
    <3> DEFINE s == ((AppendUint64(1, a[1]) \o AppendUint64(2, a[2]))
          \o appendBuffer(3, a[3])) \o appendBuffer(5, a[4])
               d == a[5]
    <3>2. /\ Laid(s, takes, given, 6) /\ Fits("data", d)
          /\ takes[6 + 1] = "data" /\ given[6 + 1] = d
          /\ takes[6 + 2] = "size" /\ given[6 + 2] = Len(d)
      BY <1>3, <1>7, <2>4, <3>1
    <3> HIDE DEF s, d
    <3>3. Laid(s \o appendBuffer(6 + 1, d), takes, given, 6 + 2)
      BY <3>1, <3>2, LaidBuffer
    <3>4. QED
      BY <3>1, <3>3 DEF s, d
  <2>6. QED
    BY <2>5 DEF newOp, objOp, keyOp
<1>9. Understood(op, given) = a
  <2>1. ASSUME NEW i \in DOMAIN fields
        PROVE  /\ given[fields[i]] = a[i]
               /\ takes[fields[i]] = "data" =>
                    a[i] \in Seq(Nat) /\ given[fields[i] + 1] = Len(a[i])
    <3>1. CASE i = 1
      BY <1>3, <1>4, <3>1
    <3>2. CASE i = 2
      BY <1>3, <1>4, <3>2
    <3>3. CASE i = 3
      <4>1. 3 + 1 = 4
        OBVIOUS
      <4>2. QED
        BY <1>3, <1>4, <1>7, <3>3, <4>1, FitsTakes
    <3>4. CASE i = 4
      <4>1. 5 + 1 = 6
        OBVIOUS
      <4>2. QED
        BY <1>3, <1>4, <1>7, <3>4, <4>1, FitsTakes
    <3>5. CASE i = 5
      <4>1. 7 + 1 = 8
        OBVIOUS
      <4>2. QED
        BY <1>3, <1>4, <1>7, <3>5, <4>1, FitsTakes, SMTT(40)
    <3>6. i \in {1, 2, 3, 4, 5}
      BY <1>4
    <3>7. QED
      BY <3>1, <3>2, <3>3, <3>4, <3>5, <3>6
  <2>2. \A i \in DOMAIN fields :
          /\ given[fields[i]] = a[i]
          /\ Called(op).takes[fields[i]] = "data" =>
               a[i] \in Seq(Nat) /\ given[fields[i] + 1] = Len(a[i])
    BY <1>1, <2>1
  <2>3. a = [i \in DOMAIN fields |-> a[i]]
    BY <1>6
  <2>4. QED
    BY ONLY <1>5, <2>2, <2>3, ArgumentsSeen
<1>10. Taken(op, a, given)
  <2> DEFINE t == Called(op).takes
  <2>1. t = takes
    BY <1>1
  <2> HIDE DEF t
  <2>2. 8 \in 1 .. 14
    OBVIOUS
  <2>3. t \in Seq(ParameterKinds) /\ Len(t) \in 1 .. 14 /\ Len(t) = 8
    BY <1>2, <2>1, <2>2
  <2>4. Laid(Request(op, a), t, given, Len(t))
    BY <1>8, <2>1, <2>3
  <2>5. given = [k \in 1 .. Len(t) |-> given[k]]
    BY <1>3, <2>3
  <2>6. QED
    BY <1>9, <2>3, <2>4, <2>5 DEF Taken, t
<1>11. QED
  BY <1>10

-----------------------------------------------------------------------------
LEMMA Joined1and1 ==
  ASSUME NEW a, NEW b
  PROVE  <<a>> \o <<b>> = <<a, b>>
<1> DEFINE S == {a, b}
           s == <<a>>
           t == <<b>>
           m == 1
           n == 1
           all == s \o t
<1>1. /\ s \in Seq(S) /\ t \in Seq(S) /\ m \in Nat /\ n \in Nat
      /\ Len(s) = m /\ s[1] = a
      /\ Len(t) = n /\ t[1] = b
  OBVIOUS
<1> HIDE DEF S, s, t, m, n
<1>2. /\ all \in Seq(S) /\ Len(all) = Len(s) + Len(t)
      /\ \A i \in 1 .. Len(s) : all[i] = s[i]
      /\ \A i \in 1 .. Len(t) : all[Len(s) + i] = t[i]
  <2>1. s \in Seq(S) /\ t \in Seq(S)
    BY <1>1
  <2>2. QED
    BY ONLY <2>1 DEF all
<1> HIDE DEF all
<1>3. all = <<a, b>>
  BY <1>1, <1>2 DEF m, n
<1>4. QED
  BY <1>3 DEF all, s, t

LEMMA Joined1and2 ==
  ASSUME NEW a, NEW b, NEW c
  PROVE  <<a>> \o <<b, c>> = <<a, b, c>>
<1> DEFINE S == {a, b, c}
           s == <<a>>
           t == <<b, c>>
           m == 1
           n == 2
           all == s \o t
<1>1. /\ s \in Seq(S) /\ t \in Seq(S) /\ m \in Nat /\ n \in Nat
      /\ Len(s) = m /\ s[1] = a
      /\ Len(t) = n /\ t[1] = b /\ t[2] = c
  OBVIOUS
<1> HIDE DEF S, s, t, m, n
<1>2. /\ all \in Seq(S) /\ Len(all) = Len(s) + Len(t)
      /\ \A i \in 1 .. Len(s) : all[i] = s[i]
      /\ \A i \in 1 .. Len(t) : all[Len(s) + i] = t[i]
  <2>1. s \in Seq(S) /\ t \in Seq(S)
    BY <1>1
  <2>2. QED
    BY ONLY <2>1 DEF all
<1> HIDE DEF all
<1>3. all = <<a, b, c>>
  BY <1>1, <1>2 DEF m, n
<1>4. QED
  BY <1>3 DEF all, s, t

LEMMA Joined1and3 ==
  ASSUME NEW a, NEW b, NEW c, NEW d
  PROVE  <<a>> \o <<b, c, d>> = <<a, b, c, d>>
<1> DEFINE S == {a, b, c, d}
           s == <<a>>
           t == <<b, c, d>>
           m == 1
           n == 3
           all == s \o t
<1>1. /\ s \in Seq(S) /\ t \in Seq(S) /\ m \in Nat /\ n \in Nat
      /\ Len(s) = m /\ s[1] = a
      /\ Len(t) = n /\ t[1] = b /\ t[2] = c /\ t[3] = d
  OBVIOUS
<1> HIDE DEF S, s, t, m, n
<1>2. /\ all \in Seq(S) /\ Len(all) = Len(s) + Len(t)
      /\ \A i \in 1 .. Len(s) : all[i] = s[i]
      /\ \A i \in 1 .. Len(t) : all[Len(s) + i] = t[i]
  <2>1. s \in Seq(S) /\ t \in Seq(S)
    BY <1>1
  <2>2. QED
    BY ONLY <2>1 DEF all
<1> HIDE DEF all
<1>3. all = <<a, b, c, d>>
  BY <1>1, <1>2 DEF m, n
<1>4. QED
  BY <1>3 DEF all, s, t

LEMMA Joined1and5 ==
  ASSUME NEW a, NEW b, NEW c, NEW d, NEW e, NEW f
  PROVE  <<a>> \o <<b, c, d, e, f>> = <<a, b, c, d, e, f>>
<1> DEFINE S == {a, b, c, d, e, f}
           s == <<a>>
           t == <<b, c, d, e, f>>
           m == 1
           n == 5
           all == s \o t
<1>1. /\ s \in Seq(S) /\ t \in Seq(S) /\ m \in Nat /\ n \in Nat
      /\ Len(s) = m /\ s[1] = a
      /\ Len(t) = n /\ t[1] = b /\ t[2] = c /\ t[3] = d /\ t[4] = e
           /\ t[5] = f
  OBVIOUS
<1> HIDE DEF S, s, t, m, n
<1>2. /\ all \in Seq(S) /\ Len(all) = Len(s) + Len(t)
      /\ \A i \in 1 .. Len(s) : all[i] = s[i]
      /\ \A i \in 1 .. Len(t) : all[Len(s) + i] = t[i]
  <2>1. s \in Seq(S) /\ t \in Seq(S)
    BY <1>1
  <2>2. QED
    BY ONLY <2>1 DEF all
<1> HIDE DEF all
<1>3. all = <<a, b, c, d, e, f>>
  BY <1>1, <1>2 DEF m, n
<1>4. QED
  BY <1>3 DEF all, s, t

LEMMA Joined1and7 ==
  ASSUME NEW a, NEW b, NEW c, NEW d, NEW e, NEW f, NEW g, NEW h
  PROVE  <<a>> \o <<b, c, d, e, f, g, h>> = <<a, b, c, d, e, f, g, h>>
<1> DEFINE S == {a, b, c, d, e, f, g, h}
           s == <<a>>
           t == <<b, c, d, e, f, g, h>>
           m == 1
           n == 7
           all == s \o t
<1>1. /\ s \in Seq(S) /\ t \in Seq(S) /\ m \in Nat /\ n \in Nat
      /\ Len(s) = m /\ s[1] = a
      /\ Len(t) = n /\ t[1] = b /\ t[2] = c /\ t[3] = d /\ t[4] = e
           /\ t[5] = f /\ t[6] = g /\ t[7] = h
  OBVIOUS
<1> HIDE DEF S, s, t, m, n
<1>2. /\ all \in Seq(S) /\ Len(all) = Len(s) + Len(t)
      /\ \A i \in 1 .. Len(s) : all[i] = s[i]
      /\ \A i \in 1 .. Len(t) : all[Len(s) + i] = t[i]
  <2>1. s \in Seq(S) /\ t \in Seq(S)
    BY <1>1
  <2>2. QED
    BY ONLY <2>1 DEF all
<1> HIDE DEF all
<1>3. all = <<a, b, c, d, e, f, g, h>>
  BY <1>1, <1>2 DEF m, n
<1>4. QED
  BY <1>3 DEF all, s, t

LEMMA Joined2and1 ==
  ASSUME NEW a, NEW b, NEW c
  PROVE  <<a, b>> \o <<c>> = <<a, b, c>>
<1> DEFINE S == {a, b, c}
           s == <<a, b>>
           t == <<c>>
           m == 2
           n == 1
           all == s \o t
<1>1. /\ s \in Seq(S) /\ t \in Seq(S) /\ m \in Nat /\ n \in Nat
      /\ Len(s) = m /\ s[1] = a /\ s[2] = b
      /\ Len(t) = n /\ t[1] = c
  OBVIOUS
<1> HIDE DEF S, s, t, m, n
<1>2. /\ all \in Seq(S) /\ Len(all) = Len(s) + Len(t)
      /\ \A i \in 1 .. Len(s) : all[i] = s[i]
      /\ \A i \in 1 .. Len(t) : all[Len(s) + i] = t[i]
  <2>1. s \in Seq(S) /\ t \in Seq(S)
    BY <1>1
  <2>2. QED
    BY ONLY <2>1 DEF all
<1> HIDE DEF all
<1>3. all = <<a, b, c>>
  BY <1>1, <1>2 DEF m, n
<1>4. QED
  BY <1>3 DEF all, s, t

LEMMA Joined3and2 ==
  ASSUME NEW a, NEW b, NEW c, NEW d, NEW e
  PROVE  <<a, b, c>> \o <<d, e>> = <<a, b, c, d, e>>
<1> DEFINE S == {a, b, c, d, e}
           s == <<a, b, c>>
           t == <<d, e>>
           m == 3
           n == 2
           all == s \o t
<1>1. /\ s \in Seq(S) /\ t \in Seq(S) /\ m \in Nat /\ n \in Nat
      /\ Len(s) = m /\ s[1] = a /\ s[2] = b /\ s[3] = c
      /\ Len(t) = n /\ t[1] = d /\ t[2] = e
  OBVIOUS
<1> HIDE DEF S, s, t, m, n
<1>2. /\ all \in Seq(S) /\ Len(all) = Len(s) + Len(t)
      /\ \A i \in 1 .. Len(s) : all[i] = s[i]
      /\ \A i \in 1 .. Len(t) : all[Len(s) + i] = t[i]
  <2>1. s \in Seq(S) /\ t \in Seq(S)
    BY <1>1
  <2>2. QED
    BY ONLY <2>1 DEF all
<1> HIDE DEF all
<1>3. all = <<a, b, c, d, e>>
  BY <1>1, <1>2 DEF m, n
<1>4. QED
  BY <1>3 DEF all, s, t

LEMMA Joined5and2 ==
  ASSUME NEW a, NEW b, NEW c, NEW d, NEW e, NEW f, NEW g
  PROVE  <<a, b, c, d, e>> \o <<f, g>> = <<a, b, c, d, e, f, g>>
<1> DEFINE S == {a, b, c, d, e, f, g}
           s == <<a, b, c, d, e>>
           t == <<f, g>>
           m == 5
           n == 2
           all == s \o t
<1>1. /\ s \in Seq(S) /\ t \in Seq(S) /\ m \in Nat /\ n \in Nat
      /\ Len(s) = m /\ s[1] = a /\ s[2] = b /\ s[3] = c /\ s[4] = d /\ s[5] = e
      /\ Len(t) = n /\ t[1] = f /\ t[2] = g
  OBVIOUS
<1> HIDE DEF S, s, t, m, n
<1>2. /\ all \in Seq(S) /\ Len(all) = Len(s) + Len(t)
      /\ \A i \in 1 .. Len(s) : all[i] = s[i]
      /\ \A i \in 1 .. Len(t) : all[Len(s) + i] = t[i]
  <2>1. s \in Seq(S) /\ t \in Seq(S)
    BY <1>1
  <2>2. QED
    BY ONLY <2>1 DEF all
<1> HIDE DEF all
<1>3. all = <<a, b, c, d, e, f, g>>
  BY <1>1, <1>2 DEF m, n
<1>4. QED
  BY <1>3 DEF all, s, t

(* The first fields of the exports. *)
LEMMA JoinedFields ==
  /\ <<"word">> \o <<>> = <<"word">>
  /\ <<"word">> \o <<"text">> = <<"word", "text">>
  /\ <<"word">> \o <<"int32">> = <<"word", "int32">>
  /\ <<"word">> \o Object = <<"word", "word">>
  /\ <<"word">> \o Buffer = <<"word", "data", "size">>
  /\ <<"word">> \o (Buffer \o <<"int32">>) = <<"word", "data", "size", "int32">>
  /\ <<"word">> \o (Object \o Object) = <<"word", "word", "word">>
  /\ <<"word">> \o (Object \o Buffer) = <<"word", "word", "data", "size">>
  /\ <<"word">> \o (Object \o Buffer \o Buffer)
        = <<"word", "word", "data", "size", "data", "size">>
  /\ <<"word">> \o (Object \o Buffer \o Buffer \o Buffer)
        = <<"word", "word", "data", "size", "data", "size", "data", "size">>
<1> DEFINE two   == <<"word", "data", "size">>
           four  == <<"word", "data", "size", "data", "size">>
           six   == <<"word", "data", "size", "data", "size", "data", "size">>
<1>1. Object \o Object = <<"word", "word">> /\ Object \o Buffer = two
      /\ Buffer \o <<"int32">> = <<"data", "size", "int32">>
  BY Joined1and1, Joined1and2, Joined2and1 DEF Object, Buffer
<1>2. two \o Buffer = four
  BY Joined3and2 DEF Buffer
<1>3. four \o Buffer = six
  BY Joined5and2 DEF Buffer
<1>4. /\ <<"word">> \o two = <<"word", "word", "data", "size">>
      /\ <<"word">> \o four = <<"word", "word", "data", "size", "data", "size">>
      /\ <<"word">> \o six
           = <<"word", "word", "data", "size", "data", "size", "data", "size">>
  BY Joined1and3, Joined1and5, Joined1and7
<1>5. /\ <<"word">> \o <<"text">> = <<"word", "text">>
      /\ <<"word">> \o <<"int32">> = <<"word", "int32">>
      /\ <<"word">> \o <<"word">> = <<"word", "word">>
      /\ <<"word">> \o <<"word", "word">> = <<"word", "word", "word">>
      /\ <<"word">> \o <<"data", "size">> = <<"word", "data", "size">>
      /\ <<"word">> \o <<"data", "size", "int32">>
           = <<"word", "data", "size", "int32">>
  BY Joined1and1, Joined1and2, Joined1and3
<1>6. <<"word">> \o <<>> = <<"word">>
  OBVIOUS
<1>7. Object = <<"word">> /\ Buffer = <<"data", "size">>
  BY DEF Object, Buffer
<1> HIDE DEF two, four, six
<1>8. QED
  BY <1>1, <1>2, <1>3, <1>4, <1>5, <1>6, <1>7

LEMMA WordRequests ==
  ASSUME NEW op \in {"asyncExcAddr", "Close", "breakerAddr", "kbdIntObj"},
         NEW a
  PROVE  /\ Called(op).takes = <<"word">>
         /\ Request(op, a) = AppendUint64(1, a[1])
<1>1. Called(op).takes = <<"word">>
  <2>1. /\ Export(<<>>, "checked").takes = <<"word">>
        /\ Export(<<>>, "half").takes = <<"word">>
    BY JoinedFields DEF Export
  <2>2. Called(op) \in {Export(<<>>, "checked"),
                       Export(<<>>, "half")}
    BY FirstRows, SecondRows
  <2>3. QED
    BY <2>1, <2>2
<1>2. Request(op, a) = AppendUint64(1, a[1])
  BY DEF Request
<1>3. QED
  BY <1>1, <1>2

LEMMA KeyBufferRequests ==
  ASSUME NEW op \in {"CallOp", "SetAttrOp", "SetItemOp"},
         NEW a
  PROVE  /\ Called(op).takes =
              <<"word", "word", "data", "size", "data", "size">>
         /\ Request(op, a) = keyOp(a) \o appendBuffer(5, a[4])
<1>1. Called(op).takes = <<"word", "word", "data", "size", "data", "size">>
  <2>1. /\ Export(Object \o Buffer \o Buffer, "empty").takes =
             <<"word", "word", "data", "size", "data", "size">>
        /\ Export(Object \o Buffer \o Buffer, "node").takes =
             <<"word", "word", "data", "size", "data", "size">>
    BY JoinedFields DEF Export
  <2>2. Called(op) \in {Export(Object \o Buffer \o Buffer, "empty"),
                       Export(Object \o Buffer \o Buffer, "node")}
    BY FirstRows, FourthRows
  <2>3. QED
    BY <2>1, <2>2
<1>2. Request(op, a) = keyOp(a) \o appendBuffer(5, a[4])
  BY DEF Request
<1>3. QED
  BY <1>1, <1>2

LEMMA KeyBuffersRequests ==
  ASSUME NEW op \in {"CallMethodOp"},
         NEW a
  PROVE  /\ Called(op).takes =
              <<"word", "word", "data", "size", "data", "size", "data", "size">>
         /\ Request(op, a) = keyOp(a) \o appendBuffer(5, a[4]) \o appendBuffer(7, a[5])
<1>1. Called(op).takes = <<"word", "word", "data", "size", "data", "size", "data", "size">>
  <2>1. Export(Object \o Buffer \o Buffer \o Buffer, "node").takes =
          <<"word", "word", "data", "size", "data", "size", "data", "size">>
    BY JoinedFields DEF Export
  <2>2. Called(op) = Export(Object \o Buffer \o Buffer \o Buffer, "node")
    BY FirstRows
  <2>3. QED
    BY <2>1, <2>2
<1>2. Request(op, a) = keyOp(a) \o appendBuffer(5, a[4]) \o appendBuffer(7, a[5])
  BY DEF Request
<1>3. QED
  BY <1>1, <1>2

LEMMA KeyRequests ==
  ASSUME NEW op \in {"ContainsOp", "DelItemOp", "DictGetOp", "GetAttrOp",
                   "GetItemOp", "ListAppendOp", "SetAddOp", "SetDiscardOp"},
         NEW a
  PROVE  /\ Called(op).takes = <<"word", "word", "data", "size">>
         /\ Request(op, a) = keyOp(a)
<1>1. Called(op).takes = <<"word", "word", "data", "size">>
  <2>1. /\ Export(Object \o Buffer, "bool").takes = <<"word", "word", "data", "size">>
        /\ Export(Object \o Buffer, "empty").takes = <<"word", "word", "data", "size">>
        /\ Export(Object \o Buffer, "exists").takes = <<"word", "word", "data", "size">>
        /\ Export(Object \o Buffer, "node").takes = <<"word", "word", "data", "size">>
    BY JoinedFields DEF Export
  <2>2. Called(op) \in {Export(Object \o Buffer, "bool"),
                       Export(Object \o Buffer, "empty"),
                       Export(Object \o Buffer, "exists"),
                       Export(Object \o Buffer, "node")}
    BY FirstRows, SecondRows, FourthRows
  <2>3. QED
    BY <2>1, <2>2
<1>2. Request(op, a) = keyOp(a)
  BY DEF Request
<1>3. QED
  BY <1>1, <1>2

LEMMA ObjectRequests ==
  ASSUME NEW op \in {"DictItemsOp", "DictKeysOp", "DictValuesOp", "IterOp",
                   "LenOp", "ReprOp", "StrOp"},
         NEW a
  PROVE  /\ Called(op).takes = <<"word", "word">>
         /\ Request(op, a) = objOp(a)
<1>1. Called(op).takes = <<"word", "word">>
  <2>1. /\ Export(Object, "i64").takes = <<"word", "word">>
        /\ Export(Object, "items").takes = <<"word", "word">>
        /\ Export(Object, "list").takes = <<"word", "word">>
        /\ Export(Object, "text").takes = <<"word", "word">>
    BY JoinedFields DEF Export
  <2>2. Called(op) \in {Export(Object, "i64"),
                       Export(Object, "items"),
                       Export(Object, "list"),
                       Export(Object, "text")}
    BY FirstRows, SecondRows, FourthRows
  <2>3. QED
    BY <2>1, <2>2
<1>2. Request(op, a) = objOp(a)
  BY DEF Request
<1>3. QED
  BY <1>1, <1>2

LEMMA WordTextRequests ==
  ASSUME NEW op \in {"EvalOp"},
         NEW a
  PROVE  /\ Called(op).takes = <<"word", "text">>
         /\ Request(op, a) = AppendUint64(1, a[1]) \o AppendBytes(2, a[2])
<1>1. Called(op).takes = <<"word", "text">>
  <2>1. Export(<<"text">>, "eval").takes = <<"word", "text">>
    BY JoinedFields DEF Export
  <2>2. Called(op) = Export(<<"text">>, "eval")
    BY SecondRows
  <2>3. QED
    BY <2>1, <2>2
<1>2. Request(op, a) = AppendUint64(1, a[1]) \o AppendBytes(2, a[2])
  BY DEF Request
<1>3. QED
  BY <1>1, <1>2

LEMMA NewRequests ==
  ASSUME NEW op \in {"ImportOp", "NewDictOp", "NewFrozenSetOp", "NewListOp",
                   "NewSetOp", "NewTupleOp", "drainReleases"},
         NEW a
  PROVE  /\ Called(op).takes = <<"word", "data", "size">>
         /\ Request(op, a) = newOp(a)
<1>1. Called(op).takes = <<"word", "data", "size">>
  <2>1. /\ Export(Buffer, "empty").takes = <<"word", "data", "size">>
        /\ Export(Buffer, "node").takes = <<"word", "data", "size">>
    BY JoinedFields DEF Export
  <2>2. Called(op) \in {Export(Buffer, "empty"),
                       Export(Buffer, "node")}
    BY SecondRows, ThirdRows, FourthRows
  <2>3. QED
    BY <2>1, <2>2
<1>2. Request(op, a) = newOp(a)
  BY DEF Request
<1>3. QED
  BY <1>1, <1>2

LEMMA ObjectsRequests ==
  ASSUME NEW op \in {"IsInstanceOp"},
         NEW a
  PROVE  /\ Called(op).takes = <<"word", "word", "word">>
         /\ Request(op, a) = objOp(a) \o AppendUint64(3, a[3])
<1>1. Called(op).takes = <<"word", "word", "word">>
  <2>1. Export(Object \o Object, "bool").takes = <<"word", "word", "word">>
    BY JoinedFields DEF Export
  <2>2. Called(op) = Export(Object \o Object, "bool")
    BY SecondRows
  <2>3. QED
    BY <2>1, <2>2
<1>2. Request(op, a) = objOp(a) \o AppendUint64(3, a[3])
  BY DEF Request
<1>3. QED
  BY <1>1, <1>2

LEMMA TextRequests ==
  ASSUME NEW op \in {"pyNew"},
         NEW a
  PROVE  /\ Called(op).takes = <<"text">>
         /\ Request(op, a) = AppendBytes(1, a[1])
<1>1. Called(op).takes = <<"text">>
  <2>1. [takes |-> <<"text">>, answers |-> "word"].takes = <<"text">>
    BY JoinedFields DEF Export
  <2>2. Called(op) = [takes |-> <<"text">>, answers |-> "word"]
    BY ThirdRows
  <2>3. QED
    BY <2>1, <2>2
<1>2. Request(op, a) = AppendBytes(1, a[1])
  BY DEF Request
<1>3. QED
  BY <1>1, <1>2

LEMMA NewIntRequests ==
  ASSUME NEW op \in {"NewFunctionOp"},
         NEW a
  PROVE  /\ Called(op).takes = <<"word", "data", "size", "int32">>
         /\ Request(op, a) = newOp(a) \o AppendInt32(4, a[3])
<1>1. Called(op).takes = <<"word", "data", "size", "int32">>
  <2>1. Export(Buffer \o <<"int32">>, "node").takes = <<"word", "data", "size", "int32">>
    BY JoinedFields DEF Export
  <2>2. Called(op) = Export(Buffer \o <<"int32">>, "node")
    BY ThirdRows
  <2>3. QED
    BY <2>1, <2>2
<1>2. Request(op, a) = newOp(a) \o AppendInt32(4, a[3])
  BY DEF Request
<1>3. QED
  BY <1>1, <1>2

LEMMA WordIntRequests ==
  ASSUME NEW op \in {"EnsureDispatcher"},
         NEW a
  PROVE  /\ Called(op).takes = <<"word", "int32">>
         /\ Request(op, a) = AppendUint64(1, a[1]) \o AppendInt32(2, a[2])
<1>1. Called(op).takes = <<"word", "int32">>
  <2>1. Export(<<"int32">>, "checked").takes = <<"word", "int32">>
    BY JoinedFields DEF Export
  <2>2. Called(op) = Export(<<"int32">>, "checked")
    BY FourthRows
  <2>3. QED
    BY <2>1, <2>2
<1>2. Request(op, a) = AppendUint64(1, a[1]) \o AppendInt32(2, a[2])
  BY DEF Request
<1>3. QED
  BY <1>1, <1>2

(* Every operation writes the fields that the export it names takes, in    *)
(* their order, each in the wire type of its parameter, and what they      *)
(* stand for are the arguments of the operation                            *)
(* (src/internal/instance.go:366-601, src/internal/python.go:849-1344).    *)
THEOREM RequestIsLaid ==
  ASSUME NEW op \in DOMAIN Entry, NEW a, AreArguments(op, a)
  PROVE  \E given : Taken(op, a, given)
<1>1. CASE op \in {"asyncExcAddr", "Close", "breakerAddr", "kbdIntObj"}
  BY <1>1, WordRequests, TakenWord
<1>2. CASE op \in {"CallOp", "SetAttrOp", "SetItemOp"}
  BY <1>2, KeyBufferRequests, TakenKeyBuffer
<1>3. CASE op \in {"CallMethodOp"}
  BY <1>3, KeyBuffersRequests, TakenKeyBuffers
<1>4. CASE op \in {"ContainsOp", "DelItemOp", "DictGetOp", "GetAttrOp",
                 "GetItemOp", "ListAppendOp", "SetAddOp", "SetDiscardOp"}
  BY <1>4, KeyRequests, TakenKey
<1>5. CASE op \in {"DictItemsOp", "DictKeysOp", "DictValuesOp", "IterOp",
                 "LenOp", "ReprOp", "StrOp"}
  BY <1>5, ObjectRequests, TakenObject
<1>6. CASE op \in {"EvalOp"}
  BY <1>6, WordTextRequests, TakenWordText
<1>7. CASE op \in {"ImportOp", "NewDictOp", "NewFrozenSetOp", "NewListOp",
                 "NewSetOp", "NewTupleOp", "drainReleases"}
  BY <1>7, NewRequests, TakenNew
<1>8. CASE op \in {"IsInstanceOp"}
  BY <1>8, ObjectsRequests, TakenObjects
<1>9. CASE op \in {"pyNew"}
  BY <1>9, TextRequests, TakenText
<1>10. CASE op \in {"NewFunctionOp"}
  BY <1>10, NewIntRequests, TakenNewInt
<1>11. CASE op \in {"EnsureDispatcher"}
  BY <1>11, WordIntRequests, TakenWordInt
<1>12. QED
  BY <1>1, <1>2, <1>3, <1>4, <1>5, <1>6, <1>7, <1>8, <1>9, <1>10, <1>11 DEF Entry
=============================================================================
