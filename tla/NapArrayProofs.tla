---------------------------- MODULE NapArrayProofs ----------------------------
(***************************************************************************)
(* Proofs about NapArray, for every set of shapes, values and indices.     *)
(*                                                                         *)
(* The products of dimensions and the flat index are recursive functions;  *)
(* what they compute is proved by induction over the numbers, as the least *)
(* element of a set (Least, Induction).  For the shapes the code is right  *)
(* for the flat index is a number of as many digits as there are           *)
(* dimensions, so it stays in the memory and no two tuples share a cell.   *)
(***************************************************************************)
EXTENDS NapArray, SequenceTheorems, WellFoundedInduction, TLAPS

-----------------------------------------------------------------------------
(* Induction over the naturals, for sets.                                  *)
LEMMA Least ==
  ASSUME NEW T \in SUBSET Nat, T # {}
  PROVE  \E x \in T : \A y \in T : x <= y
<1> DEFINE R == OpToRel(<, Nat)
<1>1. IsWellFoundedOn(R, Nat)
  BY NatLessThanWellFounded
<1>2. \A x, y \in Nat : y < x => <<y, x>> \in R
  BY DEF OpToRel
<1> HIDE DEF R
<1>3. T \subseteq Nat
  OBVIOUS
<1>4. PICK x \in T : \A y \in T : ~ (<<y, x>> \in R)
  BY <1>1, <1>3, WFMin
<1>5. \A y \in T : ~ (y < x)
  BY <1>2, <1>3, <1>4
<1> QED
  BY <1>3, <1>5

(* Induction over the naturals: a set that has 0 and with every number the *)
(* next one has them all.                                                  *)
LEMMA Induction ==
  ASSUME NEW S, 0 \in S, \A n \in Nat : n \in S => n + 1 \in S
  PROVE  \A n \in Nat : n \in S
<1> SUFFICES ASSUME Nat \ S # {}
             PROVE  FALSE
  OBVIOUS
<1>1. PICK x \in Nat \ S : \A y \in Nat \ S : x <= y
  BY Least
<1>2. x # 0 /\ x - 1 \in Nat
  BY <1>1
<1>3. x - 1 \in S
  BY <1>1, <1>2
<1>4. (x - 1) + 1 \in S
  BY <1>2, <1>3
<1> QED
  BY <1>2, <1>4

-----------------------------------------------------------------------------
(* Products of dimensions.  p has the products of the first dimensions.    *)
Products(p, f, n) ==
  p = [k \in 0 .. n |-> IF k = 0 THEN 1 ELSE p[k - 1] * f[k - 1]]

(* The recursive function of Product exists.                               *)
LEMMA ProductsExist ==
  ASSUME NEW f
  PROVE  \A n \in Nat : \E p : Products(p, f, n)
<1> DEFINE S == {n \in Nat : \E p : Products(p, f, n)}
<1>1. 0 \in S
  <2> DEFINE p == [k \in 0 .. 0 |-> 1]
  <2>1. Products(p, f, 0)
    BY DEF Products
  <2> QED
    BY <2>1
<1>2. ASSUME NEW n \in Nat, n \in S
      PROVE  n + 1 \in S
  <2>1. PICK p : Products(p, f, n)
    BY <1>2
  <2> DEFINE q == [k \in 0 .. n + 1 |-> IF k = n + 1 THEN p[n] * f[n] ELSE p[k]]
  <2>2. Products(q, f, n + 1)
    BY <2>1 DEF Products
  <2> QED
    BY <2>2
<1> HIDE DEF S
<1>3. \A n \in Nat : n \in S
  BY <1>1, <1>2, Induction
<1> QED
  BY <1>3 DEF S

(* Product is the last value of that function.                             *)
LEMMA ProductIs ==
  ASSUME NEW f, NEW n \in Nat
  PROVE  \E p : Products(p, f, n) /\ Product(f, n) = p[n]
<1> DEFINE p == CHOOSE q : Products(q, f, n)
<1>1. Products(p, f, n)
  BY ProductsExist
<1>2. Product(f, n) = p[n]
  BY DEF Products, Product
<1> QED
  BY <1>1, <1>2

(* They depend on the dimensions they are of, and on nothing else.         *)
LEMMA ProductsAgree ==
  ASSUME NEW f, NEW g, NEW n \in Nat, NEW m \in Nat, n <= m,
         NEW p, Products(p, f, n), NEW q, Products(q, g, m),
         \A i \in 0 .. n - 1 : f[i] = g[i]
  PROVE  \A k \in 0 .. n : p[k] = q[k]
<1> DEFINE S == {k \in Nat : k <= n => p[k] = q[k]}
<1>1. 0 \in S
  BY DEF Products
<1>2. ASSUME NEW k \in Nat, k \in S
      PROVE  k + 1 \in S
  <2> SUFFICES ASSUME k + 1 <= n
               PROVE  p[k + 1] = q[k + 1]
    OBVIOUS
  <2>1. /\ k + 1 \in 0 .. n /\ k + 1 \in 0 .. m /\ k \in 0 .. n - 1
        /\ (k + 1) - 1 = k /\ k + 1 # 0 /\ k <= n
    OBVIOUS
  <2>2. p[k + 1] = p[k] * f[k]
    BY <2>1 DEF Products
  <2>3. q[k + 1] = q[k] * g[k]
    BY <2>1 DEF Products
  <2> QED
    BY <1>2, <2>1, <2>2, <2>3
<1> HIDE DEF S
<1>3. \A k \in Nat : k \in S
  BY <1>1, <1>2, Induction
<1> QED
  BY <1>3 DEF S

(* Equal dimensions have equal products.                                   *)
LEMMA ProductSame ==
  ASSUME NEW f, NEW g, NEW n \in Nat, \A i \in 0 .. n - 1 : f[i] = g[i]
  PROVE  Product(f, n) = Product(g, n)
<1>1. PICK p : Products(p, f, n) /\ Product(f, n) = p[n]
  BY ProductIs
<1>2. PICK q : Products(q, g, n) /\ Product(g, n) = q[n]
  BY ProductIs
<1>3. n <= n /\ n \in 0 .. n
  OBVIOUS
<1>4. Products(p, f, n) /\ Products(q, g, n)
  BY <1>1, <1>2
<1>5. \A k \in 0 .. n : p[k] = q[k]
  BY ONLY <1>3, <1>4, ProductsAgree, n \in Nat, \A i \in 0 .. n - 1 : f[i] = g[i]
<1> QED
  BY <1>1, <1>2, <1>3, <1>5

(* Product(f, n) is f[0] * ... * f[n - 1].                                 *)
LEMMA ProductStep ==
  ASSUME NEW f
  PROVE  /\ Product(f, 0) = 1
         /\ \A n \in Nat : Product(f, n + 1) = Product(f, n) * f[n]
<1>1. Product(f, 0) = 1
  <2>1. PICK p : Products(p, f, 0) /\ Product(f, 0) = p[0]
    BY ProductIs
  <2> QED
    BY <2>1 DEF Products
<1>2. ASSUME NEW n \in Nat
      PROVE  Product(f, n + 1) = Product(f, n) * f[n]
  <2>1. PICK p : Products(p, f, n) /\ Product(f, n) = p[n]
    BY ProductIs
  <2>2. PICK q : Products(q, f, n + 1) /\ Product(f, n + 1) = q[n + 1]
    BY ProductIs
  <2>3. /\ n <= n + 1 /\ n \in 0 .. n /\ n + 1 \in 0 .. n + 1 /\ n + 1 # 0
        /\ (n + 1) - 1 = n /\ n + 1 \in Nat
    OBVIOUS
  <2>4. p[n] = q[n]
    BY <2>1, <2>2, <2>3, ProductsAgree
  <2>5. q[n + 1] = q[n] * f[n]
    BY <2>2, <2>3 DEF Products
  <2> QED
    BY <2>1, <2>2, <2>4, <2>5
<1> QED
  BY <1>1, <1>2

(* The product of positive dimensions is positive.                         *)
LEMMA ProductPositive ==
  ASSUME NEW f, NEW n \in Nat, \A i \in 0 .. n - 1 : f[i] \in Nat \ {0}
  PROVE  \A k \in 0 .. n : Product(f, k) \in Nat \ {0}
<1> DEFINE S == {k \in Nat : k <= n => Product(f, k) \in Nat \ {0}}
<1>1. 0 \in S
  BY ProductStep
<1>2. ASSUME NEW k \in Nat, k \in S
      PROVE  k + 1 \in S
  <2> SUFFICES ASSUME k + 1 <= n
               PROVE  Product(f, k + 1) \in Nat \ {0}
    OBVIOUS
  <2>1. Product(f, k) \in Nat \ {0} /\ f[k] \in Nat \ {0}
    BY <1>2
  <2>2. \A a, b \in Nat \ {0} : a * b \in Nat \ {0}
    OBVIOUS
  <2>3. Product(f, k + 1) = Product(f, k) * f[k]
    BY ProductStep
  <2> QED
    BY <2>1, <2>2, <2>3
<1> HIDE DEF S
<1>3. \A k \in Nat : k \in S
  BY <1>1, <1>2, Induction
<1> QED
  BY <1>3 DEF S

-----------------------------------------------------------------------------
(* The flat index.  s has the sums of its first terms.                     *)
Sums(s, idx, dims, used, n) ==
  s = [k \in 0 .. n |->
         IF k = 0 THEN 0 ELSE s[k - 1] + Product(dims, used - k) * idx[k - 1]]

(* The recursive function of FlatIndex exists.                             *)
LEMMA SumsExist ==
  ASSUME NEW idx, NEW dims, NEW used \in Nat
  PROVE  \A n \in Nat : \E s : Sums(s, idx, dims, used, n)
<1> DEFINE S == {n \in Nat : \E s : Sums(s, idx, dims, used, n)}
<1>1. 0 \in S
  <2> DEFINE s == [k \in 0 .. 0 |-> 0]
  <2>1. Sums(s, idx, dims, used, 0)
    BY DEF Sums
  <2> QED
    BY <2>1
<1>2. ASSUME NEW n \in Nat, n \in S
      PROVE  n + 1 \in S
  <2>1. PICK s : Sums(s, idx, dims, used, n)
    BY <1>2
  <2> DEFINE x == s[n] + Product(dims, used - (n + 1)) * idx[n]
             t == [k \in 0 .. n + 1 |-> IF k = n + 1 THEN x ELSE s[k]]
  <2>2. Sums(t, idx, dims, used, n + 1)
    <3>1. \A k \in 0 .. n : s[k] = IF k = 0 THEN 0
                                   ELSE s[k - 1] + Product(dims, used - k) * idx[k - 1]
      BY <2>1 DEF Sums
    <3>2. (n + 1) - 1 = n /\ n + 1 # 0 /\ n \in 0 .. n + 1 /\ n # n + 1
      OBVIOUS
    <3>3. t[n + 1] = t[(n + 1) - 1] + Product(dims, used - (n + 1)) * idx[(n + 1) - 1]
      BY <3>2
    <3>4. ASSUME NEW k \in 0 .. n
          PROVE  t[k] = IF k = 0 THEN 0
                        ELSE t[k - 1] + Product(dims, used - k) * idx[k - 1]
      <4>1. t[k] = s[k]
        OBVIOUS
      <4>2. k # 0 => t[k - 1] = s[k - 1]
        OBVIOUS
      <4> QED
        BY <3>1, <4>1, <4>2
    <3>5. \A k \in 0 .. n + 1 : k \in 0 .. n \/ k = n + 1
      OBVIOUS
    <3>6. t = [k \in 0 .. n + 1 |-> t[k]]
      OBVIOUS
    <3> HIDE DEF t
    <3>7. \A k \in 0 .. n + 1 : t[k] = IF k = 0 THEN 0
            ELSE t[k - 1] + Product(dims, used - k) * idx[k - 1]
      BY <3>2, <3>3, <3>4, <3>5
    <3> QED
      BY <3>6, <3>7 DEF Sums
  <2> QED
    BY <2>2
<1> HIDE DEF S
<1>3. \A n \in Nat : n \in S
  BY <1>1, <1>2, Induction
<1> QED
  BY <1>3 DEF S

(* FlatIndex is the last value of that function.                           *)
LEMMA FlatIs ==
  ASSUME NEW idx, NEW dims, NEW used \in Nat
  PROVE  \E s : Sums(s, idx, dims, used, used) /\ FlatIndex(idx, dims, used) = s[used]
<1> DEFINE s == CHOOSE t : Sums(t, idx, dims, used, used)
<1>1. Sums(s, idx, dims, used, used)
  BY SumsExist
<1>2. FlatIndex(idx, dims, used) = s[used]
  BY DEF Sums, FlatIndex
<1> QED
  BY <1>1, <1>2

(* The steps of the sum.                                                   *)
LEMMA SumsStep ==
  ASSUME NEW idx, NEW dims, NEW used \in Nat, NEW n \in Nat, NEW s, Sums(s, idx, dims, used, n)
  PROVE  /\ s[0] = 0
         /\ \A k \in 0 .. n - 1 : s[k + 1] = s[k] + Product(dims, used - (k + 1)) * idx[k]
<1>1. \A k \in 0 .. n - 1 : k + 1 \in 0 .. n /\ k + 1 # 0 /\ (k + 1) - 1 = k
  OBVIOUS
<1>2. s[0] = 0
  BY DEF Sums
<1>3. ASSUME NEW k \in 0 .. n - 1
      PROVE  s[k + 1] = s[k] + Product(dims, used - (k + 1)) * idx[k]
  <2> DEFINE j == k + 1
  <2>1. j \in 0 .. n /\ j # 0 /\ j - 1 = k
    BY <1>1
  <2> HIDE DEF j
  <2>2. s[j] = s[j - 1] + Product(dims, used - j) * idx[j - 1]
    BY <2>1 DEF Sums
  <2> QED
    BY <2>1, <2>2 DEF j
<1> QED
  BY <1>2, <1>3

(* Indices that agree have the same sums.                                  *)
LEMMA SumsAgree ==
  ASSUME NEW idx, NEW jdx, NEW dims, NEW used \in Nat, NEW n \in Nat, NEW m \in 0 .. n,
         NEW s, Sums(s, idx, dims, used, n), NEW t, Sums(t, jdx, dims, used, n),
         \A i \in 0 .. m - 1 : idx[i] = jdx[i]
  PROVE  s[m] = t[m]
<1> DEFINE S == {k \in Nat : k <= m => s[k] = t[k]}
<1>1. 0 \in S
  BY DEF Sums
<1>2. ASSUME NEW k \in Nat, k \in S
      PROVE  k + 1 \in S
  <2> SUFFICES ASSUME k + 1 <= m
               PROVE  s[k + 1] = t[k + 1]
    OBVIOUS
  <2>1. k \in 0 .. n - 1 /\ k \in 0 .. m - 1 /\ k <= m
    OBVIOUS
  <2>2. s[k + 1] = s[k] + Product(dims, used - (k + 1)) * idx[k]
    BY <2>1, SumsStep
  <2>3. t[k + 1] = t[k] + Product(dims, used - (k + 1)) * jdx[k]
    BY <2>1, SumsStep
  <2>4. s[k] = t[k] /\ idx[k] = jdx[k]
    BY <1>2, <2>1
  <2> QED
    BY <2>2, <2>3, <2>4
<1> HIDE DEF S
<1>3. \A k \in Nat : k \in S
  BY <1>1, <1>2, Induction
<1> QED
  BY <1>3 DEF S

(* Equal indices have the same flat index.                                 *)
LEMMA FlatSame ==
  ASSUME NEW idx, NEW jdx, NEW dims, NEW used \in Nat,
         \A i \in 0 .. used - 1 : idx[i] = jdx[i]
  PROVE  FlatIndex(idx, dims, used) = FlatIndex(jdx, dims, used)
<1>1. PICK s : Sums(s, idx, dims, used, used) /\ FlatIndex(idx, dims, used) = s[used]
  BY FlatIs
<1>2. PICK t : Sums(t, jdx, dims, used, used) /\ FlatIndex(jdx, dims, used) = t[used]
  BY FlatIs
<1>3. Sums(s, idx, dims, used, used) /\ Sums(t, jdx, dims, used, used)
  BY <1>1, <1>2
<1>4. used \in 0 .. used
  OBVIOUS
<1>5. \A m \in 0 .. used : m = used => s[m] = t[m]
  <2> SUFFICES ASSUME NEW m \in 0 .. used, m = used
               PROVE  s[m] = t[m]
    OBVIOUS
  <2>1. \A i \in 0 .. m - 1 : idx[i] = jdx[i]
    OBVIOUS
  <2> QED
    BY ONLY <1>3, <2>1, used \in Nat, m \in 0 .. used, SumsAgree
<1> QED
  BY <1>1, <1>2, <1>4, <1>5

-----------------------------------------------------------------------------
(* Arrays with u dimensions f that are all d: their flat index is a number *)
(* with u digits to the base d.  How far the sums can go.                  *)
Even(f, u, d) == d \in Nat \ {0} /\ \A i \in 0 .. u - 1 : f[i] = d

InRange(idx, f, u) == \A i \in 0 .. u - 1 : idx[i] \in 0 .. f[i] - 1

(* The products of equal dimensions are their powers.                      *)
LEMMA EvenProducts ==
  ASSUME NEW f, NEW u \in Nat, NEW d, Even(f, u, d)
  PROVE  /\ \A k \in 0 .. u : Product(f, u - k) \in Nat \ {0}
         /\ \A k \in 0 .. u - 1 : Product(f, u - k) = Product(f, u - (k + 1)) * d
<1>1. \A k \in 0 .. u : Product(f, k) \in Nat \ {0}
  <2>1. \A i \in 0 .. u - 1 : f[i] \in Nat \ {0}
    BY DEF Even
  <2> QED
    BY <2>1, ProductPositive
<1>2. \A k \in 0 .. u : u - k \in 0 .. u
  OBVIOUS
<1>3. ASSUME NEW k \in 0 .. u - 1
      PROVE  Product(f, u - k) = Product(f, u - (k + 1)) * d
  <2> DEFINE j == u - (k + 1)
  <2>1. j \in Nat /\ j + 1 = u - k /\ j \in 0 .. u - 1
    OBVIOUS
  <2> HIDE DEF j
  <2>2. Product(f, j + 1) = Product(f, j) * f[j]
    BY <2>1, ProductStep
  <2>3. f[j] = d
    BY <2>1 DEF Even
  <2> QED
    BY <2>1, <2>2, <2>3 DEF j
<1> QED
  BY <1>1, <1>2, <1>3

(* With indices in range no partial sum exceeds the next weight: the flat  *)
(* index is a number with the indices as digits.                           *)
LEMMA SumsBound ==
  ASSUME NEW f, NEW u \in Nat, NEW d, Even(f, u, d), NEW idx, InRange(idx, f, u),
         NEW s, Sums(s, idx, f, u, u), NEW m \in 0 .. u
  PROVE  /\ s[m] \in Nat /\ s[u] \in Nat
         /\ s[m] <= s[u]
         /\ s[u] <= s[m] + Product(f, u - m) - 1
<1> DEFINE P(k) == Product(f, u - k)
<1>1. /\ \A k \in 0 .. u : P(k) \in Nat \ {0}
      /\ \A k \in 0 .. u - 1 : P(k) = P(k + 1) * d
  BY EvenProducts
<1>2. s[0] = 0 /\ \A k \in 0 .. u - 1 : s[k + 1] = s[k] + P(k + 1) * idx[k]
  <2>1. s[0] = 0
    BY SumsStep
  <2>2. ASSUME NEW k \in 0 .. u - 1
        PROVE  s[k + 1] = s[k] + Product(f, u - (k + 1)) * idx[k]
    BY ONLY u \in Nat, k \in 0 .. u - 1, Sums(s, idx, f, u, u), SumsStep
  <2> QED
    BY <2>1, <2>2
<1>3. d \in Nat \ {0} /\ \A k \in 0 .. u - 1 : idx[k] \in 0 .. d - 1
  BY DEF Even, InRange
<1>4. \A a \in Nat \ {0}, b \in Nat \ {0} : \A c \in 0 .. b - 1 :
        a * c \in Nat /\ a * c <= a * b - a
  <2> SUFFICES ASSUME NEW a \in Nat \ {0}, NEW b \in Nat \ {0}, NEW c \in 0 .. b - 1
               PROVE  a * c \in Nat /\ a * c <= a * b - a
    OBVIOUS
  <2>1. a * c \in Nat /\ c <= b - 1
    OBVIOUS
  <2>2. a * c <= a * (b - 1)
    BY <2>1
  <2>3. a * (b - 1) = a * b - a
    OBVIOUS
  <2> QED
    BY <2>1, <2>2, <2>3
<1>5. P(u) = 1
  BY ProductStep
<1> HIDE DEF P
<1>6. \A k \in 0 .. u - 1 : /\ P(k + 1) * idx[k] \in Nat
                            /\ P(k + 1) * idx[k] <= P(k) - P(k + 1)
  <2> SUFFICES ASSUME NEW k \in 0 .. u - 1
               PROVE  /\ P(k + 1) * idx[k] \in Nat
                      /\ P(k + 1) * idx[k] <= P(k) - P(k + 1)
    OBVIOUS
  <2>1. k + 1 \in 0 .. u
    OBVIOUS
  <2>2. P(k + 1) \in Nat \ {0} /\ P(k) = P(k + 1) * d
    BY <1>1, <2>1
  <2> QED
    BY <1>3, <1>4, <2>2
<1> DEFINE S == {k \in Nat : k <= u => s[k] \in Nat}
<1>7. \A k \in Nat : k \in S
  <2>1. 0 \in S
    BY <1>2
  <2>2. ASSUME NEW k \in Nat, k \in S
        PROVE  k + 1 \in S
    <3> SUFFICES ASSUME k + 1 <= u
                 PROVE  s[k + 1] \in Nat
      OBVIOUS
    <3>1. k \in 0 .. u - 1 /\ s[k] \in Nat
      BY <2>2
    <3> QED
      BY <1>2, <1>6, <3>1
  <2> HIDE DEF S
  <2> QED
    BY <2>1, <2>2, Induction
<1> DEFINE T == {k \in Nat : m <= k /\ k <= u =>
                              s[m] <= s[k] /\ s[k] <= s[m] + P(m) - P(k)}
<1>8. \A k \in 0 .. u : s[k] \in Nat
  BY <1>7
<1>9. \A k \in Nat : k \in T
  <2>1. 0 \in T
    <3>1. m <= 0 => m = 0
      OBVIOUS
    <3> QED
      BY <1>1, <1>8, <3>1
  <2>2. ASSUME NEW k \in Nat, k \in T
        PROVE  k + 1 \in T
    <3> SUFFICES ASSUME m <= k + 1, k + 1 <= u
                 PROVE  s[m] <= s[k + 1] /\ s[k + 1] <= s[m] + P(m) - P(k + 1)
      OBVIOUS
    <3>1. /\ k \in 0 .. u - 1 /\ k + 1 \in 0 .. u /\ k \in 0 .. u
          /\ s[k + 1] \in Nat /\ s[m] \in Nat /\ s[k] \in Nat
          /\ P(k + 1) \in Nat /\ P(m) \in Nat /\ P(k) \in Nat
      BY <1>1, <1>8
    <3>2. CASE m = k + 1
      BY <3>1, <3>2
    <3>3. CASE m <= k
      <4>1. s[m] <= s[k] /\ s[k] <= s[m] + P(m) - P(k)
        BY <2>2, <3>1, <3>3
      <4>2. /\ s[k + 1] = s[k] + P(k + 1) * idx[k]
            /\ P(k + 1) * idx[k] \in Nat /\ P(k + 1) * idx[k] <= P(k) - P(k + 1)
        BY <1>2, <1>6, <3>1
      <4> QED
        BY <3>1, <4>1, <4>2
    <3> QED
      BY <3>2, <3>3
  <2> HIDE DEF T
  <2> QED
    BY <2>1, <2>2, Induction
<1>10. s[m] <= s[u] /\ s[u] <= s[m] + P(m) - P(u)
  BY <1>9
<1> QED
  BY <1>5, <1>8, <1>10 DEF P

(* Arrays of regular shape: equal dimensions, or the first of two is 1.    *)
RegularDims(f, u) ==
  /\ \A i \in 0 .. u - 1 : f[i] \in Nat \ {0}
  /\ (\A i \in 0 .. u - 1 : f[i] = f[0]) \/ (u = 2 /\ f[0] = 1)

(* The shape of a first dimension of 1.                                    *)
LEMMA FlatOfTwo ==
  ASSUME NEW f, NEW idx, RegularDims(f, 2), f[0] = 1, InRange(idx, f, 2)
  PROVE  FlatIndex(idx, f, 2) = idx[1] /\ Product(f, 2) = f[1]
<1>1. /\ f[1] \in Nat \ {0} /\ idx[0] = 0 /\ idx[1] \in 0 .. f[1] - 1
  BY DEF RegularDims, InRange
<1>2. Product(f, 0) = 1 /\ Product(f, 0 + 1) = Product(f, 0) * f[0]
      /\ Product(f, 1 + 1) = Product(f, 1) * f[1]
  BY ProductStep
<1>3. Product(f, 1) = 1 /\ Product(f, 2) = f[1]
  BY <1>1, <1>2
<1>4. PICK s : Sums(s, idx, f, 2, 2) /\ FlatIndex(idx, f, 2) = s[2]
  BY FlatIs
<1>5. /\ s[0] = 0
      /\ \A k \in 0 .. 1 : s[k + 1] = s[k] + Product(f, 2 - (k + 1)) * idx[k]
  <2>1. s[0] = 0
    BY <1>4 DEF Sums
  <2>2. ASSUME NEW u \in Nat, u = 2, Sums(s, idx, f, u, u), NEW k \in 0 .. u - 1
        PROVE  s[k + 1] = s[k] + Product(f, u - (k + 1)) * idx[k]
    BY ONLY u \in Nat, k \in 0 .. u - 1, Sums(s, idx, f, u, u), SumsStep
  <2>3. ASSUME NEW k \in 0 .. 1
        PROVE  s[k + 1] = s[k] + Product(f, 2 - (k + 1)) * idx[k]
    BY <1>4, <2>2
  <2> QED
    BY <2>1, <2>3
<1>6. s[1] = s[0] + Product(f, 1) * idx[0]
  BY <1>5
<1>7. s[2] = s[1] + Product(f, 0) * idx[1]
  BY <1>5
<1> QED
  BY <1>1, <1>2, <1>3, <1>4, <1>5, <1>6, <1>7

(* The cell of indices in range is in the memory of the array.             *)
LEMMA FlatInMemory ==
  ASSUME NEW f, NEW u \in Nat, RegularDims(f, u), NEW idx, InRange(idx, f, u)
  PROVE  FlatIndex(idx, f, u) \in 0 .. Product(f, u) - 1
<1>1. CASE \A i \in 0 .. u - 1 : f[i] = f[0]
  <2> DEFINE d == IF u = 0 THEN 1 ELSE f[0]
  <2>1. Even(f, u, d)
    BY <1>1 DEF Even, RegularDims
  <2> HIDE DEF d
  <2>2. PICK s : Sums(s, idx, f, u, u) /\ FlatIndex(idx, f, u) = s[u]
    BY FlatIs
  <2>3. 0 \in 0 .. u /\ u - 0 = u
    OBVIOUS
  <2>4. s[u] \in Nat /\ s[u] <= s[0] + Product(f, u - 0) - 1
    BY <2>1, <2>2, <2>3, SumsBound
  <2>5. s[0] = 0
    BY <2>2 DEF Sums
  <2>6. Product(f, u) \in Nat
    BY <2>1, <2>3, EvenProducts
  <2> QED
    BY <2>2, <2>3, <2>4, <2>5, <2>6
<1>2. CASE u = 2 /\ f[0] = 1
  <2>1. FlatIndex(idx, f, 2) = idx[1] /\ Product(f, 2) = f[1]
    BY <1>2, FlatOfTwo
  <2>2. idx[1] \in 0 .. f[1] - 1
    BY <1>2 DEF InRange
  <2> QED
    BY <1>2, <2>1, <2>2
<1> QED
  BY <1>1, <1>2 DEF RegularDims

(* If two tuples first differ at m, the cells of the smaller one come      *)
(* first.                                                                  *)
LEMMA FlatOrder ==
  ASSUME NEW f, NEW u \in Nat, NEW d, Even(f, u, d),
         NEW idx, InRange(idx, f, u), NEW jdx, InRange(jdx, f, u),
         NEW m \in 0 .. u - 1, \A i \in 0 .. m - 1 : idx[i] = jdx[i], idx[m] < jdx[m]
  PROVE  FlatIndex(idx, f, u) < FlatIndex(jdx, f, u)
<1>1. PICK s : Sums(s, idx, f, u, u) /\ FlatIndex(idx, f, u) = s[u]
  BY FlatIs
<1>2. PICK t : Sums(t, jdx, f, u, u) /\ FlatIndex(jdx, f, u) = t[u]
  BY FlatIs
<1>3. Sums(s, idx, f, u, u) /\ Sums(t, jdx, f, u, u)
  BY <1>1, <1>2
<1>4. m \in 0 .. u /\ m + 1 \in 0 .. u
  OBVIOUS
<1>5. s[m] = t[m]
  BY ONLY u \in Nat, <1>3, <1>4, \A i \in 0 .. m - 1 : idx[i] = jdx[i], SumsAgree
<1> DEFINE W == Product(f, u - (m + 1))
<1>6. W \in Nat \ {0}
  BY <1>4, EvenProducts
<1>7. s[m + 1] = s[m] + W * idx[m]
  BY ONLY u \in Nat, m \in 0 .. u - 1, <1>3, SumsStep
<1>8. t[m + 1] = t[m] + W * jdx[m]
  BY ONLY u \in Nat, m \in 0 .. u - 1, <1>3, SumsStep
<1>9. /\ s[m + 1] \in Nat /\ s[u] \in Nat
      /\ s[u] <= s[m + 1] + W - 1
  BY ONLY u \in Nat, Even(f, u, d), InRange(idx, f, u), <1>3, <1>4, SumsBound
<1>10. t[m + 1] \in Nat /\ t[u] \in Nat /\ t[m + 1] <= t[u]
  BY ONLY u \in Nat, Even(f, u, d), InRange(jdx, f, u), <1>3, <1>4, SumsBound
<1>11. s[m] \in Nat
  BY ONLY u \in Nat, Even(f, u, d), InRange(idx, f, u), <1>3, <1>4, SumsBound
<1>12. idx[m] \in Nat /\ jdx[m] \in Nat
  BY DEF Even, InRange
<1> HIDE DEF W
<1>13. W * idx[m] + W <= W * jdx[m]
  <2>1. W * (idx[m] + 1) <= W * jdx[m]
    BY <1>6, <1>12
  <2>2. W * (idx[m] + 1) = W * idx[m] + W
    BY <1>6, <1>12
  <2> QED
    BY <2>1, <2>2
<1>14. W * idx[m] \in Nat /\ W * jdx[m] \in Nat
  BY <1>6, <1>12
<1>15. s[m + 1] + W <= t[m + 1]
  BY <1>5, <1>6, <1>7, <1>8, <1>11, <1>13, <1>14
<1> QED
  BY <1>1, <1>2, <1>6, <1>9, <1>10, <1>15

(* Two tuples of indices in range do not share a cell.                     *)
LEMMA FlatInjective ==
  ASSUME NEW f, NEW u \in Nat, RegularDims(f, u),
         NEW idx, InRange(idx, f, u), NEW jdx, InRange(jdx, f, u),
         FlatIndex(idx, f, u) = FlatIndex(jdx, f, u)
  PROVE  \A i \in 0 .. u - 1 : idx[i] = jdx[i]
<1>1. CASE \A i \in 0 .. u - 1 : f[i] = f[0]
  <2> SUFFICES ASSUME \E i \in 0 .. u - 1 : idx[i] # jdx[i]
               PROVE  FALSE
    OBVIOUS
  <2> DEFINE d == IF u = 0 THEN 1 ELSE f[0]
             D == {i \in Nat : i \in 0 .. u - 1 /\ idx[i] # jdx[i]}
  <2>1. Even(f, u, d)
    BY <1>1 DEF Even, RegularDims
  <2> HIDE DEF d
  <2>2. PICK m \in D : \A i \in D : m <= i
    <3>1. D \in SUBSET Nat /\ D # {}
      OBVIOUS
    <3> HIDE DEF D
    <3> QED
      BY <3>1, Least
  <2>3. m \in 0 .. u - 1 /\ idx[m] # jdx[m] /\ \A i \in 0 .. m - 1 : idx[i] = jdx[i]
    BY <2>2
  <2>4. idx[m] \in Nat /\ jdx[m] \in Nat
    BY <2>1, <2>3 DEF Even, InRange
  <2>5. FlatIndex(idx, f, u) \in Nat /\ FlatIndex(jdx, f, u) \in Nat
    <3>1. \A k : k \in 0 .. Product(f, u) - 1 => k \in Nat
      OBVIOUS
    <3> QED
      BY <3>1, FlatInMemory
  <2>6. CASE idx[m] < jdx[m]
    <3>1. FlatIndex(idx, f, u) < FlatIndex(jdx, f, u)
      BY <2>1, <2>3, <2>6, FlatOrder
    <3> QED
      BY <2>5, <3>1
  <2>7. CASE jdx[m] < idx[m]
    <3>1. FlatIndex(jdx, f, u) < FlatIndex(idx, f, u)
      BY <2>1, <2>3, <2>7, FlatOrder
    <3> QED
      BY <2>5, <3>1
  <2> QED
    BY <2>3, <2>4, <2>6, <2>7
<1>2. CASE u = 2 /\ f[0] = 1
  <2>1. FlatIndex(idx, f, 2) = idx[1] /\ FlatIndex(jdx, f, 2) = jdx[1]
    BY <1>2, FlatOfTwo
  <2>2. idx[0] = 0 /\ jdx[0] = 0
    BY <1>2 DEF InRange
  <2> QED
    BY <1>2, <2>1, <2>2
<1> QED
  BY <1>1, <1>2 DEF RegularDims

-----------------------------------------------------------------------------
(* The invariant.                                                          *)
TypeOK ==
  /\ shape \in Shapes
  /\ dimensions \in [Dims -> Nat] /\ dimension_count \in Nat
  /\ regidx \in [Dims -> Int]
  /\ phase \in {"out", "dims", "in", "index", "operand"}
  /\ grown \in 0 .. Len(shape) /\ scopes \in Nat
  /\ want \in Seq(Int) /\ Len(want) <= Len(shape) + 1
  /\ status \in {"running", "count", "range", "wild"}

Accessing == phase \in {"index", "operand"}
Inside    == phase \in {"in", "index", "operand"}

(* The count is that of the dimensions added in all scopes.  In the first  *)
(* one it is how many there are; later there are more than there should be. *)
CountInv ==
  /\ phase # "out" => scopes > 0
  /\ scopes = 0 => dimension_count = 0
  /\ scopes = 1 => dimension_count = grown
  /\ scopes > 1 => dimension_count >= Len(shape) + grown
  /\ Inside \/ (phase = "out" /\ scopes > 0) => grown = Len(shape)

(* The dimensions end with a zero, or fill what the scan of grow sees; in  *)
(* the first scope they are those of the shape.                            *)
DimsInv ==
  /\ \A d \in Dims : dimensions[d] > 0 <=> d < dimension_count /\ d < MaxDims - 1
  /\ scopes = 1 => \A d \in 0 .. grown - 1 : dimensions[d] = shape[d + 1]

(* The memory is as large as the dimensions say.                           *)
MemoryInv ==
  phase # "out" /\ (scopes = 1 \/ dimension_count < MaxDims - 1) =>
    DOMAIN memory = IF grown = 0 THEN {0} ELSE 0 .. Product(dimensions, dimension_count) - 1

(* An index register has the index the program wants, or, when another     *)
(* array was used inside the access, a zero.                               *)
IndexInv ==
  /\ Nested[shape] = {} => phase # "operand"
  /\ Accessing => \A i \in 0 .. Len(want) - 1 :
       regidx[i] = want[i + 1] \/ (regidx[i] = 0 /\ Nested[shape] # {})

(* What was written is in its cell.                                        *)
Tuple(w) == [k \in 0 .. Len(w) - 1 |-> w[k + 1]]

WroteInv ==
  /\ phase \in {"out", "dims"} => wrote = <<>>
  /\ Regular => \A w \in DOMAIN wrote :
       /\ w \in Seq(Int) /\ InShape(w)
       /\ memory[FlatIndex(Tuple(w), dimensions, Len(w))] = wrote[w]

IInv ==
  /\ TypeOK /\ CountInv /\ DimsInv /\ MemoryInv /\ IndexInv /\ WroteInv
  /\ ErrorsJustified /\ AccessInMemory

-----------------------------------------------------------------------------
(* What is known of the shape.                                             *)
LEMMA ShapeFacts ==
  ASSUME TypeOK
  PROVE  /\ shape \in Seq(Nat \ {0}) /\ Len(shape) \in Nat /\ Len(shape) < MaxDims
         /\ MaxDims \in Nat /\ DOMAIN shape = 1 .. Len(shape)
         /\ \A i \in 0 .. Len(shape) - 1 : shape[i + 1] \in Nat \ {0}
<1>1. shape \in Seq(Nat \ {0}) /\ Len(shape) < MaxDims /\ MaxDims \in Nat
  BY ShapesAssumption DEF TypeOK
<1>2. Len(shape) \in Nat /\ DOMAIN shape = 1 .. Len(shape)
  BY <1>1, LenProperties
<1>3. ASSUME NEW i \in 0 .. Len(shape) - 1
      PROVE  shape[i + 1] \in Nat \ {0}
  <2>1. i + 1 \in 1 .. Len(shape)
    BY <1>2
  <2> QED
    BY <1>1, <2>1, ElementOfSeq
<1> QED
  BY <1>1, <1>2, <1>3

(* The scan of grow finds the end of the dimensions, or its limit.         *)
LEMMA FirstFreeIs ==
  ASSUME TypeOK, DimsInv, Len(shape) > 0
  PROVE  /\ FirstFree \in 0 .. MaxDims - 2
         /\ dimension_count < MaxDims - 1 => FirstFree = dimension_count
         /\ dimension_count >= MaxDims - 1 => FirstFree = MaxDims - 2
<1> DEFINE c == dimension_count
           Scan(d) == /\ d = MaxDims - 2 \/ dimensions[d] <= 0
                      /\ \A e \in 0 .. d - 1 : dimensions[e] > 0
           x == IF c < MaxDims - 1 THEN c ELSE MaxDims - 2
<1>1. MaxDims \in Nat /\ MaxDims >= 2 /\ c \in Nat /\ Dims = 0 .. MaxDims - 1
  BY ShapeFacts DEF TypeOK, Dims
<1>2. \A d \in 0 .. MaxDims - 1 : dimensions[d] \in Nat /\ (dimensions[d] > 0 <=> d < c /\ d < MaxDims - 1)
  BY <1>1 DEF TypeOK, DimsInv
<1> HIDE DEF c
<1>3. x \in 0 .. MaxDims - 2 /\ Scan(x)
  BY <1>1, <1>2
<1>4. \A d \in 0 .. MaxDims - 2 : Scan(d) => d = x
  <2> SUFFICES ASSUME NEW d \in 0 .. MaxDims - 2, Scan(d), d # x
               PROVE  FALSE
    OBVIOUS
  <2>1. CASE d < x
    <3>1. d < c /\ d < MaxDims - 2 /\ d \in 0 .. MaxDims - 1
      BY <1>1, <2>1
    <3>2. dimensions[d] > 0 /\ dimensions[d] \in Nat
      BY <1>1, <1>2, <3>1
    <3> QED
      BY <3>1, <3>2
  <2>2. CASE x < d
    <3>1. x = c /\ c < MaxDims - 1 /\ c \in 0 .. d - 1 /\ c \in 0 .. MaxDims - 1
      BY <1>1, <2>2
    <3>2. dimensions[c] > 0
      BY <3>1
    <3> QED
      BY <1>1, <1>2, <3>1, <3>2
  <2> QED
    BY <1>1, <1>3, <2>1, <2>2
<1>5. FirstFree = CHOOSE d \in 0 .. MaxDims - 2 : Scan(d)
  BY DEF FirstFree
<1> HIDE DEF Scan, x
<1>6. FirstFree = x
  BY <1>3, <1>4, <1>5
<1> QED
  BY <1>1, <1>3, <1>6 DEF x, c

(* A regular array that is declared has the dimensions of its shape, and   *)
(* the memory for them.                                                    *)
LEMMA RegularFacts ==
  ASSUME IInv, Regular, Inside
  PROVE  /\ dimension_count = Len(shape) /\ grown = Len(shape)
         /\ \A i \in 0 .. Len(shape) - 1 : dimensions[i] = shape[i + 1]
         /\ RegularDims(dimensions, Len(shape))
         /\ DOMAIN memory = 0 .. Product(dimensions, Len(shape)) - 1
<1>1. /\ scopes = 1 /\ grown = Len(shape) /\ dimension_count = Len(shape)
      /\ \A i \in 0 .. Len(shape) - 1 : dimensions[i] = shape[i + 1]
  BY DEF IInv, Regular, CountInv, DimsInv
<1>2. /\ Len(shape) \in Nat /\ DOMAIN shape = 1 .. Len(shape)
      /\ \A i \in 0 .. Len(shape) - 1 : shape[i + 1] \in Nat \ {0}
  BY ShapeFacts DEF IInv
<1>3. RegularDims(dimensions, Len(shape))
  <2>1. CASE \A d \in DOMAIN shape : shape[d] = shape[1]
    <3>1. \A i \in 0 .. Len(shape) - 1 : i + 1 \in 1 .. Len(shape) /\ 0 \in 0 .. Len(shape) - 1
      BY <1>2
    <3>2. \A i \in 0 .. Len(shape) - 1 : dimensions[i] = dimensions[0]
      BY <1>1, <1>2, <2>1, <3>1
    <3> QED
      BY <1>1, <1>2, <3>2 DEF RegularDims
  <2>2. CASE shape[1] = 1 /\ Len(shape) = 2
    <3>1. dimensions[0] = 1
      BY <1>1, <2>2
    <3> QED
      BY <1>1, <1>2, <2>2, <3>1 DEF RegularDims
  <2> QED
    BY <2>1, <2>2 DEF Regular
<1>4. phase # "out"
  BY DEF Inside
<1>5. DOMAIN memory = 0 .. Product(dimensions, Len(shape)) - 1
  <2>1. DOMAIN memory = IF grown = 0 THEN {0} ELSE 0 .. Product(dimensions, dimension_count) - 1
    BY <1>1, <1>4 DEF IInv, MemoryInv
  <2>2. grown = 0 => Product(dimensions, Len(shape)) = 1
    BY <1>1, ProductStep
  <2>3. {0} = 0 .. 1 - 1
    OBVIOUS
  <2> QED
    BY <1>1, <2>1, <2>2, <2>3
<1> QED
  BY <1>1, <1>3, <1>5

(* An access that goes through on a regular array has the indices it       *)
(* wants, and they are in the shape.                                       *)
LEMMA AccessFacts ==
  ASSUME IInv, Regular, Indexed, Deliverable
  PROVE  /\ InShape(want) /\ InRange(regidx, dimensions, Len(shape))
         /\ Len(want) = Len(shape)
         /\ \A i \in 0 .. Len(shape) - 1 : regidx[i] = want[i + 1]
<1>1. Accessing /\ Inside /\ Nested[shape] = {}
  BY DEF Indexed, At, Accessing, Inside, Regular
<1>2. /\ Len(shape) \in Nat
      /\ \A i \in 0 .. Len(shape) - 1 : shape[i + 1] \in Nat \ {0}
      /\ Len(shape) < MaxDims /\ MaxDims \in Nat
  BY ShapeFacts DEF IInv
<1>3. /\ Len(want) = Len(shape) /\ ~OutOfRange(Len(shape))
      /\ \A i \in 0 .. Len(shape) - 1 : dimensions[i] = shape[i + 1]
  BY <1>1, RegularFacts DEF Deliverable
<1>4. \A i \in 0 .. Len(shape) - 1 : regidx[i] = want[i + 1]
  BY <1>1, <1>3 DEF IInv, IndexInv
<1>5. \A i \in 0 .. Len(shape) - 1 : regidx[i] \in 0 .. dimensions[i] - 1
  <2> SUFFICES ASSUME NEW i \in 0 .. Len(shape) - 1
               PROVE  regidx[i] \in 0 .. dimensions[i] - 1
    OBVIOUS
  <2>1. ~(regidx[i] < 0 \/ regidx[i] >= dimensions[i])
    BY <1>3 DEF OutOfRange
  <2>2. i \in Dims
    BY <1>2 DEF Dims
  <2>3. regidx[i] \in Int /\ dimensions[i] \in Nat
    BY <2>2 DEF IInv, TypeOK
  <2> QED
    BY <2>1, <2>3
<1>6. ASSUME NEW i \in 1 .. Len(shape)
      PROVE  want[i] \in 0 .. shape[i] - 1
  <2> DEFINE j == i - 1
  <2>1. j \in 0 .. Len(shape) - 1 /\ j + 1 = i
    BY <1>2
  <2> HIDE DEF j
  <2> QED
    BY <1>3, <1>4, <1>5, <2>1
<1> QED
  BY <1>3, <1>4, <1>5, <1>6 DEF InShape, InRange

-----------------------------------------------------------------------------
(* The steps.  A program starts out of the scope of the array.             *)
LEMMA InitIInv == Init => IInv
<1> SUFFICES ASSUME Init
             PROVE  IInv
  OBVIOUS
<1>1. /\ shape \in Shapes /\ dimensions = [d \in Dims |-> 0] /\ dimension_count = 0
      /\ regidx = [d \in Dims |-> 0] /\ phase = "out" /\ grown = 0 /\ want = <<>>
      /\ wrote = <<>> /\ scopes = 0 /\ status = "running"
  BY DEF Init
<1>2. shape \in Seq(Nat \ {0}) /\ Len(shape) \in Nat
  BY <1>1, ShapesAssumption, LenProperties
<1>3. want \in Seq(Int) /\ Len(want) = 0
  BY <1>1
<1>4. TypeOK
  BY <1>1, <1>2, <1>3 DEF TypeOK
<1>5. CountInv
  BY <1>1 DEF CountInv, Inside
<1>6. DimsInv
  BY <1>1, <1>2, ShapesAssumption DEF DimsInv, Dims
<1>7. MemoryInv /\ IndexInv
  BY <1>1 DEF MemoryInv, IndexInv, Accessing
<1>8. WroteInv
  BY <1>1 DEF WroteInv, Regular
<1>9. ErrorsJustified /\ AccessInMemory
  BY <1>1 DEF ErrorsJustified, AccessInMemory
<1> QED
  BY <1>4, <1>5, <1>6, <1>7, <1>8, <1>9 DEF IInv

(* The variable is defined: one cell, and the dimensions it had.           *)
LEMMA DefineIInv ==
  ASSUME IInv, Define
  PROVE  IInv'
<1>1. /\ phase = "out" /\ status = "running" /\ phase' = "dims" /\ grown' = 0
      /\ DOMAIN memory' = {0} /\ scopes' = scopes + 1
      /\ UNCHANGED <<shape, dimensions, dimension_count, regidx, want, wrote, status>>
  BY DEF Define, At
<1>2. /\ Len(shape) \in Nat /\ scopes \in Nat /\ dimension_count \in Nat /\ grown \in Nat
      /\ CountInv
  BY ShapeFacts DEF IInv, TypeOK
<1>3. TypeOK'
  BY <1>1, <1>2 DEF IInv, TypeOK, Dims
<1>4. CountInv'
  <2>1. scopes > 0 => dimension_count >= Len(shape)
    BY <1>1, <1>2 DEF CountInv
  <2> QED
    BY <1>1, <1>2, <2>1 DEF CountInv, Inside
<1>5. DimsInv'
  BY <1>1, <1>2 DEF IInv, DimsInv, Dims
<1>6. MemoryInv'
  BY <1>1 DEF MemoryInv
<1>7. IndexInv'
  BY <1>1 DEF IInv, IndexInv, Accessing
<1>8. WroteInv'
  <2>1. wrote' = <<>>
    BY <1>1 DEF IInv, WroteInv
  <2> QED
    BY <2>1 DEF WroteInv
<1>9. ErrorsJustified' /\ AccessInMemory'
  BY <1>1 DEF ErrorsJustified, AccessInMemory
<1> QED
  BY <1>3, <1>4, <1>5, <1>6, <1>7, <1>8, <1>9 DEF IInv

(* A dimension is added.                                                   *)
LEMMA GrowIInv ==
  ASSUME IInv, Grow
  PROVE  IInv'
<1> DEFINE n == shape[grown + 1]
           c == dimension_count
           x == FirstFree
<1>1. /\ phase = "dims" /\ status = "running" /\ grown < Len(shape)
      /\ DOMAIN memory' = 0 .. n * Product(dimensions, x) - 1
      /\ dimensions' = [dimensions EXCEPT ![x] = n]
      /\ dimension_count' = c + 1 /\ grown' = grown + 1
      /\ UNCHANGED <<shape, regidx, phase, want, wrote, scopes, status>>
  BY DEF Grow, At
<1>2. /\ Len(shape) \in Nat /\ Len(shape) < MaxDims /\ MaxDims \in Nat /\ Len(shape) > 0
      /\ grown \in Nat /\ grown <= Len(shape) /\ c \in Nat /\ scopes \in Nat
      /\ dimensions \in [Dims -> Nat] /\ Dims = 0 .. MaxDims - 1
      /\ TypeOK /\ CountInv /\ DimsInv /\ MemoryInv
  BY <1>1, ShapeFacts DEF IInv, TypeOK, Dims
<1>3. n \in Nat \ {0}
  <2>1. grown \in 0 .. Len(shape) - 1
    BY <1>1, <1>2
  <2> QED
    BY <1>2, <2>1, ShapeFacts
<1> HIDE DEF n, x, c
<1>4. /\ x \in 0 .. MaxDims - 2
      /\ c < MaxDims - 1 => x = c
      /\ c >= MaxDims - 1 => x = MaxDims - 2
  BY <1>2, FirstFreeIs DEF x, c
<1>5. /\ dimensions' \in [Dims -> Nat] /\ x \in Dims /\ dimensions'[x] = n
      /\ \A d \in Dims : d # x => dimensions'[d] = dimensions[d]
  BY <1>1, <1>2, <1>3, <1>4
<1>6. TypeOK'
  <2>1. grown' \in 0 .. Len(shape) /\ dimension_count' \in Nat
    BY <1>1, <1>2
  <2> QED
    BY <1>1, <1>2, <1>5, <2>1 DEF TypeOK, Dims
<1>7. scopes > 0
  BY <1>1, <1>2 DEF CountInv
<1>8. CountInv'
  BY <1>1, <1>2, <1>7 DEF CountInv, Inside, c
<1>9. DimsInv'
  <2>1. ASSUME NEW d \in Dims
        PROVE  dimensions'[d] > 0 <=> d < c + 1 /\ d < MaxDims - 1
    <3>1. dimensions[d] > 0 <=> d < c /\ d < MaxDims - 1
      BY <1>2 DEF DimsInv, c
    <3>2. CASE d = x
      BY <1>2, <1>3, <1>4, <1>5, <3>2
    <3>3. CASE d # x
      BY <1>2, <1>4, <1>5, <3>1, <3>3
    <3> QED
      BY <3>2, <3>3
  <2>2. ASSUME scopes = 1, NEW d \in 0 .. grown
        PROVE  dimensions'[d] = shape[d + 1]
    <3>1. c = grown /\ c < MaxDims - 1 /\ x = grown
      BY <1>1, <1>2, <1>4, <2>2 DEF CountInv, c
    <3>2. CASE d = grown
      BY <1>5, <3>1, <3>2 DEF n
    <3>3. CASE d < grown
      <4>1. dimensions[d] = shape[d + 1]
        BY <1>2, <2>2, <3>3 DEF DimsInv
      <4>2. d \in Dims /\ d # x
        BY <1>2, <3>1, <3>3
      <4> QED
        BY <1>5, <4>1, <4>2
    <3> QED
      BY <1>2, <3>2, <3>3
  <2>3. \A d \in 0 .. (grown + 1) - 1 : d \in 0 .. grown
    BY <1>2
  <2> QED
    BY <1>1, <2>1, <2>2, <2>3 DEF DimsInv, Dims, c
<1>10. MemoryInv'
  <2> SUFFICES ASSUME (scopes = 1 \/ c + 1 < MaxDims - 1)
               PROVE  DOMAIN memory' = 0 .. Product(dimensions', c + 1) - 1
    BY <1>1, <1>2 DEF MemoryInv, c
  <2>1. c < MaxDims - 1 /\ x = c
    BY <1>1, <1>2, <1>4 DEF CountInv, c
  <2>2. Product(dimensions', c + 1) = Product(dimensions', c) * dimensions'[c]
    BY <1>2, ProductStep
  <2>3. Product(dimensions', c) = Product(dimensions, c)
    <3>1. \A i \in 0 .. c - 1 : dimensions'[i] = dimensions[i]
      BY <1>2, <1>5, <2>1
    <3> QED
      BY ONLY <1>2, <3>1, ProductSame
  <2>4. Product(dimensions, c) \in Nat
    <3>1. \A i \in 0 .. c - 1 : dimensions[i] \in Nat \ {0}
      <4> SUFFICES ASSUME NEW i \in 0 .. c - 1
                   PROVE  dimensions[i] \in Nat \ {0}
        OBVIOUS
      <4>1. i \in Dims /\ i < c /\ i < MaxDims - 1
        BY <1>2, <2>1
      <4> QED
        BY <1>2, <4>1 DEF DimsInv, c
    <3>2. c \in 0 .. c
      BY <1>2
    <3>3. \A k \in 0 .. c : Product(dimensions, k) \in Nat \ {0}
      BY ONLY <1>2, <3>1, ProductPositive
    <3> QED
      BY <3>2, <3>3
  <2> QED
    BY <1>1, <1>3, <1>5, <2>1, <2>2, <2>3, <2>4
<1>11. IndexInv'
  BY <1>1 DEF IInv, IndexInv, Accessing
<1>12. WroteInv'
  <2>1. wrote' = <<>>
    BY <1>1 DEF IInv, WroteInv
  <2> QED
    BY <2>1 DEF WroteInv
<1>13. ErrorsJustified' /\ AccessInMemory'
  BY <1>1 DEF ErrorsJustified, AccessInMemory
<1> QED
  BY <1>6, <1>8, <1>9, <1>10, <1>11, <1>12, <1>13 DEF IInv

(* Steps of the program that leave the array alone.                        *)
LEMMA QuietIInv ==
  ASSUME IInv, UNCHANGED <<shape, dimensions, dimension_count, memory, grown, wrote, scopes>>,
         status = "running", status' = "running",
         phase' \in {"in", "index", "operand"}, phase # "out",
         phase = "dims" => grown = Len(shape) /\ phase' = "in",
         regidx' \in [Dims -> Int], want' \in Seq(Int), Len(want') <= Len(shape) + 1,
         IndexInv'
  PROVE  IInv'
<1>1. TypeOK'
  BY DEF IInv, TypeOK, Dims
<1>2. CountInv'
  BY DEF IInv, TypeOK, CountInv, Inside
<1>3. DimsInv' /\ MemoryInv'
  BY DEF IInv, DimsInv, MemoryInv, Dims
<1>4. WroteInv'
  <2>1. CASE phase = "dims"
    <3>1. wrote' = <<>>
      BY <2>1 DEF IInv, WroteInv
    <3> QED
      BY <3>1 DEF WroteInv
  <2>2. CASE phase # "dims"
    BY <2>2 DEF IInv, WroteInv, Regular, InShape, Tuple
  <2> QED
    BY <2>1, <2>2
<1>5. ErrorsJustified' /\ AccessInMemory'
  BY DEF ErrorsJustified, AccessInMemory
<1> QED
  BY <1>1, <1>2, <1>3, <1>4, <1>5 DEF IInv

(* All dimensions are there.                                               *)
LEMMA DeclaredIInv ==
  ASSUME IInv, Declared
  PROVE  IInv'
<1>1. /\ phase = "dims" /\ status = "running" /\ grown = Len(shape) /\ phase' = "in"
      /\ UNCHANGED <<shape, dimensions, dimension_count, memory, regidx, grown,
                     want, wrote, scopes, status>>
  BY DEF Declared, At
<1>2. IndexInv'
  BY <1>1 DEF IInv, IndexInv, Accessing
<1> QED
  BY <1>1, <1>2, QuietIInv DEF IInv, TypeOK

(* An access begins, without indices.                                      *)
LEMMA StartAccessIInv ==
  ASSUME IInv, StartAccess
  PROVE  IInv'
<1>1. /\ phase = "in" /\ status = "running" /\ phase' = "index" /\ want' = <<>>
      /\ UNCHANGED <<shape, dimensions, dimension_count, memory, regidx, grown,
                     wrote, scopes, status>>
  BY DEF StartAccess, At
<1>2. want' \in Seq(Int) /\ Len(want') = 0 /\ Len(shape) \in Nat
  BY <1>1, ShapeFacts DEF IInv
<1>3. IndexInv'
  BY <1>1, <1>2 DEF IndexInv, Accessing
<1> QED
  BY <1>1, <1>2, <1>3, QuietIInv DEF IInv, TypeOK

(* An index is evaluated, from a register or a cell of another array.      *)
LEMMA IndexIInv ==
  ASSUME IInv, NEW n \in Indices, Index(n) \/ IndexFromArray(n)
  PROVE  IInv'
<1> DEFINE u == Len(want)
<1>1. /\ phase = "index" /\ status = "running" /\ u <= Len(shape) /\ want' = Append(want, n)
      /\ phase' = "index" /\ status' = "running"
      /\ UNCHANGED <<shape, dimensions, dimension_count, memory, grown, wrote, scopes>>
  BY DEF Index, IndexFromArray, MoreIndices, At
<1>2. /\ Len(shape) \in Nat /\ Len(shape) < MaxDims /\ MaxDims \in Nat
      /\ want \in Seq(Int) /\ u \in Nat /\ n \in Int /\ regidx \in [Dims -> Int]
      /\ IndexInv
  BY ShapeFacts, ShapesAssumption, LenProperties DEF IInv, TypeOK
<1>3. /\ want' \in Seq(Int) /\ Len(want') = u + 1 /\ want'[u + 1] = n
      /\ \A i \in 1 .. u : want'[i] = want[i]
  BY <1>1, <1>2, AppendProperties
<1>4. u \in Dims
  BY <1>1, <1>2 DEF Dims
<1>5. \/ regidx' = [regidx EXCEPT ![u] = n]
      \/ /\ regidx' = [[d \in Dims |-> 0] EXCEPT ![u] = n]
         /\ Nested[shape] # {}
  BY DEF Index, IndexFromArray
<1>6. regidx' \in [Dims -> Int] /\ regidx'[u] = n
  BY <1>2, <1>4, <1>5
<1>7. \A i \in Dims : i # u => \/ regidx'[i] = regidx[i]
                               \/ regidx'[i] = 0 /\ Nested[shape] # {}
  BY <1>2, <1>4, <1>5
<1> HIDE DEF u
<1>8. IndexInv'
  <2>1. ASSUME NEW i \in 0 .. u
        PROVE  regidx'[i] = want'[i + 1] \/ (regidx'[i] = 0 /\ Nested[shape] # {})
    <3>1. CASE i = u
      BY <1>3, <1>6, <3>1
    <3>2. CASE i # u
      <4>1. i \in 0 .. u - 1 /\ i + 1 \in 1 .. u /\ i \in Dims
        BY <1>1, <1>2, <3>2 DEF Dims, u
      <4>2. regidx[i] = want[i + 1] \/ (regidx[i] = 0 /\ Nested[shape] # {})
        BY <1>1, <1>2, <4>1 DEF IndexInv, Accessing, u
      <4> QED
        BY <1>3, <1>7, <3>2, <4>1, <4>2
    <3> QED
      BY <3>1, <3>2
  <2>2. \A i \in 0 .. Len(want') - 1 : i \in 0 .. u
    BY <1>2, <1>3
  <2> QED
    BY <1>1, <2>1, <2>2 DEF IndexInv
<1>9. Len(want') <= Len(shape) + 1
  BY <1>1, <1>2, <1>3 DEF u
<1> QED
  BY <1>1, <1>3, <1>6, <1>8, <1>9, QuietIInv

(* The operand is a cell of another array: all index registers are zero.   *)
LEMMA OperandIInv ==
  ASSUME IInv, OperandFromArray
  PROVE  IInv'
<1>1. /\ phase = "index" /\ status = "running" /\ phase' = "operand"
      /\ "operand" \in Nested[shape] /\ regidx' = [d \in Dims |-> 0]
      /\ UNCHANGED <<shape, dimensions, dimension_count, memory, grown,
                     want, wrote, scopes, status>>
  BY DEF OperandFromArray, At
<1>2. /\ Len(shape) \in Nat /\ Len(shape) < MaxDims /\ MaxDims \in Nat
      /\ want \in Seq(Int) /\ Len(want) \in Nat /\ Len(want) <= Len(shape) + 1
  BY ShapeFacts, LenProperties DEF IInv, TypeOK
<1>3. regidx' \in [Dims -> Int]
  BY <1>1
<1>4. \A i \in 0 .. Len(want) - 1 : regidx'[i] = 0
  <2>1. \A i \in 0 .. Len(want) - 1 : i \in Dims
    BY <1>2 DEF Dims
  <2> QED
    BY <1>1, <2>1
<1>5. IndexInv'
  BY <1>1, <1>4 DEF IndexInv
<1> QED
  BY <1>1, <1>2, <1>3, <1>5, QuietIInv

(* The scope is left: the memory goes, the dimensions stay.                *)
LEMMA LeaveScopeIInv ==
  ASSUME IInv, LeaveScope
  PROVE  IInv'
<1>1. /\ phase = "in" /\ status = "running" /\ phase' = "out" /\ wrote' = <<>>
      /\ UNCHANGED <<shape, dimensions, dimension_count, regidx, grown, want, scopes, status>>
  BY DEF LeaveScope, At
<1>2. TypeOK'
  BY <1>1 DEF IInv, TypeOK, Dims
<1>3. CountInv'
  BY <1>1 DEF IInv, CountInv, Inside
<1>4. DimsInv'
  BY <1>1 DEF IInv, DimsInv, Dims
<1>5. MemoryInv' /\ IndexInv'
  BY <1>1 DEF IInv, MemoryInv, IndexInv, Accessing
<1>6. WroteInv'
  BY <1>1 DEF WroteInv
<1>7. ErrorsJustified' /\ AccessInMemory'
  BY <1>1 DEF ErrorsJustified, AccessInMemory
<1> QED
  BY <1>2, <1>3, <1>4, <1>5, <1>6, <1>7 DEF IInv

(* An access is refused, or goes wrong: only the status changes.           *)
LEMMA StatusIInv ==
  ASSUME IInv,
         UNCHANGED <<shape, dimensions, dimension_count, memory, regidx, phase,
                     grown, want, wrote, scopes>>,
         status' \in {"running", "count", "range", "wild"},
         ErrorsJustified', AccessInMemory'
  PROVE  IInv'
<1>1. TypeOK'
  BY DEF IInv, TypeOK, Dims
<1>2. CountInv'
  BY DEF IInv, CountInv, Inside
<1>3. DimsInv'
  BY DEF IInv, DimsInv, Dims
<1>4. MemoryInv'
  BY DEF IInv, MemoryInv
<1>5. IndexInv'
  BY DEF IInv, IndexInv, Accessing
<1>6. WroteInv'
  BY DEF IInv, WroteInv, Regular, InShape, Tuple
<1> QED
  BY <1>1, <1>2, <1>3, <1>4, <1>5, <1>6 DEF IInv

(* An access is refused: a wrong number of indices, or an index register   *)
(* out of range.                                                           *)
LEMMA AccessFailsIInv ==
  ASSUME IInv, AccessFails
  PROVE  IInv'
<1>1. /\ Indexed /\ ~Deliverable
      /\ status' = IF Len(want) # dimension_count THEN "count" ELSE "range"
      /\ UNCHANGED <<shape, dimensions, dimension_count, memory, regidx, phase,
                     grown, want, wrote, scopes>>
  BY DEF AccessFails
<1>2. Accessing /\ Inside /\ want # <<>>
  BY <1>1 DEF Indexed, At, Accessing, Inside
<1>3. /\ Len(shape) \in Nat /\ Len(shape) < MaxDims /\ MaxDims \in Nat
      /\ \A i \in 0 .. Len(shape) - 1 : shape[i + 1] \in Nat \ {0}
      /\ want \in Seq(Int) /\ Len(want) \in Nat /\ Len(want) > 0
  BY <1>2, ShapeFacts, LenProperties, EmptySeq DEF IInv, TypeOK
<1>4. ASSUME Len(want) = dimension_count, InShape(want)
      PROVE  FALSE
  <2>1. Len(want) = Len(shape)
    BY <1>4 DEF InShape
  <2>2. scopes = 1 /\ grown = Len(shape)
    BY <1>2, <1>3, <1>4, <2>1 DEF IInv, TypeOK, CountInv, Inside
  <2>3. PICK i \in 0 .. Len(want) - 1 : regidx[i] < 0 \/ regidx[i] >= dimensions[i]
    BY <1>1, <1>4 DEF Deliverable, OutOfRange
  <2>4. dimensions[i] = shape[i + 1] /\ shape[i + 1] \in Nat \ {0}
    BY <1>3, <2>1, <2>2 DEF IInv, DimsInv
  <2>5. i + 1 \in 1 .. Len(shape)
    BY <1>3, <2>1
  <2>6. want[i + 1] \in 0 .. shape[i + 1] - 1
    BY <1>4, <2>5 DEF InShape
  <2>7. regidx[i] = want[i + 1] \/ regidx[i] = 0
    BY <1>2 DEF IInv, IndexInv
  <2> QED
    BY <2>3, <2>4, <2>6, <2>7
<1>5. ASSUME Regular, Len(want) # dimension_count, InShape(want)
      PROVE  FALSE
  BY <1>2, <1>5, RegularFacts DEF InShape
<1>6. ErrorsJustified'
  BY <1>1, <1>4, <1>5 DEF ErrorsJustified, Regular, InShape
<1>7. AccessInMemory' /\ status' \in {"running", "count", "range", "wild"}
  BY <1>1 DEF AccessInMemory
<1> QED
  BY <1>1, <1>6, <1>7, StatusIInv

(* An access outside of the memory: not to a regular array.                *)
LEMMA AccessOutsideIInv ==
  ASSUME IInv, AccessOutside
  PROVE  IInv'
<1>1. /\ Indexed /\ Deliverable /\ Flat \notin DOMAIN memory /\ status' = "wild"
      /\ UNCHANGED <<shape, dimensions, dimension_count, memory, regidx, phase,
                     grown, want, wrote, scopes>>
  BY DEF AccessOutside
<1>2. Inside
  BY <1>1 DEF Indexed, At, Inside
<1>3. ~Regular
  <2> SUFFICES ASSUME Regular
               PROVE  FALSE
    OBVIOUS
  <2> DEFINE u == Len(shape)
  <2>1. InRange(regidx, dimensions, u) /\ Len(want) = u
    BY <1>1, AccessFacts
  <2>2. RegularDims(dimensions, u) /\ DOMAIN memory = 0 .. Product(dimensions, u) - 1
    BY <1>2, RegularFacts
  <2>3. u \in Nat
    BY ShapeFacts DEF IInv
  <2> HIDE DEF u
  <2>4. FlatIndex(regidx, dimensions, u) \in 0 .. Product(dimensions, u) - 1
    BY <2>1, <2>2, <2>3, FlatInMemory
  <2> QED
    BY <1>1, <2>1, <2>2, <2>4 DEF Flat
<1>4. ErrorsJustified'
  BY <1>1 DEF ErrorsJustified
<1>5. AccessInMemory'
  BY <1>1, <1>3 DEF AccessInMemory, Regular
<1> QED
  BY <1>1, <1>4, <1>5, StatusIInv

(* A cell is written.  The cells of all other tuples stay.                 *)
LEMMA WriteIInv ==
  ASSUME IInv, NEW x \in Values, Write(x)
  PROVE  IInv'
<1>1. /\ Indexed /\ Deliverable /\ Flat \in DOMAIN memory
      /\ memory' = [memory EXCEPT ![Flat] = x]
      /\ wrote' = [i \in DOMAIN wrote \cup {want} |-> IF i = want THEN x ELSE wrote[i]]
      /\ regidx' = [d \in Dims |-> 0]
      /\ phase' = "in" /\ want' = <<>>
      /\ UNCHANGED <<shape, dimensions, dimension_count, grown, scopes, status>>
  BY DEF Write
<1>2. Accessing /\ Inside /\ status = "running"
  BY <1>1 DEF Indexed, At, Accessing, Inside
<1>3. Len(shape) \in Nat /\ want \in Seq(Int) /\ DOMAIN memory' = DOMAIN memory
  BY <1>1, ShapeFacts DEF IInv, TypeOK
<1>4. TypeOK'
  <2>1. want' \in Seq(Int) /\ Len(want') = 0 /\ regidx' \in [Dims -> Int]
    BY <1>1
  <2> QED
    BY <1>1, <1>3, <2>1 DEF IInv, TypeOK, Dims
<1>5. CountInv'
  BY <1>1, <1>2 DEF IInv, CountInv, Inside
<1>6. DimsInv'
  BY <1>1 DEF IInv, DimsInv, Dims
<1>7. MemoryInv' /\ IndexInv'
  BY <1>1, <1>2, <1>3 DEF IInv, MemoryInv, IndexInv, Accessing
<1>8. WroteInv'
  <2>1. Regular' <=> Regular
    BY <1>1 DEF Regular
  <2>2. ASSUME Regular, NEW w \in DOMAIN wrote'
        PROVE  /\ w \in Seq(Int) /\ InShape(w)
               /\ memory'[FlatIndex(Tuple(w), dimensions, Len(w))] = wrote'[w]
    <3> DEFINE u == Len(shape)
               f == dimensions
    <3>1. /\ InShape(want) /\ InRange(regidx, f, u) /\ Len(want) = u
          /\ \A i \in 0 .. u - 1 : regidx[i] = want[i + 1]
      BY <1>1, <2>2, AccessFacts
    <3>2. /\ RegularDims(f, u) /\ DOMAIN memory = 0 .. Product(f, u) - 1
          /\ \A i \in 0 .. u - 1 : f[i] = shape[i + 1]
      BY <1>2, <2>2, RegularFacts
    <3> HIDE DEF f
    <3>3. \A v : InShape(v) => InRange(Tuple(v), f, u) /\ Len(v) = u
      <4> SUFFICES ASSUME NEW v, InShape(v)
                   PROVE  InRange(Tuple(v), f, u) /\ Len(v) = u
        OBVIOUS
      <4>1. Len(v) = u /\ \A i \in 1 .. u : v[i] \in 0 .. shape[i] - 1
        BY DEF InShape
      <4>2. ASSUME NEW i \in 0 .. u - 1
            PROVE  Tuple(v)[i] \in 0 .. f[i] - 1
        <5>1. Tuple(v)[i] = v[i + 1] /\ i + 1 \in 1 .. u
          BY <1>3, <4>1 DEF Tuple
        <5> QED
          BY <3>2, <4>1, <5>1
      <4> QED
        BY <4>1, <4>2 DEF InRange
    <3>4. Flat = FlatIndex(Tuple(want), f, u)
      <4>1. \A i \in 0 .. u - 1 : regidx[i] = Tuple(want)[i]
        BY <3>1 DEF Tuple
      <4>2. FlatIndex(regidx, f, u) = FlatIndex(Tuple(want), f, u)
        BY ONLY <1>3, <4>1, FlatSame
      <4> QED
        BY <3>1, <4>2 DEF Flat, f
    <3>5. CASE w = want
      <4>1. memory'[Flat] = x /\ wrote'[want] = x
        BY <1>1
      <4> QED
        BY <1>3, <3>1, <3>4, <3>5, <4>1 DEF f
    <3>6. CASE w # want
      <4>1. w \in DOMAIN wrote /\ wrote'[w] = wrote[w]
        BY <1>1, <3>6
      <4>2. /\ w \in Seq(Int) /\ InShape(w)
            /\ memory[FlatIndex(Tuple(w), f, Len(w))] = wrote[w]
        BY <2>2, <4>1 DEF IInv, WroteInv, f
      <4>3. /\ InRange(Tuple(w), f, u) /\ Len(w) = u
            /\ InRange(Tuple(want), f, u) /\ Len(want) = u
        BY <3>1, <3>3, <4>2
      <4>4. FlatIndex(Tuple(w), f, u) # Flat
        <5> SUFFICES ASSUME FlatIndex(Tuple(w), f, u) = FlatIndex(Tuple(want), f, u)
                     PROVE  FALSE
          BY <3>4
        <5>1. \A i \in 0 .. u - 1 : Tuple(w)[i] = Tuple(want)[i]
          BY <1>3, <3>2, <4>3, FlatInjective
        <5>2. \A i \in 1 .. u : w[i] = want[i]
          <6> SUFFICES ASSUME NEW i \in 1 .. u
                       PROVE  w[i] = want[i]
            OBVIOUS
          <6> DEFINE j == i - 1
          <6>1. j \in 0 .. u - 1 /\ j + 1 = i
            BY <1>3
          <6> HIDE DEF j
          <6>2. Tuple(w)[j] = w[j + 1] /\ Tuple(want)[j] = want[j + 1]
            BY <4>3, <6>1 DEF Tuple
          <6> QED
            BY <5>1, <6>1, <6>2
        <5>3. w = want
          BY <1>3, <4>2, <4>3, <5>2, SeqEqual
        <5> QED
          BY <3>6, <5>3
      <4>5. FlatIndex(Tuple(w), f, u) \in DOMAIN memory
        BY <1>3, <3>2, <4>3, FlatInMemory
      <4>6. memory'[FlatIndex(Tuple(w), f, u)] = memory[FlatIndex(Tuple(w), f, u)]
        BY <1>1, <4>4, <4>5
      <4> QED
        BY <4>1, <4>2, <4>3, <4>6 DEF f
    <3> QED
      BY <3>5, <3>6
  <2>3. phase' \notin {"out", "dims"}
    BY <1>1
  <2>4. dimensions' = dimensions /\ shape' = shape
    BY <1>1
  <2> QED
    BY <2>1, <2>2, <2>3, <2>4 DEF WroteInv, InShape, Tuple
<1>9. ErrorsJustified' /\ AccessInMemory'
  BY <1>1, <1>2 DEF ErrorsJustified, AccessInMemory
<1> QED
  BY <1>4, <1>5, <1>6, <1>7, <1>8, <1>9 DEF IInv

(* A step that changes nothing.                                            *)
LEMMA StutterIInv ==
  ASSUME IInv, UNCHANGED vars
  PROVE  IInv'
<1>1. UNCHANGED <<shape, dimensions, dimension_count, memory, regidx, phase,
                  grown, want, wrote, scopes, status>>
  BY DEF vars
<1>2. ErrorsJustified' /\ AccessInMemory'
  BY <1>1 DEF IInv, ErrorsJustified, AccessInMemory, Regular, InShape
<1>3. status' \in {"running", "count", "range", "wild"}
  BY <1>1 DEF IInv, TypeOK
<1> QED
  BY <1>1, <1>2, <1>3, StatusIInv

(* Every step keeps the invariant.                                         *)
LEMMA NextIInv == IInv /\ [Next]_vars => IInv'
<1> SUFFICES ASSUME IInv, [Next]_vars
             PROVE  IInv'
  OBVIOUS
<1>1. CASE Define
  BY <1>1, DefineIInv
<1>2. CASE Grow
  BY <1>2, GrowIInv
<1>3. CASE Declared
  BY <1>3, DeclaredIInv
<1>4. CASE LeaveScope
  BY <1>4, LeaveScopeIInv
<1>5. CASE StartAccess
  BY <1>5, StartAccessIInv
<1>6. CASE \E n \in Indices : Index(n) \/ IndexFromArray(n)
  BY <1>6, IndexIInv
<1>7. CASE OperandFromArray
  BY <1>7, OperandIInv
<1>8. CASE AccessFails
  BY <1>8, AccessFailsIInv
<1>9. CASE \E x \in Values : Write(x)
  BY <1>9, WriteIInv
<1>10. CASE AccessOutside
  BY <1>10, AccessOutsideIInv
<1>11. CASE UNCHANGED vars
  BY <1>11, StutterIInv
<1> QED
  BY <1>1, <1>2, <1>3, <1>4, <1>5, <1>6, <1>7, <1>8, <1>9, <1>10, <1>11 DEF Next

(* The inductive invariant holds for all shapes, values, indices and       *)
(* numbers of dimensions, scopes and writes.                               *)
THEOREM Invariance == Spec => []IInv
<1>1. Init => IInv
  BY InitIInv
<1>2. IInv /\ [Next]_vars => IInv'
  BY NextIInv
<1> QED
  BY <1>1, <1>2, PTL DEF Spec

-----------------------------------------------------------------------------
(* What follows from it.                                                   *)

(* The number of dimensions, the zero that ends them and the size of the   *)
(* memory agree (call_intern.c:50).                                        *)
THEOREM DimensionsKeepCount == Spec => []DimensionsAgree
<1>1. IInv => DimensionsAgree
  <2> SUFFICES ASSUME IInv, phase # "out", grown > 0, dimension_count < MaxDims - 1
               PROVE  /\ dimension_count = FirstFree
                      /\ DOMAIN memory = 0 .. Product(dimensions, FirstFree) - 1
    BY DEF DimensionsAgree
  <2>1. Len(shape) \in Nat /\ grown \in 0 .. Len(shape)
    BY ShapeFacts DEF IInv, TypeOK
  <2>2. Len(shape) > 0 /\ grown # 0
    BY <2>1
  <2>3. FirstFree = dimension_count
    BY <2>2, FirstFreeIs DEF IInv
  <2>4. DOMAIN memory = IF grown = 0 THEN {0} ELSE 0 .. Product(dimensions, dimension_count) - 1
    BY DEF IInv, MemoryInv
  <2> QED
    BY <2>2, <2>3, <2>4
<1> QED
  BY <1>1, Invariance, PTL

(* An index out of range is reported only when the program computed one,   *)
(* and a regular array refuses no good access (nbci_impl.c:1179).          *)
THEOREM RefusalsAreJustified == Spec => []ErrorsJustified
<1>1. IInv => ErrorsJustified
  BY DEF IInv
<1> QED
  BY <1>1, Invariance, PTL

(* An access to a regular array stays in its memory (nbci_impl.c:1168).    *)
THEOREM AccessesStayInside == Spec => []AccessInMemory
<1>1. IInv => AccessInMemory
  BY DEF IInv
<1> QED
  BY <1>1, Invariance, PTL

(* A regular array keeps in every cell what was written there              *)
(* (nbci_impl.c:1229).                                                     *)
THEOREM CellsKeepValues == Spec => []CellsAreDistinct
<1>1. IInv => CellsAreDistinct
  <2> SUFFICES ASSUME IInv, Regular, NEW w \in DOMAIN wrote
               PROVE  memory[FlatIndex([k \in 0 .. Len(w) - 1 |-> w[k + 1]], dimensions, Len(w))]
                        = wrote[w]
    BY DEF CellsAreDistinct
  <2> QED
    BY DEF IInv, WroteInv, Tuple
<1> QED
  BY <1>1, Invariance, PTL

(* A write to a regular array has indices of its shape                     *)
(* (nbci_impl.c:1214).                                                     *)
THEOREM WritesAreInShape == Spec => BadIndicesWriteNothing
<1> DEFINE A == Regular /\ DOMAIN wrote' # {} /\ memory' # memory => InShape(want)
<1>1. IInv /\ [Next]_vars => [A]_vars
  <2> SUFFICES ASSUME IInv, Next, Regular, DOMAIN wrote' # {}, memory' # memory
               PROVE  InShape(want)
    OBVIOUS
  <2>1. DOMAIN <<>> = {}
    OBVIOUS
  <2>2. phase \in {"out", "dims"} => DOMAIN wrote = {}
    BY <2>1 DEF IInv, WroteInv
  <2>3. ~Define /\ ~Grow
    BY <2>2 DEF Define, Grow, At
  <2>4. ~LeaveScope
    BY <2>1 DEF LeaveScope
  <2>5. /\ ~Declared /\ ~StartAccess /\ ~OperandFromArray /\ ~AccessFails /\ ~AccessOutside
        /\ \A n \in Indices : ~Index(n) /\ ~IndexFromArray(n)
    BY DEF Declared, StartAccess, OperandFromArray, AccessFails, AccessOutside, Index, IndexFromArray
  <2>6. PICK x \in Values : Write(x)
    BY <2>3, <2>4, <2>5 DEF Next
  <2>7. Indexed /\ Deliverable
    BY <2>6 DEF Write
  <2> QED
    BY <2>7, AccessFacts
<1>2. [][Next]_vars /\ []IInv => [][A]_vars
  BY <1>1, PTL
<1> QED
  BY <1>2, Invariance, PTL DEF Spec, BadIndicesWriteNothing
=============================================================================
