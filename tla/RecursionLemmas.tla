--------------------------- MODULE RecursionLemmas ---------------------------
(***************************************************************************)
(* Induction and recursion on numbers, stated with sets and functions, so  *)
(* that they can be cited by name for any particular set or function; and  *)
(* what the stores of a list function do to a linked list.                 *)
(***************************************************************************)
EXTENDS Integers, Sequences, WellFoundedInduction, FiniteSetTheorems, TLAPS

\* A set of numbers that has any has a least one.
LEMMA LeastNumber ==
    ASSUME NEW T, T \subseteq Nat, T # {}
    PROVE  \E m \in T : \A k \in T : m <= k
<1> DEFINE R == OpToRel(<, Nat)
<1>1. PICK m \in T : \A k \in T : <<k, m>> \notin R
  <2>1. IsWellFoundedOn(R, Nat)
    BY NatLessThanWellFounded
  <2> HIDE DEF R
  <2> QED BY <2>1, WFMin
<1>2. \A k \in T : ~(k < m)
  BY <1>1 DEF OpToRel
<1> QED BY <1>2

\* A set of numbers with 0, and with the successor of each of its members, has
\* them all.
LEMMA SetInduction ==
    ASSUME NEW S, S \subseteq Nat, 0 \in S, \A n \in S : n + 1 \in S
    PROVE  S = Nat
<1> SUFFICES ASSUME Nat \ S # {} PROVE FALSE
  OBVIOUS
<1>1. PICK m \in Nat \ S : \A k \in Nat \ S : m <= k
  <2> DEFINE T == Nat \ S
  <2>1. T \subseteq Nat /\ T # {}
    OBVIOUS
  <2> HIDE DEF T
  <2>2. \E m \in T : \A k \in T : m <= k
    BY <2>1, LeastNumber
  <2> QED BY <2>2 DEF T
<1>2. m # 0 /\ m - 1 \in Nat /\ m - 1 < m
  OBVIOUS
<1>3. m - 1 \in S
  BY <1>1, <1>2
<1> QED BY <1>2, <1>3

\* g begins with s and goes on by f, up to N.
Follows(g, N, s, f) == g[0] = s /\ \A i \in 1..N : g[i] = f[<<i, g[i - 1]>>]

\* The function of 0..N that begins with s and goes on by f exists.
LEMMA Recursion ==
    ASSUME NEW N \in Nat, NEW S, NEW s \in S, NEW f \in [(1..N) \X S -> S]
    PROVE  \E g \in [0..N -> S] : Follows(g, N, s, f)
<1> DEFINE Upto(n, g) ==
      g[0] = s /\ \A i \in (1..n) \cap (1..N) : g[i] = f[<<i, g[i - 1]>>]
    Good == {n \in Nat : \E g \in [0..N -> S] : Upto(n, g)}
<1>1. 0 \in Good
  <2>1. [i \in 0..N |-> s] \in [0..N -> S] /\ Upto(0, [i \in 0..N |-> s])
    OBVIOUS
  <2> QED BY <2>1
<1>2. \A n \in Good : n + 1 \in Good
  <2> SUFFICES ASSUME NEW n \in Good PROVE n + 1 \in Good
    OBVIOUS
  <2>1. PICK g \in [0..N -> S] : Upto(n, g)
    OBVIOUS
  <2>2. n \in Nat
    OBVIOUS
  <2>3. CASE n + 1 \notin 1..N
    <3>1. Upto(n + 1, g)
      BY <2>1, <2>2, <2>3
    <3> QED BY <2>2, <3>1
  <2>4. CASE n + 1 \in 1..N
    <3> DEFINE v == f[<<n + 1, g[n]>>]
    <3>1. v \in S
      <4>1. g[n] \in S
        BY <2>2, <2>4
      <4> QED BY <2>4, <4>1
    <3> DEFINE h == [g EXCEPT ![n + 1] = v]
    <3>2. h[n + 1] = v /\ \A i \in 0..N : i # n + 1 => h[i] = g[i]
      BY <2>4
    <3>3. h \in [0..N -> S]
      <4> HIDE DEF v
      <4> QED BY <3>1
    <3>4. h[0] = s
      BY <2>1, <2>2, <3>2
    <3>5. ASSUME NEW i \in (1..(n + 1)) \cap (1..N) PROVE h[i] = f[<<i, h[i - 1]>>]
      <4> HIDE DEF h, v
      <4>1. CASE i = n + 1
        <5>1. h[i - 1] = g[n]
          BY <2>2, <2>4, <3>2, <4>1
        <5> QED BY <3>2, <4>1, <5>1 DEF v
      <4>2. CASE i # n + 1
        <5>1. h[i] = g[i] /\ h[i - 1] = g[i - 1] /\ i \in (1..n) \cap (1..N)
          BY <2>2, <2>4, <3>2, <4>2
        <5> QED BY <2>1, <5>1
      <4> QED BY <4>1, <4>2
    <3>6. Upto(n + 1, h)
      <4> HIDE DEF h
      <4> QED BY <3>4, <3>5
    <3> HIDE DEF h
    <3> QED BY <2>2, <3>3, <3>6
  <2> QED BY <2>3, <2>4
<1>3. Good = Nat
  <2>1. Good \subseteq Nat
    OBVIOUS
  <2> HIDE DEF Good
  <2> QED BY <1>1, <1>2, <2>1, SetInduction
<1> QED BY <1>3 DEF Follows

\* A sequence of values that begins in S and never leaves it stays there.
LEMMA StaysInside ==
    ASSUME NEW N \in Nat, NEW S, NEW g, g[0] \in S,
           \A i \in 1..N : g[i - 1] \in S => g[i] \in S
    PROVE  \A i \in 0..N : g[i] \in S
<1> DEFINE Good == {i \in Nat : i \in 0..N => g[i] \in S}
<1>1. 0 \in Good
  OBVIOUS
<1>2. ASSUME NEW n \in Good PROVE n + 1 \in Good
  <2>1. CASE n + 1 \in 1..N
    <3>1. n \in Nat /\ n \in 0..N /\ (n + 1) - 1 = n
      BY <2>1
    <3> QED BY <2>1, <3>1
  <2>2. CASE n + 1 \notin 1..N
    BY <2>2
  <2> QED BY <2>1, <2>2
<1>3. Good = Nat
  <2>1. Good \subseteq Nat
    OBVIOUS
  <2> HIDE DEF Good
  <2> QED BY <1>1, <1>2, <2>1, SetInduction
<1> QED BY <1>3

-----------------------------------------------------------------------------
(***************************************************************************)
(* Linked lists: what the pointers f lead to from the pointer h.           *)
(***************************************************************************)
In(y, q) == \E i \in 1..Len(q) : q[i] = y

Distinct(q) == \A i, j \in 1..Len(q) : q[i] = q[j] => i = j

\* The i-th node, or the null behind the last.
ItemOr(q, i, null) == IF i \in 1..Len(q) THEN q[i] ELSE null

\* From h the pointers f lead along q, nodes of N, and to null.
Leads(q, h, f, N, null) ==
    /\ q \in Seq(N) /\ Distinct(q)
    /\ h = ItemOr(q, 1, null)
    /\ \A i \in 1..Len(q) : f[q[i]] = ItemOr(q, i + 1, null)

Without(q, m) == SubSeq(q, 1, m - 1) \o SubSeq(q, m + 1, Len(q))

LEMMA AppendGives ==
    ASSUME NEW N, NEW q \in Seq(N), NEW y \in N
    PROVE  LET r == Append(q, y) IN
           /\ r \in Seq(N) /\ Len(r) = Len(q) + 1 /\ Len(q) \in Nat /\ r # <<>>
           /\ r[Len(q) + 1] = y /\ \A i \in 1..Len(q) : r[i] = q[i]
           /\ \A i \in 1..Len(r) : i \in 1..Len(q) \/ i = Len(q) + 1
           /\ \A x : In(x, r) <=> In(x, q) \/ x = y
<1> DEFINE r == Append(q, y)
<1>1. /\ r \in Seq(N) /\ Len(r) = Len(q) + 1 /\ Len(q) \in Nat
      /\ r[Len(q) + 1] = y /\ \A i \in 1..Len(q) : r[i] = q[i]
  OBVIOUS
<1> HIDE DEF r
<1>2. \A i \in 1..Len(r) : i \in 1..Len(q) \/ i = Len(q) + 1
  BY <1>1
<1>3. \A i \in 1..Len(q) : i \in 1..Len(r)
  BY <1>1
<1>4. Len(q) + 1 \in 1..Len(r)
  BY <1>1
<1>5. \A x : In(x, r) <=> In(x, q) \/ x = y
  BY <1>1, <1>2, <1>3, <1>4 DEF In
<1>6. r # <<>>
  BY <1>1
<1> QED BY <1>1, <1>2, <1>5, <1>6 DEF r

LEMMA RemoveGives ==
    ASSUME NEW N, NEW q \in Seq(N), NEW m \in 1..Len(q)
    PROVE  LET r == Without(q, m) IN
           /\ r \in Seq(N) /\ Len(r) = Len(q) - 1 /\ Len(q) \in Nat /\ Len(r) \in Nat
           /\ \A i \in 1..Len(r) : r[i] = IF i < m THEN q[i] ELSE q[i + 1]
<1> DEFINE a == SubSeq(q, 1, m - 1)
           b == SubSeq(q, m + 1, Len(q))
           r == a \o b
<1>1. Len(q) \in Nat /\ m \in Nat /\ m >= 1 /\ m <= Len(q)
  OBVIOUS
<1>2. /\ a \in Seq(N) /\ Len(a) = m - 1 /\ \A i \in 1..(m - 1) : a[i] = q[i]
      /\ b \in Seq(N) /\ Len(b) = Len(q) - m
      /\ \A i \in 1..(Len(q) - m) : b[i] = q[m + i]
  <2>1. m - 1 \in Nat /\ m - 1 <= Len(q) /\ m + 1 \in Nat
    BY <1>1
  <2>2. a \in Seq(N) /\ Len(a) = m - 1 /\ \A i \in 1..(m - 1) : a[i] = q[i]
    BY <1>1, <2>1
  <2>3. b \in Seq(N) /\ Len(b) = Len(q) - m
    BY <1>1, <2>1
  <2>4. ASSUME NEW i \in 1..(Len(q) - m) PROVE b[i] = q[m + i]
    <3>1. b[i] = q[(m + 1) + i - 1]
      BY <1>1, <2>1
    <3>2. (m + 1) + i - 1 = m + i
      BY <1>1
    <3> QED BY <3>1, <3>2
  <2> QED BY <2>2, <2>3, <2>4
<1> HIDE DEF a, b
<1>3. /\ r \in Seq(N) /\ Len(r) = Len(a) + Len(b)
      /\ \A i \in 1..Len(a) : r[i] = a[i]
      /\ \A i \in Len(a) + 1 .. Len(a) + Len(b) : r[i] = b[i - Len(a)]
  <2>1. \A x, y \in Seq(N) :
           /\ x \o y \in Seq(N) /\ Len(x \o y) = Len(x) + Len(y)
           /\ \A j \in 1..Len(x) : (x \o y)[j] = x[j]
           /\ \A j \in Len(x) + 1 .. Len(x) + Len(y) : (x \o y)[j] = y[j - Len(x)]
    OBVIOUS
  <2> QED BY <1>2, <2>1
<1> HIDE DEF r
<1>4. Len(r) = Len(q) - 1 /\ Len(r) \in Nat
  BY <1>1, <1>2, <1>3
<1>5. ASSUME NEW i \in 1..Len(r) PROVE r[i] = IF i < m THEN q[i] ELSE q[i + 1]
  <2>1. CASE i < m
    <3>1. i \in 1..(m - 1)
      BY <1>1, <1>4, <2>1
    <3> QED BY <1>2, <1>3, <2>1, <3>1
  <2>2. CASE ~(i < m)
    <3>1. /\ i \in Len(a) + 1 .. Len(a) + Len(b) /\ i - Len(a) \in 1..(Len(q) - m)
          /\ m + (i - Len(a)) = i + 1
      BY <1>1, <1>2, <1>4, <2>2
    <3>2. r[i] = q[m + (i - Len(a))]
      BY <1>2, <1>3, <3>1
    <3> QED BY <2>2, <3>1, <3>2
  <2> QED BY <2>1, <2>2
<1>6. r = Without(q, m)
  BY DEF Without, r, a, b
<1> QED BY <1>1, <1>3, <1>4, <1>5, <1>6

\* The others are still there.
LEMMA RemoveHas ==
    ASSUME NEW N, NEW q \in Seq(N), Distinct(q), NEW m \in 1..Len(q), NEW x
    PROVE  In(x, Without(q, m)) <=> In(x, q) /\ x # q[m]
<1> DEFINE r == Without(q, m)
<1>1. Len(q) \in Nat /\ m \in Nat /\ m >= 1 /\ m <= Len(q)
  OBVIOUS
<1>2. /\ Len(r) = Len(q) - 1 /\ Len(r) \in Nat
      /\ \A i \in 1..Len(r) : r[i] = IF i < m THEN q[i] ELSE q[i + 1]
  BY RemoveGives
<1> HIDE DEF r
<1>3. ASSUME NEW i \in 1..Len(r) PROVE \E j \in 1..Len(q) : j # m /\ r[i] = q[j]
  <2>1. i \in 1..Len(q) /\ i + 1 \in 1..Len(q)
    BY <1>1, <1>2
  <2>2. CASE i < m
    BY <1>1, <1>2, <2>1, <2>2
  <2>3. CASE ~(i < m)
    <3>1. i + 1 # m
      BY <1>1, <2>3
    <3> QED BY <1>2, <2>1, <2>3, <3>1
  <2> QED BY <2>2, <2>3
<1>4. ASSUME NEW j \in 1..Len(q), j # m PROVE \E i \in 1..Len(r) : r[i] = q[j]
  <2>1. CASE j < m
    <3>1. j \in 1..Len(r)
      BY <1>1, <1>2, <2>1
    <3> QED BY <1>2, <2>1, <3>1
  <2>2. CASE ~(j < m)
    <3>1. j - 1 \in 1..Len(r) /\ ~(j - 1 < m) /\ (j - 1) + 1 = j
      BY <1>1, <1>2, <1>4, <2>2
    <3>2. r[j - 1] = q[j]
      BY <1>2, <3>1
    <3> QED BY <3>1, <3>2
  <2> QED BY <2>1, <2>2
<1>5. In(x, r) => In(x, q) /\ x # q[m]
  BY <1>3 DEF In, Distinct
<1>6. In(x, q) /\ x # q[m] => In(x, r)
  BY <1>4 DEF In
<1> QED BY <1>5, <1>6 DEF r

\* No list is longer than there are nodes.
LEMMA DistinctShort ==
    ASSUME NEW N, IsFiniteSet(N), NEW q \in Seq(N), Distinct(q)
    PROVE  Len(q) \in Nat /\ Len(q) <= Cardinality(N)
<1>1. Len(q) \in Nat /\ q \in [1..Len(q) -> N]
  OBVIOUS
<1>2. q \in Injection(1..Len(q), N)
  BY <1>1 DEF Distinct, Injection, IsInjective
<1>3. Cardinality(1..Len(q)) <= Cardinality(N)
  BY <1>2, FS_Injection
<1>4. Cardinality(1..Len(q)) = Len(q)
  <2>1. \A m \in Nat : Cardinality(1..m) = m
    BY FS_Interval
  <2> QED BY <1>1, <2>1
<1> QED BY <1>1, <1>3, <1>4

\* A walk along the pointers visits the nodes in their order.
LEMMA LeadsWalk ==
    ASSUME NEW N, NEW null, null \notin N, NEW q, NEW h, NEW f, Leads(q, h, f, N, null),
           NEW n \in Nat, NEW w, w[0] = h,
           \A k \in 1..n : w[k] = IF w[k - 1] = null THEN null ELSE f[w[k - 1]]
    PROVE  \A k \in 0..n : w[k] = ItemOr(q, k + 1, null)
<1> DEFINE T == {k \in Nat : k \in 0..n => w[k] = ItemOr(q, k + 1, null)}
<1>1. q \in Seq(N) /\ Len(q) \in Nat /\ \A k \in 1..Len(q) : q[k] # null
  BY DEF Leads
<1>2. 0 \in T
  BY DEF Leads
<1>3. ASSUME NEW k \in T PROVE k + 1 \in T
  <2>1. CASE k + 1 \in 0..n
    <3>1. /\ k \in 0..n /\ k + 1 \in 1..n /\ (k + 1) - 1 = k
          /\ w[k] = ItemOr(q, k + 1, null)
      BY <2>1
    <3>2. w[k + 1] = IF w[k] = null THEN null ELSE f[w[k]]
      BY <3>1
    <3>3. CASE k + 1 \in 1..Len(q)
      <4>1. w[k] = q[k + 1] /\ w[k] # null /\ f[q[k + 1]] = ItemOr(q, (k + 1) + 1, null)
        BY <1>1, <3>1, <3>3 DEF ItemOr, Leads
      <4> QED BY <3>2, <4>1
    <3>4. CASE k + 1 \notin 1..Len(q)
      <4>1. w[k] = null /\ ItemOr(q, (k + 1) + 1, null) = null
        BY <1>1, <3>1, <3>4 DEF ItemOr
      <4> QED BY <3>2, <4>1
    <3> QED BY <3>3, <3>4
  <2>2. CASE k + 1 \notin 0..n
    BY <2>2
  <2> QED BY <2>1, <2>2
<1>4. T = Nat
  <2>1. T \subseteq Nat
    OBVIOUS
  <2> HIDE DEF T
  <2> QED BY <1>2, <1>3, <2>1, SetInduction
<1> QED BY <1>4

\* The last pointer led to a new node.
LEMMA LeadsAppend ==
    ASSUME NEW N, NEW null, NEW q, NEW h, NEW f, Leads(q, h, f, N, null),
           NEW y \in N, ~In(y, q), NEW h2, NEW g, g[y] = null,
           h2 = IF q = <<>> THEN y ELSE h,
           \A i \in 1..Len(q) : g[q[i]] = IF i = Len(q) THEN y ELSE f[q[i]]
    PROVE  Leads(Append(q, y), h2, g, N, null)
<1> DEFINE r == Append(q, y)
<1>1. q \in Seq(N)
  BY DEF Leads
<1>2. /\ r \in Seq(N) /\ Len(r) = Len(q) + 1 /\ Len(q) \in Nat
      /\ r[Len(q) + 1] = y /\ \A i \in 1..Len(q) : r[i] = q[i]
      /\ \A i \in 1..Len(r) : i \in 1..Len(q) \/ i = Len(q) + 1
  BY <1>1, AppendGives
<1> HIDE DEF r
<1>3. \A i \in 1..Len(q) : q[i] # y
  BY DEF In
<1>4. Distinct(r)
  BY <1>2, <1>3 DEF Leads, Distinct
<1>5. /\ \A i \in 1..Len(r) : ItemOr(r, i, null) = r[i]
      /\ ItemOr(r, Len(r) + 1, null) = null
  BY <1>2 DEF ItemOr
<1>6. h2 = ItemOr(r, 1, null)
  <2>1. CASE q = <<>>
    <3>1. Len(q) = 0
      BY <2>1
    <3> QED BY <1>2, <1>5, <2>1, <3>1
  <2>2. CASE q # <<>>
    <3>1. 1 \in 1..Len(q) /\ 1 \in 1..Len(r)
      BY <1>1, <1>2, <2>2
    <3> QED BY <1>2, <1>5, <2>2, <3>1 DEF Leads, ItemOr
  <2> QED BY <2>1, <2>2
<1>7. ASSUME NEW i \in 1..Len(r) PROVE g[r[i]] = ItemOr(r, i + 1, null)
  <2>1. CASE i = Len(q) + 1
    BY <1>2, <1>5, <2>1
  <2>2. CASE i \in 1..Len(q) /\ i # Len(q)
    <3>1. i + 1 \in 1..Len(q) /\ i + 1 \in 1..Len(r)
      BY <1>2, <2>2
    <3>2. g[q[i]] = f[q[i]] /\ f[q[i]] = q[i + 1]
      BY <2>2, <3>1 DEF Leads, ItemOr
    <3> QED BY <1>2, <1>5, <2>2, <3>1, <3>2
  <2>3. CASE i = Len(q) /\ i \in 1..Len(q)
    <3>1. i + 1 \in 1..Len(r) /\ i + 1 = Len(q) + 1 /\ g[q[i]] = y
      BY <1>2, <2>3
    <3> QED BY <1>2, <1>5, <2>3, <3>1
  <2> QED BY <1>2, <2>1, <2>2, <2>3
<1> QED BY <1>2, <1>4, <1>6, <1>7 DEF Leads, r

\* The pointer to the m-th node led past it, whatever becomes of its own.
LEMMA LeadsRemove ==
    ASSUME NEW N, NEW null, NEW q, NEW h, NEW f, Leads(q, h, f, N, null),
           NEW m \in 1..Len(q), NEW h2, NEW g,
           h2 = IF m = 1 THEN f[q[1]] ELSE h,
           \A i \in 1..Len(q) : i # m =>
               g[q[i]] = IF i = m - 1 THEN f[q[m]] ELSE f[q[i]]
    PROVE  Leads(Without(q, m), h2, g, N, null)
<1> DEFINE r == Without(q, m)
<1>1. q \in Seq(N) /\ Len(q) \in Nat /\ m \in Nat /\ m >= 1 /\ m <= Len(q)
  BY DEF Leads
<1>2. /\ r \in Seq(N) /\ Len(r) = Len(q) - 1 /\ Len(r) \in Nat
      /\ \A i \in 1..Len(r) : r[i] = IF i < m THEN q[i] ELSE q[i + 1]
  BY <1>1, RemoveGives
<1> HIDE DEF r
<1> DEFINE At(i) == IF i < m THEN i ELSE i + 1
<1>3. \A i \in 1..Len(r) : At(i) \in 1..Len(q) /\ At(i) # m /\ r[i] = q[At(i)]
  BY <1>1, <1>2
<1>4. Distinct(r)
  <2>1. ASSUME NEW i \in 1..Len(r), NEW j \in 1..Len(r), r[i] = r[j] PROVE i = j
    <3>1. At(i) = At(j)
      <4>1. /\ At(i) \in 1..Len(q) /\ At(j) \in 1..Len(q)
            /\ q[At(i)] = q[At(j)]
        BY <1>3, <2>1
      <4> HIDE DEF At
      <4> QED BY <4>1 DEF Leads, Distinct
    <3> QED BY <1>1, <3>1
  <2> QED BY <2>1 DEF Distinct
<1>5. \A i \in 1..Len(q) : f[q[i]] = ItemOr(q, i + 1, null)
  BY DEF Leads
<1>6. h2 = ItemOr(r, 1, null)
  <2>1. CASE m = 1
    <3>1. h2 = ItemOr(q, 2, null)
      BY <1>1, <1>5, <2>1
    <3>2. ItemOr(r, 1, null) = ItemOr(q, 2, null)
      BY <1>1, <1>2, <2>1 DEF ItemOr
    <3> QED BY <3>1, <3>2
  <2>2. CASE m # 1
    <3>1. 1 \in 1..Len(q) /\ 1 \in 1..Len(r) /\ 1 < m
      BY <1>1, <1>2, <2>2
    <3>2. h = q[1] /\ r[1] = q[1]
      BY <1>2, <3>1 DEF Leads, ItemOr
    <3> QED BY <2>2, <3>1, <3>2 DEF ItemOr
  <2> QED BY <2>1, <2>2
<1>7. ASSUME NEW i \in 1..Len(r) PROVE g[r[i]] = ItemOr(r, i + 1, null)
  <2>1. i \in Nat /\ i >= 1 /\ i <= Len(q) - 1
    BY <1>2
  <2>2. r[i] = q[At(i)] /\ At(i) \in 1..Len(q) /\ At(i) # m
    BY <1>3
  <2>3. CASE i = m - 1
    <3>1. At(i) = m - 1 /\ m \in 1..Len(q)
      BY <1>1, <2>1, <2>3
    <3>2. g[r[i]] = ItemOr(q, m + 1, null)
      BY <1>5, <2>2, <3>1
    <3>3. ItemOr(r, i + 1, null) = ItemOr(q, m + 1, null)
      BY <1>1, <1>2, <2>1, <2>3 DEF ItemOr
    <3> QED BY <3>2, <3>3
  <2>4. CASE i # m - 1
    <3>1. At(i) # m - 1
      BY <1>1, <2>1, <2>4
    <3>2. g[r[i]] = ItemOr(q, At(i) + 1, null)
      BY <1>5, <2>2, <3>1
    <3>3. ItemOr(r, i + 1, null) = ItemOr(q, At(i) + 1, null)
      BY <1>1, <1>2, <2>1, <2>4 DEF ItemOr
    <3> QED BY <3>2, <3>3
  <2> QED BY <2>3, <2>4
<1> QED BY <1>2, <1>4, <1>6, <1>7 DEF Leads, r

-----------------------------------------------------------------------------
(***************************************************************************)
(* Rows, one behind the other.                                             *)
(***************************************************************************)
LEMMA ConcatGives ==
    ASSUME NEW N, NEW p \in Seq(N), NEW q \in Seq(N)
    PROVE  /\ p \o q \in Seq(N)
           /\ \A x : In(x, p \o q) <=> In(x, p) \/ In(x, q)
           /\ Distinct(p) /\ Distinct(q) /\ (\A x : ~(In(x, p) /\ In(x, q)))
                => Distinct(p \o q)
<1> DEFINE r == p \o q
<1>1. /\ r \in Seq(N) /\ Len(p) \in Nat /\ Len(q) \in Nat /\ Len(r) = Len(p) + Len(q)
      /\ \A i \in 1..Len(p) : r[i] = p[i]
      /\ \A i \in 1..Len(q) : r[Len(p) + i] = q[i]
  OBVIOUS
<1> HIDE DEF r
<1>2. /\ \A i \in 1..Len(p) : i \in 1..Len(r)
      /\ \A i \in 1..Len(q) : Len(p) + i \in 1..Len(r)
  BY <1>1
<1>3. ASSUME NEW i \in 1..Len(r), i \notin 1..Len(p)
      PROVE  \E k \in 1..Len(q) : i = Len(p) + k /\ r[i] = q[k]
  <2>1. i - Len(p) \in 1..Len(q) /\ i = Len(p) + (i - Len(p))
    BY <1>1, <1>3
  <2> QED BY <1>1, <2>1
<1>4. ASSUME NEW x PROVE In(x, r) <=> In(x, p) \/ In(x, q)
  BY <1>1, <1>2, <1>3 DEF In
<1>5. ASSUME Distinct(p), Distinct(q), \A x : ~(In(x, p) /\ In(x, q)),
             NEW i \in 1..Len(r), NEW j \in 1..Len(r), r[i] = r[j]
      PROVE  i = j
  <2>1. CASE i \in 1..Len(p) /\ j \in 1..Len(p)
    BY <1>1, <1>5, <2>1 DEF Distinct
  <2>2. ASSUME NEW k \in 1..Len(p), NEW l \in 1..Len(q), p[k] = q[l] PROVE FALSE
    BY <1>5, <2>2 DEF In
  <2>3. CASE i \in 1..Len(p) /\ j \notin 1..Len(p)
    <3>1. PICK l \in 1..Len(q) : r[j] = q[l]
      BY <1>3, <2>3
    <3> QED BY <1>1, <1>5, <2>2, <2>3, <3>1
  <2>4. CASE i \notin 1..Len(p) /\ j \in 1..Len(p)
    <3>1. PICK l \in 1..Len(q) : r[i] = q[l]
      BY <1>3, <2>4
    <3> QED BY <1>1, <1>5, <2>2, <2>4, <3>1
  <2>5. CASE i \notin 1..Len(p) /\ j \notin 1..Len(p)
    <3>1. PICK k \in 1..Len(q) : i = Len(p) + k /\ r[i] = q[k]
      BY <1>3, <2>5
    <3>2. PICK l \in 1..Len(q) : j = Len(p) + l /\ r[j] = q[l]
      BY <1>3, <2>5
    <3>3. k = l
      BY <1>5, <3>1, <3>2 DEF Distinct
    <3> QED BY <3>1, <3>2, <3>3
  <2> QED BY <2>1, <2>3, <2>4, <2>5
<1> QED BY <1>1, <1>4, <1>5 DEF r, Distinct

\* What is made of rows that have nothing in common repeats nothing, and has
\* what the rows have.
LEMMA RowsGive ==
    ASSUME NEW N, NEW Q \in Seq(Seq(N)), Len(Q) # 0, NEW flat,
           \A i \in 1..Len(Q) : flat[i] = IF i = 1 THEN Q[i] ELSE flat[i - 1] \o Q[i],
           \A i \in 1..Len(Q) : Distinct(Q[i]),
           \A i, j \in 1..Len(Q) : \A x : In(x, Q[i]) /\ In(x, Q[j]) => i = j
    PROVE  /\ flat[Len(Q)] \in Seq(N) /\ Distinct(flat[Len(Q)])
           /\ \A x : In(x, flat[Len(Q)]) <=> \E i \in 1..Len(Q) : In(x, Q[i])
<1> DEFINE Fine(k) == /\ flat[k] \in Seq(N) /\ Distinct(flat[k])
                      /\ \A x : In(x, flat[k]) <=> \E i \in 1..k : In(x, Q[i])
           T == {n \in Nat : n + 1 \in 1..Len(Q) => Fine(n + 1)}
<1>1. Len(Q) \in Nat \ {0} /\ \A i \in 1..Len(Q) : Q[i] \in Seq(N)
  OBVIOUS
<1>2. 0 \in T
  <2>1. flat[1] = Q[1] /\ 1 \in 1..Len(Q) /\ 1..1 = {1}
    BY <1>1
  <2>2. Fine(1)
    BY <1>1, <2>1
  <2> HIDE DEF Fine
  <2>3. 0 + 1 = 1 /\ 0 \in Nat
    OBVIOUS
  <2> QED BY <2>2, <2>3
<1>3. ASSUME NEW n \in T PROVE n + 1 \in T
  <2> SUFFICES ASSUME n + 2 \in 1..Len(Q) PROVE Fine(n + 2)
    <3> HIDE DEF Fine
    <3>1. n \in Nat /\ (n + 1) + 1 = n + 2 /\ n + 1 \in Nat
      OBVIOUS
    <3> QED BY <3>1
  <2>1. /\ n \in Nat /\ n + 1 \in 1..Len(Q) /\ n + 2 # 1 /\ (n + 2) - 1 = n + 1
        /\ 1..(n + 2) = (1..(n + 1)) \cup {n + 2} /\ n + 2 \notin 1..(n + 1)
        /\ 1..(n + 1) \subseteq 1..Len(Q)
    BY <1>1
  <2>2. Fine(n + 1)
    <3> HIDE DEF Fine
    <3> QED BY <2>1
  <2> DEFINE p == flat[n + 1]
             q == Q[n + 2]
  <2>3. flat[n + 2] = p \o q
    BY <2>1
  <2>4. p \in Seq(N) /\ q \in Seq(N) /\ Distinct(p) /\ Distinct(q)
        /\ \A x : In(x, p) <=> \E i \in 1..(n + 1) : In(x, Q[i])
    BY <1>1, <2>2
  <2>5. \A x : ~(In(x, p) /\ In(x, q))
    BY <2>1, <2>4
  <2> HIDE DEF p
  <2>6. /\ p \o q \in Seq(N) /\ Distinct(p \o q)
        /\ \A x : In(x, p \o q) <=> In(x, p) \/ In(x, q)
    <3> HIDE DEF q
    <3> QED BY <2>4, <2>5, ConcatGives
  <2>7. \A x : In(x, p \o q) <=> \E i \in 1..(n + 2) : In(x, Q[i])
    BY <2>1, <2>4, <2>6
  <2> QED BY <2>3, <2>6, <2>7
<1>4. T = Nat
  <2> HIDE DEF Fine
  <2>1. T \subseteq Nat /\ \A n \in T : n + 1 \in T
    BY <1>3
  <2> HIDE DEF T
  <2> QED BY <1>2, <2>1, SetInduction
<1>5. Fine(Len(Q))
  <2> HIDE DEF Fine
  <2>1. Len(Q) - 1 \in Nat /\ (Len(Q) - 1) + 1 = Len(Q) /\ Len(Q) \in 1..Len(Q)
    BY <1>1
  <2> QED BY <1>4, <2>1
<1> QED BY <1>5

=============================================================================
