---------------------------- MODULE FramingProofs ----------------------------
(***************************************************************************)
(* Proofs about Framing for any number of requests: however the bytes are  *)
(* cut, what the two programs act on is in order; with whole reads it is   *)
(* everything.                                                             *)
(***************************************************************************)
EXTENDS Framing, RecursionLemmas, FiniteSetTheorems

LEMMA LengthIsFour == Length = 4 /\ Parts = 1..4
<1>1. Cardinality(1..4) = 4
  <2>1. \A m \in Nat : Cardinality(1..m) = m
    BY FS_Interval
  <2> QED BY <2>1
<1> QED BY <1>1 DEF Length, Parts

-----------------------------------------------------------------------------
(***************************************************************************)
(* Streams.  What is unread is the end of the records sent so far, so the  *)
(* place of a cell in the queue tells its record and its part.             *)
(***************************************************************************)
\* The cell at place k of all that was ever sent.
Placed(x, k) ==
    /\ x.kind \in Kinds /\ x.n \in Nat /\ x.part \in 1..4
    /\ 4 * x.n + x.part = k + 4

Shape(q, sent) ==
    /\ q \in Seq(Cells) /\ Len(q) <= 4 * sent
    /\ \A j \in 1..Len(q) : Placed(q[j], 4 * sent - Len(q) + j)
    /\ \A i, j \in 1..Len(q) : q[i].n = q[j].n => q[i].kind = q[j].kind

\* The records of a stream, and where its first cell is.
LEMMA PlacedMeans ==
    ASSUME NEW x, NEW y, NEW k \in Int, NEW l \in Int, Placed(x, k), Placed(y, l)
    PROVE  /\ x.n \in Nat /\ x.part \in 1..4 /\ x.kind \in Kinds
           /\ \A s \in Nat : k <= 4 * s => x.n <= s
           /\ k >= 1 => x.n >= 1
           /\ x.part = 1 => 4 * (x.n - 1) = k - 1
           /\ l = k + 1 /\ x.part # 4 => y.n = x.n /\ y.part = x.part + 1
           /\ l = k + 1 /\ x.part = 4 => y.n = x.n + 1 /\ y.part = 1
<1>1. /\ x.n \in Nat /\ x.part \in 1..4 /\ x.kind \in Kinds
      /\ y.n \in Nat /\ y.part \in 1..4
      /\ 4 * x.n + x.part = k + 4 /\ 4 * y.n + y.part = l + 4
  BY DEF Placed
<1> DEFINE n == x.n
           p == x.part
           m == y.n
           o == y.part
<1>2. /\ n \in Nat /\ p \in 1..4 /\ m \in Nat /\ o \in 1..4
      /\ 4 * n + p = k + 4 /\ 4 * m + o = l + 4
  BY <1>1
<1> HIDE DEF n, p, m, o
<1>3. /\ \A s \in Nat : k <= 4 * s => n <= s
      /\ k >= 1 => n >= 1
      /\ p = 1 => 4 * (n - 1) = k - 1
  BY <1>2
<1>4. /\ l = k + 1 /\ p # 4 => m = n /\ o = p + 1
      /\ l = k + 1 /\ p = 4 => m = n + 1 /\ o = 1
  BY <1>2
<1> QED BY <1>1, <1>3, <1>4 DEF n, p, m, o

LEMMA RecordMeans ==
    ASSUME NEW kind \in Kinds, NEW n \in 1..MaxRecords
    PROVE  /\ Record(kind, n) \in Seq(Cells) /\ Len(Record(kind, n)) = 4
           /\ \A p \in 1..4 : /\ Record(kind, n)[p].kind = kind
                              /\ Record(kind, n)[p].n = n /\ Record(kind, n)[p].part = p
<1> DEFINE r == Record(kind, n)
<1>1. /\ DOMAIN r = 1..4
      /\ \A p \in 1..4 : r[p] = [kind |-> kind, n |-> n, part |-> p]
  BY LengthIsFour DEF Record
<1>2. \A p \in 1..4 : r[p].kind = kind /\ r[p].n = n /\ r[p].part = p
  BY <1>1
<1>3. \A p \in 1..4 : r[p] \in Cells
  <2>1. \A p \in 1..4 : r[p] \in ToSet(r)
    BY <1>1 DEF ToSet
  <2>2. ToSet(r) \in {ToSet(Record(k, m)) : k \in Kinds, m \in 1..MaxRecords}
    OBVIOUS
  <2> QED BY <2>1, <2>2 DEF Cells
<1>4. r = [p \in 1..4 |-> r[p]]
  BY LengthIsFour DEF Record
<1> HIDE DEF r
<1>5. r \in Seq(Cells) /\ Len(r) = 4
  BY <1>1, <1>3, <1>4
<1> QED BY <1>2, <1>5 DEF r

\* A record is sent.
Pushed(q, kind, sent, r) ==
    /\ Shape(r, sent + 1) /\ Len(r) = Len(q) + 4
    /\ \A j \in 1..Len(q) : r[j] = q[j]
    /\ \A j \in Len(q) + 1 .. Len(q) + 4 : r[j].kind = kind /\ r[j].n = sent + 1

LEMMA PushShape ==
    ASSUME NEW sent \in Nat, NEW kind \in Kinds, sent + 1 \in 1..MaxRecords,
           NEW q, Shape(q, sent)
    PROVE  Pushed(q, kind, sent, q \o Record(kind, sent + 1))
<1> DEFINE a == Record(kind, sent + 1)
           r == q \o a
<1>1. /\ a \in Seq(Cells) /\ Len(a) = 4
      /\ \A p \in 1..4 : a[p].kind = kind /\ a[p].n = sent + 1 /\ a[p].part = p
  BY RecordMeans
<1>2. q \in Seq(Cells) /\ Len(q) \in Nat
  BY DEF Shape
<1> HIDE DEF a
<1>3. /\ r \in Seq(Cells) /\ Len(r) = Len(q) + 4
      /\ \A j \in 1..Len(q) : r[j] = q[j]
      /\ \A j \in Len(q) + 1 .. Len(q) + 4 : r[j] = a[j - Len(q)]
  <2>1. \A x, y \in Seq(Cells) :
           /\ x \o y \in Seq(Cells) /\ Len(x \o y) = Len(x) + Len(y)
           /\ \A j \in 1..Len(x) : (x \o y)[j] = x[j]
           /\ \A j \in Len(x) + 1 .. Len(x) + Len(y) : (x \o y)[j] = y[j - Len(x)]
    OBVIOUS
  <2>2. /\ q \o a \in Seq(Cells) /\ Len(q \o a) = Len(q) + Len(a)
        /\ \A j \in 1..Len(q) : (q \o a)[j] = q[j]
        /\ \A j \in Len(q) + 1 .. Len(q) + Len(a) : (q \o a)[j] = a[j - Len(q)]
    BY <1>1, <1>2, <2>1
  <2>3. Len(a) = 4
    BY <1>1
  <2> QED BY <2>2, <2>3
<1> HIDE DEF r
<1>4. \A j \in 1..Len(r) : j \in 1..Len(q) \/ j \in Len(q) + 1 .. Len(q) + 4
  BY <1>2, <1>3
<1>5. ASSUME NEW j \in Len(q) + 1 .. Len(q) + 4
      PROVE  r[j].kind = kind /\ r[j].n = sent + 1 /\ r[j].part = j - Len(q)
  <2>1. j - Len(q) \in 1..4
    BY <1>2
  <2> QED BY <1>1, <1>3, <2>1
<1>6. ASSUME NEW j \in 1..Len(r) PROVE Placed(r[j], 4 * (sent + 1) - Len(r) + j)
  <2>1. 4 * (sent + 1) - Len(r) + j = 4 * sent - Len(q) + j
    BY <1>2, <1>3
  <2>2. CASE j \in 1..Len(q)
    <3>1. Placed(q[j], 4 * sent - Len(q) + j)
      BY <2>2 DEF Shape
    <3> QED BY <1>3, <2>1, <2>2, <3>1
  <2>3. CASE j \in Len(q) + 1 .. Len(q) + 4
    <3>1. r[j].kind = kind /\ r[j].n = sent + 1 /\ r[j].part = j - Len(q)
      BY <1>5, <2>3
    <3>2. j - Len(q) \in 1..4 /\ 4 * (sent + 1) + (j - Len(q)) = (4 * sent - Len(q) + j) + 4
      BY <1>2, <2>3
    <3> QED BY <2>1, <3>1, <3>2 DEF Placed
  <2> QED BY <1>4, <2>2, <2>3
<1>7. ASSUME NEW j \in 1..Len(q) PROVE r[j].n # sent + 1
  <2>1. Placed(q[j], 4 * sent - Len(q) + j) /\ 4 * sent - Len(q) + j \in Int
        /\ 4 * sent - Len(q) + j <= 4 * sent
    BY <1>2 DEF Shape
  <2>2. q[j].n \in Nat /\ q[j].n <= sent
    BY <2>1, PlacedMeans
  <2> QED BY <1>3, <2>2
<1>8. ASSUME NEW i \in 1..Len(r), NEW j \in 1..Len(r), r[i].n = r[j].n
      PROVE  r[i].kind = r[j].kind
  <2>1. CASE i \in 1..Len(q) /\ j \in 1..Len(q)
    BY <1>3, <1>8, <2>1 DEF Shape
  <2>2. CASE ~(i \in 1..Len(q) /\ j \in 1..Len(q))
    BY <1>4, <1>5, <1>7, <1>8, <2>2
  <2> QED BY <2>1, <2>2
<1>9. Len(r) <= 4 * (sent + 1)
  BY <1>2, <1>3 DEF Shape
<1>10. \A j \in Len(q) + 1 .. Len(q) + 4 : r[j].kind = kind /\ r[j].n = sent + 1
  BY <1>5
<1> QED BY <1>3, <1>6, <1>8, <1>9, <1>10 DEF Shape, Pushed, r, a

\* k cells are read.
Popped(q, k, sent, r) ==
    /\ k \in 1..4 /\ k <= Len(q)
    /\ Shape(r, sent) /\ Len(r) = Len(q) - k
    /\ \A j \in 1..Len(r) : j + k \in 1..Len(q) /\ r[j] = q[j + k]

LEMMA PopShape ==
    ASSUME NEW sent \in Nat, NEW q, Shape(q, sent), NEW k \in Takes(q)
    PROVE  Popped(q, k, sent, SubSeq(q, k + 1, Len(q)))
<1> DEFINE r == SubSeq(q, k + 1, Len(q))
<1>1. q \in Seq(Cells) /\ Len(q) \in Nat
  BY DEF Shape
<1>2. k \in 1..4 /\ k <= Len(q)
  BY <1>1, LengthIsFour DEF Takes
<1>3. /\ r \in Seq(Cells) /\ Len(r) = Len(q) - k
      /\ \A j \in 1..Len(r) : j + k \in 1..Len(q) /\ r[j] = q[j + k]
  BY <1>1, <1>2
<1> HIDE DEF r
<1>4. ASSUME NEW j \in 1..Len(r) PROVE Placed(r[j], 4 * sent - Len(r) + j)
  <2>1. Placed(q[j + k], 4 * sent - Len(q) + (j + k))
    BY <1>3 DEF Shape
  <2>2. 4 * sent - Len(q) + (j + k) = 4 * sent - Len(r) + j
    BY <1>1, <1>2, <1>3
  <2> QED BY <1>3, <2>1, <2>2
<1>5. ASSUME NEW i \in 1..Len(r), NEW j \in 1..Len(r), r[i].n = r[j].n
      PROVE  r[i].kind = r[j].kind
  BY ZenonT(40), <1>3, <1>5 DEF Shape
<1>6. Len(r) <= 4 * sent
  BY <1>1, <1>2, <1>3 DEF Shape
<1> QED BY <1>2, <1>3, <1>4, <1>5, <1>6 DEF Shape, Popped, r

\* What one recv is parsed to, by the part it starts with.
Means(q, k, m) ==
    \/ m = Nothing /\ q[1].part = 4
    \/ m = Exits /\ q[1].part \in {1, 2, 3} /\ (q[1].part = 1 => k = 1)
    \/ m = [kind |-> "other", n |-> 0] /\ q[1].part = 2
    \/ m = [kind |-> q[1].kind, n |-> q[1].n] /\ q[1].part = 1 /\ k >= 2

LEMMA ParsedMeans ==
    ASSUME NEW sent \in Nat, NEW q, Shape(q, sent), NEW k \in Takes(q), NEW m \in Parsed(q, k)
    PROVE  Means(q, k, m)
<1> DEFINE s == SubSeq(q, 1, k)
           Pad(x) == x.part = 4
           I == {i \in 1..Len(s) : Pad(s[i])}
           pad == SelectInSeq(s, Pad)
           text == SubSeq(q, 1, IF pad = 0 THEN k ELSE pad - 1)
<1>1. q \in Seq(Cells) /\ Len(q) \in Nat
  BY DEF Shape
<1>2. k \in 1..4 /\ k <= Len(q) /\ q[1].part \in 1..4
  <2>1. k \in 1..4 /\ k <= Len(q)
    BY <1>1, LengthIsFour DEF Takes
  <2>2. Placed(q[1], 4 * sent - Len(q) + 1)
    BY <1>1, <2>1 DEF Shape
  <2> QED BY <2>1, <2>2 DEF Placed
<1>3. Len(s) = k /\ \A i \in 1..k : s[i] = q[i]
  BY <1>1, <1>2
<1>4. \/ pad = 0 /\ I = {}
      \/ pad \in I /\ \A i \in I : pad <= i
  <2>1. CASE I = {}
    BY <2>1 DEF SelectInSeq
  <2>2. CASE I # {}
    <3>1. \E i \in I : \A j \in I : i <= j
      <4>1. I \subseteq Nat
        OBVIOUS
      <4> HIDE DEF I
      <4> QED BY <2>2, <4>1, LeastNumber
    <3>2. pad = Min(I)
      BY <2>2 DEF SelectInSeq
    <3> QED BY <3>1, <3>2 DEF Min
  <2> QED BY <2>1, <2>2
<1>5. text = Text(q, k)
  BY DEF Text
<1> HIDE DEF pad, s
<1>6. CASE q[1].part = 4
  <2>1. 1 \in I
    BY <1>2, <1>3, <1>6
  <2>2. pad = 1
    BY <1>2, <1>3, <1>4, <2>1
  <2>3. text = <<>>
    BY <1>1, <2>2
  <2> QED BY <1>5, <1>6, <2>3 DEF Parsed, Means
<1>7. CASE q[1].part # 4
  <2>1. 1 \notin I
    BY <1>3, <1>7
  <2> DEFINE z == IF pad = 0 THEN k ELSE pad - 1
  <2>2. z \in 1..k /\ (pad = 0 => z = k) /\ (pad # 0 => z = pad - 1 /\ pad \in 2..k)
    BY <1>2, <1>3, <1>4, <2>1
  <2>3. text = SubSeq(q, 1, z)
    OBVIOUS
  <2>4. q[1].part = 1 /\ k >= 2 => z >= 2
    <3> SUFFICES ASSUME q[1].part = 1, k >= 2, pad # 0 PROVE pad # 2
      BY <1>2, <2>2
    <3>1. pad = 2 => q[2].part = 4
      BY <1>3, <1>4
    <3>2. /\ Placed(q[1], 4 * sent - Len(q) + 1) /\ Placed(q[2], 4 * sent - Len(q) + 2)
          /\ 4 * sent - Len(q) + 1 \in Int /\ 4 * sent - Len(q) + 2 \in Int
          /\ 4 * sent - Len(q) + 2 = (4 * sent - Len(q) + 1) + 1
      <4>1. 1 \in 1..Len(q) /\ 2 \in 1..Len(q)
        BY <1>1, <1>2
      <4> QED BY <1>1, <4>1 DEF Shape
    <3>3. q[2].part = q[1].part + 1
      BY <3>2, PlacedMeans
    <3> QED BY <3>1, <3>3
  <2> HIDE DEF z
  <2>5. text # <<>> /\ text[1] = q[1] /\ Len(text) = z
    <3>1. z \in 1..Len(q)
      BY <1>1, <1>2, <2>2
    <3>2. Len(SubSeq(q, 1, z)) = z /\ SubSeq(q, 1, z)[1] = q[1]
      BY <1>1, <3>1
    <3>3. Len(<<>>) = 0
      OBVIOUS
    <3>4. text[1] = q[1] /\ Len(text) = z
      BY <2>3, <3>2
    <3> HIDE DEF text
    <3> QED BY <2>2, <3>3, <3>4
  <2> HIDE DEF text
  <2>6. q[1].part = 1 /\ ~(Len(text) > 1) => k = 1
    BY <1>2, <2>2, <2>4, <2>5
  <2>7. q[1].part = 1 /\ Len(text) > 1 => k >= 2
    BY <1>2, <2>2, <2>5
  <2>8. m \in IF text[1].part = 1 /\ Len(text) > 1
              THEN {[kind |-> text[1].kind, n |-> text[1].n]}
              ELSE IF text[1].part = 2 THEN {Exits, [kind |-> "other", n |-> 0]}
              ELSE {Exits}
    BY <1>5, <2>5 DEF Parsed
  <2> QED BY <1>2, <1>7, <2>5, <2>6, <2>7, <2>8 DEF Means
<1> QED BY <1>6, <1>7

-----------------------------------------------------------------------------
(***************************************************************************)
(* The records acted on, when b cells have been read.                      *)
(***************************************************************************)
Log(log, b) ==
    /\ log \in Seq(Nat)
    /\ \A i \in 1..Len(log) : log[i] >= 1 /\ 4 * (log[i] - 1) + 2 <= b
    /\ \A i, j \in 1..Len(log) : i < j => log[i] <= log[j]

Strict(log) ==
    /\ \A i, j \in 1..Len(log) : i < j => log[i] < log[j]
    /\ \A i \in 1..Len(log) : i <= log[i]

LEMMA LogLater ==
    ASSUME NEW log, NEW b \in Int, NEW c \in Int, b <= c, Log(log, b)
    PROVE  Log(log, c)
<1>1. log \in Seq(Nat)
  BY DEF Log
<1>2. ASSUME NEW i \in 1..Len(log) PROVE log[i] >= 1 /\ 4 * (log[i] - 1) + 2 <= c
  <2>1. log[i] \in Nat /\ log[i] >= 1 /\ 4 * (log[i] - 1) + 2 <= b
    BY <1>1 DEF Log
  <2> QED BY <2>1
<1> QED BY <1>1, <1>2 DEF Log

\* v is acted on next.
LEMMA LogGrows ==
    ASSUME NEW log, NEW b \in Int, Log(log, b), NEW v \in Nat, v >= 1,
           4 * (v - 1) + 2 <= b, \A i \in 1..Len(log) : log[i] <= v
    PROVE  /\ Log(Append(log, v), b)
           /\ Strict(log) /\ (\A i \in 1..Len(log) : log[i] < v) => Strict(Append(log, v))
<1> DEFINE r == Append(log, v)
<1>1. log \in Seq(Nat) /\ Len(log) \in Nat
  BY DEF Log
<1>2. /\ r \in Seq(Nat) /\ Len(r) = Len(log) + 1 /\ r[Len(log) + 1] = v
      /\ \A i \in 1..Len(log) : r[i] = log[i]
  BY <1>1
<1> HIDE DEF r
<1>3. \A i \in 1..Len(r) : i \in 1..Len(log) \/ i = Len(log) + 1
  BY <1>1, <1>2
<1>4. \A i \in 1..Len(log) : log[i] \in Nat
  BY <1>1
<1>5. ASSUME NEW i \in 1..Len(r) PROVE r[i] >= 1 /\ 4 * (r[i] - 1) + 2 <= b
  BY <1>2, <1>3 DEF Log
<1>6. ASSUME NEW i \in 1..Len(r), NEW j \in 1..Len(r), i < j
      PROVE  i \in 1..Len(log) /\ (j \in 1..Len(log) \/ j = Len(log) + 1)
  BY <1>1, <1>3, <1>6
<1>7. ASSUME NEW i \in 1..Len(r), NEW j \in 1..Len(r), i < j PROVE r[i] <= r[j]
  BY <1>2, <1>6, <1>7 DEF Log
<1>8. ASSUME Strict(log), \A i \in 1..Len(log) : log[i] < v PROVE Strict(r)
  <2>1. ASSUME NEW i \in 1..Len(r), NEW j \in 1..Len(r), i < j PROVE r[i] < r[j]
    BY <1>2, <1>6, <1>8, <2>1 DEF Strict
  <2>2. Len(log) + 1 <= v
    <3>1. CASE Len(log) = 0
      BY <3>1
    <3>2. CASE Len(log) # 0
      <4>1. Len(log) \in 1..Len(log)
        BY <1>1, <3>2
      <4>2. Len(log) <= log[Len(log)] /\ log[Len(log)] < v /\ log[Len(log)] \in Nat
        BY <1>4, <1>8, <4>1 DEF Strict
      <4> QED BY <1>1, <4>2
    <3> QED BY <3>1, <3>2
  <2>3. ASSUME NEW i \in 1..Len(r) PROVE i <= r[i]
    BY <1>2, <1>3, <1>8, <2>2 DEF Strict
  <2> QED BY <2>1, <2>3 DEF Strict
<1> QED BY <1>2, <1>5, <1>7, <1>8 DEF Log, r

\* No more than was sent is acted on.
LEMMA LogBound ==
    ASSUME NEW log, NEW b \in Int, NEW sent \in Nat, b <= 4 * sent, Log(log, b), Strict(log)
    PROVE  Len(log) <= sent
<1>1. log \in Seq(Nat) /\ Len(log) \in Nat
  BY DEF Log
<1>2. CASE Len(log) = 0
  BY <1>2
<1>3. CASE Len(log) # 0
  <2>1. Len(log) \in 1..Len(log)
    BY <1>1, <1>3
  <2> DEFINE v == log[Len(log)]
  <2>2. v \in Nat /\ 4 * (v - 1) + 2 <= b /\ Len(log) <= v
    BY <1>1, <2>1 DEF Log, Strict
  <2> HIDE DEF v
  <2>3. v <= sent
    BY <2>2
  <2> QED BY <1>1, <2>2, <2>3
<1> QED BY <1>2, <1>3

\* A header that is read is of a record behind all that were acted on.
LEMMA LogReads ==
    ASSUME NEW sent \in Nat, NEW q, Shape(q, sent), NEW k, NEW r, Popped(q, k, sent, r),
           NEW log, Log(log, 4 * sent - Len(q)), q[1].part = 1, k >= 2
    PROVE  LET new == Append(log, q[1].n) IN
           /\ q[1].n \in Nat /\ q[1].n \in 1..sent /\ Log(new, 4 * sent - Len(r))
           /\ Strict(log) => Strict(new)
<1> DEFINE b == 4 * sent - Len(q)
           c == 4 * sent - Len(r)
           v == q[1].n
<1>1. Len(q) \in Nat /\ Len(r) = Len(q) - k /\ k \in 1..4 /\ Len(r) \in Nat
      /\ Len(q) <= 4 * sent /\ log \in Seq(Nat)
  BY DEF Shape, Popped, Log
<1>2. b \in Nat /\ c \in Nat /\ c = b + k /\ c <= 4 * sent
  BY <1>1
<1>3. Placed(q[1], b + 1)
  <2>1. 1 \in 1..Len(q)
    BY <1>1 DEF Popped
  <2> QED BY <2>1 DEF Shape
<1> HIDE DEF b, c
<1>4. v \in Nat /\ v >= 1 /\ 4 * (v - 1) = b /\ v <= sent
  <2>1. b + 1 \in Int /\ b + 1 >= 1
    BY <1>2
  <2>2. v \in Nat /\ v >= 1 /\ 4 * (v - 1) = (b + 1) - 1
    BY <1>3, <2>1, PlacedMeans
  <2>3. 4 * (v - 1) = b
    BY <1>2, <2>2
  <2> HIDE DEF v
  <2>4. v <= sent
    BY <1>1, <1>2, <2>2, <2>3
  <2> QED BY <2>2, <2>3, <2>4
<1>5. Log(log, b)
  BY DEF b
<1> HIDE DEF v
<1>6. Log(log, c)
  BY <1>1, <1>2, <1>5, LogLater
<1>7. ASSUME NEW i \in 1..Len(log) PROVE log[i] < v
  <2>1. log[i] \in Nat /\ 4 * (log[i] - 1) + 2 <= b
    BY <1>1, <1>5 DEF Log
  <2> QED BY <1>4, <2>1
<1>8. \A i \in 1..Len(log) : log[i] <= v
  <2>1. \A i \in 1..Len(log) : log[i] \in Nat
    BY <1>1
  <2> QED BY <1>4, <1>7, <2>1
<1>9. 4 * (v - 1) + 2 <= c
  BY <1>1, <1>2, <1>4
<1>10. Log(Append(log, v), c) /\ (Strict(log) => Strict(Append(log, v)))
  BY <1>2, <1>4, <1>6, <1>7, <1>8, <1>9, LogGrows
<1> QED BY <1>4, <1>10 DEF v, c

-----------------------------------------------------------------------------
(***************************************************************************)
(* The first invariant: types, shape and order.                            *)
(***************************************************************************)
OrderInv ==
    /\ sentUp \in 0..MaxRecords /\ sentDown \in 0..MaxRecords
    /\ rpacket \in Kinds /\ ended \in {"no", "server", "client"}
    /\ member \in BOOLEAN /\ insession \in BOOLEAN
    /\ short \in BOOLEAN /\ ahead \in BOOLEAN
    /\ Shape(up, sentUp) /\ Shape(down, sentDown)
    /\ Log(served, 4 * sentUp - Len(up)) /\ Strict(served)
    /\ Log(seen, 4 * sentDown - Len(down))
    /\ sentDown <= Len(served)

\* What a packet makes the server do to the stream down: a reply, if any.
LEMMA HandlesMeans ==
    ASSUME OrderInv, NEW kind, Handles(kind)
    PROVE  /\ \/ UNCHANGED <<down, sentDown>>
              \/ /\ kind \in {"JOIN", "MESSAGE"}
                 /\ \E x \in {"JN_ACK", "JN_NAK", "MESSAGE"} : Replies(x)
           /\ member' \in BOOLEAN /\ ended' \in {"no", "server", "client"}
BY DEF Handles, Silent, OrderInv

\* The stream down, with or without a reply to what was just served.
LEMMA DownKeeps ==
    ASSUME OrderInv, sentDown + 1 <= MaxRecords,
           \/ UNCHANGED <<down, sentDown>>
           \/ \E x \in {"JN_ACK", "JN_NAK", "MESSAGE"} : Replies(x)
    PROVE  /\ sentDown' \in 0..MaxRecords /\ sentDown' <= sentDown + 1
           /\ Shape(down', sentDown')
           /\ 4 * sentDown' - Len(down') = 4 * sentDown - Len(down)
           /\ Len(down) \in Nat
<1>1. sentDown \in Nat /\ Len(down) \in Nat /\ MaxRecords \in Nat
  BY FramingAssumption DEF OrderInv, Shape
<1>2. CASE UNCHANGED <<down, sentDown>>
  BY <1>1, <1>2 DEF OrderInv
<1>3. ASSUME NEW x \in {"JN_ACK", "JN_NAK", "MESSAGE"}, Replies(x)
      PROVE  /\ Shape(down', sentDown + 1) /\ Len(down') = Len(down) + 4
             /\ sentDown' = sentDown + 1
  <2>1. x \in Kinds /\ sentDown + 1 \in 1..MaxRecords
    BY <1>1 DEF Kinds
  <2>2. Pushed(down, x, sentDown, down \o Record(x, sentDown + 1))
    BY <1>1, <2>1, PushShape DEF OrderInv
  <2> QED BY <1>3, <2>2 DEF Replies, Pushed
<1>4. CASE \E x \in {"JN_ACK", "JN_NAK", "MESSAGE"} : Replies(x)
  <2>1. /\ Shape(down', sentDown + 1) /\ Len(down') = Len(down) + 4
        /\ sentDown' = sentDown + 1
    BY <1>3, <1>4
  <2> QED BY <1>1, <2>1
<1> QED BY <1>2, <1>4

LEMMA ServerRecvOrdered ==
    ASSUME OrderInv, NEW k, ServerRecv(k)
    PROVE  OrderInv'
<1>1. PICK m \in Parsed(up, k) : served' = Logged(served, m) /\ Handles(m.kind)
  BY DEF ServerRecv
<1>2. /\ k \in Takes(up) /\ up' = SubSeq(up, k + 1, Len(up))
      /\ UNCHANGED <<sentUp, insession, rpacket, seen, ahead>> /\ short' \in BOOLEAN
  BY DEF ServerRecv, OrderInv
<1>3. sentUp \in Nat /\ sentDown \in Nat /\ MaxRecords \in Nat /\ sentUp <= MaxRecords
  BY FramingAssumption DEF OrderInv
<1>4. Means(up, k, m) /\ Popped(up, k, sentUp, up')
  BY <1>2, <1>3, ParsedMeans, PopShape DEF OrderInv
<1>5. Len(up) \in Nat /\ Len(up') = Len(up) - k /\ k \in 1..4 /\ Shape(up', sentUp)
      /\ Len(up') \in Nat
  BY <1>4 DEF Popped, Shape, OrderInv
<1>6. /\ \/ UNCHANGED <<down, sentDown>>
         \/ /\ m.kind \in {"JOIN", "MESSAGE"}
            /\ \E x \in {"JN_ACK", "JN_NAK", "MESSAGE"} : Replies(x)
      /\ member' \in BOOLEAN /\ ended' \in {"no", "server", "client"}
  BY <1>1, HandlesMeans
<1>7. CASE up[1].part = 1 /\ k >= 2 /\ m = [kind |-> up[1].kind, n |-> up[1].n]
  <2>1. /\ up[1].n \in 1..sentUp
        /\ Log(Append(served, up[1].n), 4 * sentUp - Len(up')) /\ Strict(Append(served, up[1].n))
    BY <1>3, <1>4, <1>7, LogReads DEF OrderInv
  <2>2. served' = Append(served, up[1].n)
    <3>1. m.n = up[1].n /\ m.n # 0
      BY <1>3, <1>7, <2>1
    <3> QED BY <1>1, <3>1 DEF Logged
  <2>3. served \in Seq(Nat) /\ served' \in Seq(Nat)
    BY <2>1, <2>2 DEF OrderInv, Log
  <2>4. Len(served') = Len(served) + 1 /\ Len(served) \in Nat
    BY <2>1, <2>2, <2>3
  <2>5. Len(served') <= sentUp
    <3>1. 4 * sentUp - Len(up') \in Int /\ 4 * sentUp - Len(up') <= 4 * sentUp
      BY <1>3, <1>5
    <3> QED BY <1>3, <2>1, <2>2, <3>1, LogBound
  <2>6. sentDown <= Len(served)
    BY DEF OrderInv
  <2>7. sentDown + 1 <= MaxRecords
    BY <1>3, <2>4, <2>5, <2>6
  <2>8. /\ sentDown' \in 0..MaxRecords /\ sentDown' <= sentDown + 1
        /\ Shape(down', sentDown')
        /\ 4 * sentDown' - Len(down') = 4 * sentDown - Len(down)
    BY <1>6, <2>7, DownKeeps
  <2>9. sentDown' <= Len(served')
    BY <1>3, <2>4, <2>6, <2>8
  <2>10. Log(seen', 4 * sentDown' - Len(down'))
    BY <1>2, <2>8 DEF OrderInv
  <2> QED BY <1>2, <1>5, <1>6, <2>1, <2>2, <2>8, <2>9, <2>10 DEF OrderInv
<1>8. CASE m.n = 0 /\ m.kind \notin {"JOIN", "MESSAGE"}
  <2>1. served' = served /\ UNCHANGED <<down, sentDown>>
    BY <1>1, <1>6, <1>8 DEF Logged
  <2>2. Log(served', 4 * sentUp - Len(up'))
    <3>1. /\ 4 * sentUp - Len(up) \in Int /\ 4 * sentUp - Len(up') \in Int
          /\ 4 * sentUp - Len(up) <= 4 * sentUp - Len(up')
      BY <1>3, <1>5
    <3> QED BY <2>1, <3>1, LogLater DEF OrderInv
  <2> QED BY <1>2, <1>5, <1>6, <2>1, <2>2 DEF OrderInv
<1> QED BY <1>4, <1>7, <1>8 DEF Means, Nothing, Exits

\* What the client notes of a packet.
LEMMA SeenMeans ==
    ASSUME OrderInv, NEW k \in Takes(down), NEW m \in Parsed(down, k), NEW r, NEW s,
           Popped(down, k, sentDown, r),
           s = IF m # Nothing THEN Logged(seen, m)
               ELSE IF seen = <<>> THEN seen ELSE Append(seen, Last(seen))
    PROVE  Log(s, 4 * sentDown - Len(r))
<1>1. sentDown \in Nat /\ Means(down, k, m)
  BY ParsedMeans, FramingAssumption DEF OrderInv
<1>2. Len(down) \in Nat /\ Len(r) = Len(down) - k /\ k \in 1..4
  BY DEF Popped, Shape, OrderInv
<1> DEFINE c == 4 * sentDown - Len(r)
<1>3. Log(seen, c) /\ c \in Int /\ seen \in Seq(Nat)
  <2>1. /\ 4 * sentDown - Len(down) \in Int /\ c \in Int
        /\ 4 * sentDown - Len(down) <= c
    BY <1>1, <1>2
  <2> HIDE DEF c
  <2> QED BY <2>1, LogLater DEF OrderInv, Log
<1>4. CASE down[1].part = 1 /\ k >= 2 /\ m = [kind |-> down[1].kind, n |-> down[1].n]
  <2>1. /\ down[1].n \in 1..sentDown
        /\ Log(Append(seen, down[1].n), 4 * sentDown - Len(r))
    BY <1>1, <1>4, LogReads DEF OrderInv
  <2>2. m.n = down[1].n /\ m.n # 0
    BY <1>1, <1>4, <2>1
  <2>3. s = Append(seen, down[1].n)
    BY <2>2 DEF Logged, Nothing
  <2> QED BY <2>1, <2>3
<1>5. CASE m # Nothing /\ m.n = 0
  BY <1>3, <1>5 DEF Logged
<1>6. CASE m = Nothing /\ seen # <<>>
  <2> HIDE DEF c
  <2>1. Len(seen) \in 1..Len(seen) /\ Last(seen) = seen[Len(seen)]
    BY <1>3, <1>6 DEF Last
  <2> DEFINE v == seen[Len(seen)]
  <2>2. v \in Nat /\ v >= 1 /\ 4 * (v - 1) + 2 <= c
    BY <1>3, <2>1 DEF Log
  <2>3. \A i \in 1..Len(seen) : seen[i] <= v
    <3>1. ASSUME NEW i \in 1..Len(seen) PROVE i = Len(seen) \/ i < Len(seen)
      BY <1>3
    <3> QED BY <1>3, <2>1, <2>2, <3>1 DEF Log
  <2> HIDE DEF v
  <2>4. Log(Append(seen, v), c)
    BY <1>3, <2>2, <2>3, LogGrows
  <2> QED BY <1>6, <2>1, <2>4 DEF v, c
<1>7. CASE m = Nothing /\ seen = <<>>
  BY <1>3, <1>7
<1> QED BY <1>1, <1>4, <1>5, <1>6, <1>7 DEF Means, Nothing, Exits

LEMMA ClientRecvOrdered ==
    ASSUME OrderInv, NEW k, ClientRecv(k)
    PROVE  OrderInv'
<1>1. PICK m \in Parsed(down, k) :
        /\ rpacket' = IF m \in {Nothing, Exits} THEN rpacket ELSE m.kind
        /\ seen' = IF m # Nothing THEN Logged(seen, m)
                   ELSE IF seen = <<>> THEN seen ELSE Append(seen, Last(seen))
        /\ IF m = Exits THEN ended' = "client" /\ UNCHANGED insession
           ELSE Acts(rpacket') /\ UNCHANGED ended
  BY DEF ClientRecv
<1>2. /\ k \in Takes(down) /\ down' = SubSeq(down, k + 1, Len(down))
      /\ UNCHANGED <<up, sentUp, sentDown, member, served, ahead>> /\ short' \in BOOLEAN
  BY DEF ClientRecv, OrderInv
<1>3. sentDown \in Nat
  BY FramingAssumption DEF OrderInv
<1>4. Means(down, k, m) /\ Popped(down, k, sentDown, down')
  BY <1>2, <1>3, ParsedMeans, PopShape DEF OrderInv
<1>5. Log(seen', 4 * sentDown - Len(down'))
  BY <1>1, <1>2, <1>4, SeenMeans
<1>6. rpacket' \in Kinds
  <2>1. CASE m.kind \in Kinds
    BY <1>1, <2>1 DEF OrderInv
  <2>2. CASE m \in {Nothing, Exits}
    BY <1>1, <2>2 DEF OrderInv
  <2>3. down[1].kind \in Kinds
    <3>1. 1 \in 1..Len(down)
      BY <1>4 DEF Popped, OrderInv, Shape
    <3> QED BY <3>1 DEF OrderInv, Shape, Placed
  <2>4. "other" \in Kinds
    BY DEF Kinds
  <2> QED BY <1>4, <2>1, <2>2, <2>3, <2>4 DEF Means
<1>7. insession' \in BOOLEAN /\ ended' \in {"no", "server", "client"}
  BY <1>1 DEF Acts, OrderInv
<1>8. Shape(down', sentDown)
  BY <1>4 DEF Popped
<1> QED BY <1>2, <1>5, <1>6, <1>7, <1>8 DEF OrderInv

\* A request joins the stream up.
LEMMA RequestPushes ==
    ASSUME OrderInv, Request
    PROVE  /\ sentUp' = sentUp + 1 /\ sentUp' \in 0..MaxRecords
           /\ \E kind \in {"JOIN", "LEAVE_SESS", "MESSAGE"} :
                 /\ kind = "JOIN" <=> ~insession
                 /\ insession' = (insession /\ kind # "LEAVE_SESS")
                 /\ Pushed(up, kind, sentUp, up')
<1>1. sentUp \in Nat /\ MaxRecords \in Nat /\ sentUp + 1 \in 1..MaxRecords
  BY FramingAssumption DEF OrderInv, Request
<1>2. PICK kind \in {"JOIN", "LEAVE_SESS", "MESSAGE"} :
        /\ kind = "JOIN" <=> ~insession
        /\ up' = up \o Record(kind, sentUp + 1)
        /\ insession' = (insession /\ kind # "LEAVE_SESS")
  BY DEF Request
<1>3. kind \in Kinds
  BY DEF Kinds
<1>4. Pushed(up, kind, sentUp, up')
  BY <1>1, <1>2, <1>3, PushShape DEF OrderInv
<1> QED BY <1>1, <1>2, <1>4 DEF Request

LEMMA RequestOrdered == OrderInv /\ Request => OrderInv'
<1> SUFFICES ASSUME OrderInv, Request PROVE OrderInv'
  OBVIOUS
<1>1. UNCHANGED <<down, sentDown, member, rpacket, ended, served, seen, short>>
  BY DEF Request
<1>2. PICK kind \in {"JOIN", "LEAVE_SESS", "MESSAGE"} : Pushed(up, kind, sentUp, up')
  BY RequestPushes
<1>3. sentUp' = sentUp + 1 /\ sentUp' \in 0..MaxRecords
  BY RequestPushes
<1>4. Shape(up', sentUp') /\ Len(up') = Len(up) + 4
  BY <1>2, <1>3 DEF Pushed
<1>5. 4 * sentUp' - Len(up') = 4 * sentUp - Len(up)
  <2>1. Len(up) \in Nat /\ sentUp \in Int
    BY DEF OrderInv, Shape
  <2> QED BY <1>3, <1>4, <2>1
<1>6. insession' \in BOOLEAN /\ ahead' \in BOOLEAN
  BY DEF Request, OrderInv
<1>7. Log(served', 4 * sentUp' - Len(up'))
  BY <1>1, <1>5 DEF OrderInv
<1> QED BY <1>1, <1>3, <1>4, <1>6, <1>7 DEF OrderInv

LEMMA OrderInit == Init => OrderInv
<1> SUFFICES ASSUME Init PROVE OrderInv
  OBVIOUS
<1>1. Shape(<<>>, 0)
  <2>1. <<>> \in Seq(Cells) /\ Len(<<>>) = 0
    OBVIOUS
  <2> QED BY <2>1 DEF Shape
<1>2. Log(<<>>, 4 * 0 - Len(<<>>)) /\ Strict(<<>>) /\ 0 <= Len(<<>>)
  <2>1. Len(<<>>) = 0 /\ <<>> \in Seq(Nat)
    OBVIOUS
  <2> QED BY <2>1 DEF Log, Strict
<1>3. /\ up = <<>> /\ down = <<>> /\ sentUp = 0 /\ sentDown = 0
      /\ served = <<>> /\ seen = <<>>
  BY DEF Init
<1>4. /\ Shape(up, sentUp) /\ Shape(down, sentDown) /\ sentDown <= Len(served)
      /\ Log(served, 4 * sentUp - Len(up)) /\ Strict(served)
      /\ Log(seen, 4 * sentDown - Len(down))
  BY <1>1, <1>2, <1>3
<1>5. sentUp \in 0..MaxRecords /\ sentDown \in 0..MaxRecords
  BY <1>3, FramingAssumption
<1> QED BY <1>4, <1>5 DEF Init, OrderInv

LEMMA OrderStays == OrderInv /\ [Next]_vars => OrderInv'
<1> SUFFICES ASSUME OrderInv, [Next]_vars PROVE OrderInv'
  OBVIOUS
<1>1. CASE UNCHANGED vars
  BY <1>1 DEF vars, OrderInv
<1> QED BY <1>1, RequestOrdered, ServerRecvOrdered, ClientRecvOrdered DEF Next

\* Types, the order of the streams and the order of what is acted on.
THEOREM Ordered == Spec => []OrderInv
<1> QED BY OrderInit, OrderStays, PTL DEF Spec

\* The bytes are those of records sent, at most as many replies are sent as
\* requests were made, and neither is more than MaxRecords.
THEOREM TypeCorrect == Spec => []TypeOK
<1>1. OrderInv => TypeOK
  BY DEF OrderInv, TypeOK, Shape
<1> QED BY <1>1, Ordered, PTL

\* However the bytes are cut, and however far ahead requests are made, the
\* server acts on no request twice nor out of order, and the client on no reply
\* after a later one.
THEOREM NothingOutOfOrder == Spec => []OrderKept
<1>1. OrderInv => OrderKept
  <2> SUFFICES ASSUME OrderInv PROVE OrderKept
    OBVIOUS
  <2>1. served \in Seq(Nat) /\ seen \in Seq(Nat)
    BY DEF OrderInv, Log
  <2>2. DOMAIN served = 1..Len(served) /\ DOMAIN seen = 1..Len(seen)
    BY <2>1
  <2> QED BY <2>2 DEF OrderInv, OrderKept, Log, Strict
<1> QED BY <1>1, Ordered, PTL

-----------------------------------------------------------------------------
(***************************************************************************)
(* Whole reads.  While no read was short, each stream holds whole records, *)
(* those after the last one acted on.  A program would end on LEAVE_SESS   *)
(* of a client that is in no session: there is one turn to leave, which is *)
(* with the server's JN_ACK, then with the client's flag, then with its    *)
(* LEAVE_SESS, and with any of them the client is a member.                *)
(***************************************************************************)
\* The records behind the last one acted on are the ones in the stream.
AllRead(q, sent, log) ==
    /\ Len(q) = 4 * (sent - Len(log))
    /\ \A i \in 1..Len(log) : log[i] = i

\* The records of a kind in a stream are one record.
Single(q, kind) ==
    \A i, j \in 1..Len(q) : q[i].kind = kind /\ q[j].kind = kind => q[i].n = q[j].n

None(q, kind) == \A i \in 1..Len(q) : q[i].kind # kind

UpKinds(q) == \A i \in 1..Len(q) : q[i].kind \in {"JOIN", "LEAVE_SESS", "MESSAGE"}

WholeInv ==
    ~short =>
        /\ ended = "no"
        /\ AllRead(up, sentUp, served) /\ AllRead(down, sentDown, seen)
        /\ UpKinds(up)
        /\ Single(up, "LEAVE_SESS") /\ Single(down, "JN_ACK")
        /\ None(up, "LEAVE_SESS") \/ None(down, "JN_ACK")
        /\ ~member => None(up, "LEAVE_SESS") /\ None(down, "JN_ACK") /\ ~insession
        /\ insession => None(up, "LEAVE_SESS") /\ None(down, "JN_ACK")

\* One record is read whole, and is the next one.
LEMMA WholeRead ==
    ASSUME NEW sent \in Nat, NEW q, Shape(q, sent), NEW log \in Seq(Nat), AllRead(q, sent, log),
           NEW k \in Takes(q), Whole(q, k), NEW r, Popped(q, k, sent, r), NEW m, Means(q, k, m)
    PROVE  /\ m = [kind |-> q[1].kind, n |-> q[1].n] /\ q[1].n \in Nat \ {0} /\ 1 \in 1..Len(q)
           /\ AllRead(r, sent, Append(log, q[1].n))
           /\ \A j \in 1..Len(r) : r[j].n # q[1].n
<1> DEFINE a == sent - Len(log)
           v == q[1].n
<1>1. a \in Int /\ Len(q) = 4 * a /\ Len(log) \in Nat /\ Len(q) \in Nat
  BY DEF AllRead, Shape
<1>2. k \in 1..4 /\ k <= Len(q) /\ Len(r) = Len(q) - k
  BY DEF Popped
<1>3. k = 4
  <2>1. k \in 1..(IF Len(q) < 4 THEN Len(q) ELSE 4) /\ k + 1 \notin 1..(IF Len(q) < 4 THEN Len(q) ELSE 4)
    BY LengthIsFour DEF Takes, Whole
  <2> HIDE DEF a
  <2>2. Len(q) >= 4
    BY <1>1, <1>2
  <2> QED BY <1>1, <1>2, <2>1, <2>2
<1>4. 4 * sent - Len(q) = 4 * Len(log)
  BY <1>1
<1>5. 1 \in 1..Len(q) /\ Placed(q[1], 4 * Len(log) + 1)
  <2>1. 1 \in 1..Len(q)
    BY <1>1, <1>2
  <2> QED BY <1>4, <2>1 DEF Shape
<1>6. v = Len(log) + 1 /\ q[1].part = 1
  <2> DEFINE w == q[1].part
  <2>1. v \in Nat /\ w \in 1..4 /\ 4 * v + w = 4 * Len(log) + 5
    BY <1>1, <1>5 DEF Placed
  <2> HIDE DEF v, w
  <2>2. v = Len(log) + 1 /\ w = 1
    BY <1>1, <2>1
  <2> QED BY <2>2 DEF w
<1>7. m = [kind |-> q[1].kind, n |-> v]
  BY <1>3, <1>6 DEF Means
<1>8. AllRead(r, sent, Append(log, v))
  <2>1. v \in Nat
    BY <1>1, <1>6
  <2> HIDE DEF v
  <2>2. /\ Len(Append(log, v)) = Len(log) + 1 /\ Append(log, v)[Len(log) + 1] = v
        /\ \A i \in 1..Len(log) : Append(log, v)[i] = log[i]
    BY <2>1
  <2>3. Len(r) = 4 * (sent - (Len(log) + 1))
    BY <1>1, <1>2, <1>3
  <2>4. \A i \in 1..Len(Append(log, v)) : i \in 1..Len(log) \/ i = Len(log) + 1
    BY <1>1, <2>2
  <2>5. \A i \in 1..Len(Append(log, v)) : Append(log, v)[i] = i
    BY <1>6, <2>2, <2>4 DEF AllRead
  <2> HIDE DEF a
  <2> QED BY <2>2, <2>3, <2>5 DEF AllRead
<1>9. ASSUME NEW j \in 1..Len(r) PROVE r[j].n # v
  <2>1. Placed(r[j], 4 * sent - Len(r) + j)
    BY DEF Popped, Shape
  <2>2. 4 * sent - Len(r) + j = 4 * Len(log) + 4 + j /\ j \in Nat /\ j >= 1
    BY <1>1, <1>2, <1>3, <1>4
  <2> DEFINE x == r[j].n
             y == r[j].part
  <2>3. x \in Nat /\ y \in 1..4 /\ 4 * x + y = (4 * sent - Len(r) + j) + 4
    BY <2>1 DEF Placed
  <2> HIDE DEF x, y
  <2>4. x # Len(log) + 1
    <3>1. 4 * x + y = 4 * Len(log) + 8 + j
      BY <2>2, <2>3
    <3> QED BY <1>1, <2>2, <2>3, <3>1
  <2> QED BY <1>6, <2>4 DEF x
<1> QED BY <1>1, <1>5, <1>6, <1>7, <1>8, <1>9 DEF v

\* What a read leaves of a kind.
LEMMA PopKinds ==
    ASSUME NEW sent, NEW q, NEW k, NEW r, Popped(q, k, sent, r), NEW kind
    PROVE  /\ None(q, kind) => None(r, kind)
           /\ Single(q, kind) => Single(r, kind)
           /\ UpKinds(q) => UpKinds(r)
           /\ /\ Single(q, kind) /\ 1 \in 1..Len(q) /\ q[1].kind = kind
              /\ \A j \in 1..Len(r) : r[j].n # q[1].n
              => None(r, kind)
<1>1. \A j \in 1..Len(r) : j + k \in 1..Len(q) /\ r[j] = q[j + k]
  BY DEF Popped
<1>2. None(q, kind) => None(r, kind)
  BY <1>1 DEF None
<1>3. Single(q, kind) => Single(r, kind)
  BY <1>1 DEF Single
<1>4. UpKinds(q) => UpKinds(r)
  BY <1>1 DEF UpKinds
<1>5. ASSUME Single(q, kind), 1 \in 1..Len(q), q[1].kind = kind,
             \A j \in 1..Len(r) : r[j].n # q[1].n
      PROVE  None(r, kind)
  BY <1>1, <1>5 DEF None, Single
<1> QED BY <1>2, <1>3, <1>4, <1>5

\* What sending a record adds.
LEMMA PushKinds ==
    ASSUME NEW sent \in Nat, NEW q, Shape(q, sent), NEW new, NEW r, Pushed(q, new, sent, r),
           NEW kind
    PROVE  /\ None(q, kind) /\ new # kind => None(r, kind)
           /\ Single(q, kind) /\ (new = kind => None(q, kind)) => Single(r, kind)
           /\ UpKinds(q) /\ new \in {"JOIN", "LEAVE_SESS", "MESSAGE"} => UpKinds(r)
           /\ \A log : Len(log) \in Nat /\ AllRead(q, sent, log) => AllRead(r, sent + 1, log)
<1>1. Len(q) \in Nat /\ Len(r) = Len(q) + 4
  BY DEF Shape, Pushed
<1>2. \A j \in 1..Len(r) : j \in 1..Len(q) \/ j \in Len(q) + 1 .. Len(q) + 4
  BY <1>1
<1>3. /\ \A j \in 1..Len(q) : r[j] = q[j]
      /\ \A j \in Len(q) + 1 .. Len(q) + 4 : r[j].kind = new /\ r[j].n = sent + 1
  BY DEF Pushed
<1>4. None(q, kind) /\ new # kind => None(r, kind)
  BY <1>2, <1>3 DEF None
<1>5. Single(q, kind) /\ (new = kind => None(q, kind)) => Single(r, kind)
  BY <1>2, <1>3 DEF None, Single
<1>6. UpKinds(q) /\ new \in {"JOIN", "LEAVE_SESS", "MESSAGE"} => UpKinds(r)
  BY <1>2, <1>3 DEF UpKinds
<1>7. ASSUME NEW log, Len(log) \in Nat, AllRead(q, sent, log) PROVE AllRead(r, sent + 1, log)
  BY <1>1, <1>7 DEF AllRead
<1> QED BY <1>4, <1>5, <1>6, <1>7

LEMMA WholeRequest == ASSUME OrderInv, WholeInv, Request PROVE WholeInv'
<1> SUFFICES ASSUME ~short PROVE WholeInv'
  BY DEF Request, WholeInv
<1>1. UNCHANGED <<down, sentDown, member, rpacket, ended, served, seen, short>>
  BY DEF Request
<1>2. PICK kind \in {"JOIN", "LEAVE_SESS", "MESSAGE"} :
        /\ kind = "JOIN" <=> ~insession
        /\ insession' = (insession /\ kind # "LEAVE_SESS")
        /\ Pushed(up, kind, sentUp, up')
  BY RequestPushes
<1>3. sentUp \in Nat /\ sentUp' = sentUp + 1 /\ Shape(up, sentUp) /\ Len(served) \in Nat
  BY RequestPushes DEF OrderInv, Log
<1>4. AllRead(up', sentUp', served)
  BY <1>2, <1>3, PushKinds DEF WholeInv
<1>5. UpKinds(up')
  BY <1>2, <1>3, PushKinds DEF WholeInv
<1>6. None(up, "LEAVE_SESS") /\ kind # "LEAVE_SESS" => None(up', "LEAVE_SESS")
  BY <1>2, <1>3, PushKinds
<1>7. kind = "LEAVE_SESS" => None(up, "LEAVE_SESS") /\ None(down, "JN_ACK") /\ member
  BY <1>2 DEF WholeInv
<1>8. Single(up', "LEAVE_SESS")
  BY <1>2, <1>3, <1>7, PushKinds DEF WholeInv
<1> QED BY <1>1, <1>2, <1>4, <1>5, <1>6, <1>7, <1>8 DEF WholeInv

LEMMA WholeServer == ASSUME OrderInv, WholeInv, NEW k, ServerRecv(k) PROVE WholeInv'
<1> SUFFICES ASSUME ~short, Whole(up, k) PROVE WholeInv'
  BY DEF ServerRecv, WholeInv
<1>1. PICK m \in Parsed(up, k) : served' = Logged(served, m) /\ Handles(m.kind)
  BY DEF ServerRecv
<1>2. /\ k \in Takes(up) /\ up' = SubSeq(up, k + 1, Len(up))
      /\ UNCHANGED <<sentUp, insession, rpacket, seen, ahead>>
  BY DEF ServerRecv
<1>3. sentUp \in Nat /\ sentDown \in Nat /\ Shape(up, sentUp) /\ Shape(down, sentDown)
      /\ served \in Seq(Nat) /\ Len(seen) \in Nat /\ OrderInv'
  BY ServerRecvOrdered DEF OrderInv, Log
<1>4. Means(up, k, m) /\ Popped(up, k, sentUp, up')
  BY <1>2, <1>3, ParsedMeans, PopShape
<1>5. AllRead(up, sentUp, served) /\ AllRead(down, sentDown, seen) /\ UpKinds(up)
  BY DEF WholeInv
<1>6. /\ m = [kind |-> up[1].kind, n |-> up[1].n] /\ up[1].n \in Nat \ {0} /\ 1 \in 1..Len(up)
      /\ AllRead(up', sentUp, Append(served, up[1].n))
      /\ \A j \in 1..Len(up') : up'[j].n # up[1].n
  BY ZenonT(40), <1>2, <1>3, <1>4, <1>5, WholeRead
<1> DEFINE kind == up[1].kind
<1>7. kind \in {"JOIN", "LEAVE_SESS", "MESSAGE"} /\ m.kind = kind
  BY <1>5, <1>6 DEF UpKinds
<1>8. AllRead(up', sentUp', served')
  <2>1. served' = Append(served, up[1].n)
    BY <1>1, <1>6 DEF Logged
  <2> QED BY <1>2, <1>6, <2>1
<1>9. /\ UpKinds(up')
      /\ Single(up', "LEAVE_SESS")
      /\ None(up, "LEAVE_SESS") => None(up', "LEAVE_SESS")
      /\ kind = "LEAVE_SESS" => None(up', "LEAVE_SESS")
  BY <1>4, <1>5, <1>6, PopKinds DEF WholeInv
<1>10. kind = "LEAVE_SESS" => ~None(up, "LEAVE_SESS")
  BY <1>6 DEF None
<1>11. Handles(kind)
  BY <1>1, <1>7
<1>12. ASSUME NEW x \in {"JN_ACK", "JN_NAK", "MESSAGE"}, Replies(x)
       PROVE  /\ AllRead(down', sentDown', seen)
              /\ None(down, "JN_ACK") /\ x # "JN_ACK" => None(down', "JN_ACK")
              /\ Single(down, "JN_ACK") /\ (x = "JN_ACK" => None(down, "JN_ACK"))
                 => Single(down', "JN_ACK")
  <2>1. x \in Kinds /\ sentDown' = sentDown + 1 /\ sentDown' \in 0..MaxRecords
    BY <1>3, <1>12 DEF Kinds, Replies, OrderInv
  <2>2. sentDown + 1 \in 1..MaxRecords
    BY <1>3, <2>1, FramingAssumption
  <2>3. Pushed(down, x, sentDown, down')
    BY <1>3, <1>12, <2>1, <2>2, PushShape DEF Replies
  <2> QED BY <1>3, <1>5, <2>1, <2>3, PushKinds
<1> HIDE DEF kind
<1>13. CASE kind = "JOIN"
  <2>1. /\ Replies(IF member THEN "JN_NAK" ELSE "JN_ACK")
        /\ member' = TRUE /\ UNCHANGED ended
    BY <1>11, <1>13 DEF Handles
  <2>2. CASE member
    <3>1. Replies("JN_NAK")
      BY <2>1, <2>2
    <3> QED BY <1>2, <1>8, <1>9, <1>12, <2>1, <2>2, <3>1 DEF WholeInv
  <2>3. CASE ~member
    <3>1. Replies("JN_ACK")
      BY <2>1, <2>3
    <3> QED BY <1>2, <1>8, <1>9, <1>12, <2>1, <2>3, <3>1 DEF WholeInv
  <2> QED BY <2>2, <2>3
<1>14. CASE kind = "LEAVE_SESS"
  <2>1. ended' = (IF member THEN ended ELSE "server") /\ member' = FALSE /\ Silent
    BY <1>11, <1>14 DEF Handles
  <2>2. member /\ None(down, "JN_ACK") /\ ~insession
    BY <1>10, <1>14 DEF WholeInv
  <2> QED BY <1>2, <1>5, <1>8, <1>9, <1>14, <2>1, <2>2 DEF WholeInv, Silent
<1>15. CASE kind = "MESSAGE"
  <2>1. (IF member THEN Replies("MESSAGE") ELSE Silent) /\ UNCHANGED <<member, ended>>
    BY <1>11, <1>15 DEF Handles
  <2>2. CASE member
    BY <1>2, <1>8, <1>9, <1>12, <2>1, <2>2 DEF WholeInv
  <2>3. CASE ~member
    BY <1>2, <1>5, <1>8, <1>9, <2>1, <2>3 DEF WholeInv, Silent
  <2> QED BY <2>2, <2>3
<1> QED BY <1>7, <1>13, <1>14, <1>15

LEMMA WholeClient == ASSUME OrderInv, WholeInv, NEW k, ClientRecv(k) PROVE WholeInv'
<1> SUFFICES ASSUME ~short, Whole(down, k) PROVE WholeInv'
  BY DEF ClientRecv, WholeInv
<1>1. PICK m \in Parsed(down, k) :
        /\ rpacket' = IF m \in {Nothing, Exits} THEN rpacket ELSE m.kind
        /\ seen' = IF m # Nothing THEN Logged(seen, m)
                   ELSE IF seen = <<>> THEN seen ELSE Append(seen, Last(seen))
        /\ IF m = Exits THEN ended' = "client" /\ UNCHANGED insession
           ELSE Acts(rpacket') /\ UNCHANGED ended
  BY DEF ClientRecv
<1>2. /\ k \in Takes(down) /\ down' = SubSeq(down, k + 1, Len(down))
      /\ UNCHANGED <<up, sentUp, sentDown, member, served, ahead>>
  BY DEF ClientRecv
<1>3. sentDown \in Nat /\ Shape(down, sentDown) /\ seen \in Seq(Nat)
  BY FramingAssumption DEF OrderInv, Log
<1>4. Means(down, k, m) /\ Popped(down, k, sentDown, down')
  BY <1>2, <1>3, ParsedMeans, PopShape
<1>5. AllRead(down, sentDown, seen)
  BY DEF WholeInv
<1>6. /\ m = [kind |-> down[1].kind, n |-> down[1].n] /\ down[1].n \in Nat \ {0} /\ 1 \in 1..Len(down)
      /\ AllRead(down', sentDown, Append(seen, down[1].n))
      /\ \A j \in 1..Len(down') : down'[j].n # down[1].n
  BY <1>2, <1>3, <1>4, <1>5, WholeRead
<1> DEFINE kind == down[1].kind
<1>7. m \notin {Nothing, Exits} /\ m.kind = kind /\ m.n = down[1].n /\ m.n # 0
  BY <1>6 DEF Nothing, Exits
<1>8. AllRead(down', sentDown', seen')
  BY <1>1, <1>2, <1>6, <1>7 DEF Logged
<1>9. /\ Single(down', "JN_ACK")
      /\ None(down, "JN_ACK") => None(down', "JN_ACK")
      /\ kind = "JN_ACK" => None(down', "JN_ACK")
  BY <1>4, <1>6, PopKinds DEF WholeInv
<1>10. kind = "JN_ACK" => ~None(down, "JN_ACK")
  BY <1>6 DEF None
<1>11. /\ ended' = ended
       /\ insession' = IF kind = "JN_NAK" THEN FALSE ELSE insession \/ kind = "JN_ACK"
  BY <1>1, <1>7 DEF Acts
<1>12. kind = "JN_ACK" => None(up, "LEAVE_SESS") /\ member
  BY <1>10 DEF WholeInv
<1> HIDE DEF kind
<1> QED BY <1>2, <1>8, <1>9, <1>11, <1>12 DEF WholeInv

\* While no recv was short, the streams hold whole records and nobody has ended.
THEOREM WholeInvHolds == Spec => []WholeInv
<1>1. Init => WholeInv
  <2> SUFFICES ASSUME Init PROVE WholeInv
    OBVIOUS
  <2>1. Len(<<>>) = 0
    OBVIOUS
  <2>2. AllRead(<<>>, 0, <<>>) /\ UpKinds(<<>>) /\ \A x : Single(<<>>, x) /\ None(<<>>, x)
    BY <2>1 DEF AllRead, UpKinds, Single, None
  <2> QED BY <2>2 DEF Init, WholeInv
<1>2. OrderInv /\ WholeInv /\ [Next]_vars => WholeInv'
  <2> SUFFICES ASSUME OrderInv, WholeInv, [Next]_vars PROVE WholeInv'
    OBVIOUS
  <2>1. CASE UNCHANGED vars
    BY <2>1 DEF vars, WholeInv
  <2> QED BY <2>1, WholeRequest, WholeServer, WholeClient DEF Next
<1> QED BY <1>1, <1>2, Ordered, PTL DEF Spec

\* With reads as long as they can be, neither program ends, and each side acts
\* on every record, once and in order, however many requests are made ahead.
THEOREM WholeReadsAreEnough == Spec => []WholeReadsSuffice
<1>1. ASSUME NEW q, NEW sent \in Nat, NEW log, Len(log) \in Nat, log \in Seq(Nat),
             AllRead(q, sent, log)
      PROVE  log = [i \in 1..(sent - Len(q) \div Length) |-> i]
  <2> DEFINE a == sent - Len(log)
  <2>1. a \in Int /\ Len(q) = 4 * a
    BY <1>1 DEF AllRead
  <2>2. sent - a = Len(log)
    BY <1>1
  <2> HIDE DEF a
  <2>3. Len(q) \div 4 = a
    BY <2>1
  <2>4. sent - Len(q) \div Length = Len(log)
    BY <2>2, <2>3, LengthIsFour
  <2>5. log = [i \in 1..Len(log) |-> log[i]]
    BY <1>1
  <2>6. \A i \in 1..Len(log) : log[i] = i
    BY <1>1 DEF AllRead
  <2>7. log = [i \in 1..Len(log) |-> i]
    BY <2>5, <2>6
  <2> QED BY <2>4, <2>7
<1>2. OrderInv /\ WholeInv => WholeReadsSuffice
  <2> SUFFICES ASSUME OrderInv, WholeInv, ~short PROVE WholeReadsSuffice
    BY DEF WholeReadsSuffice
  <2>1. /\ sentUp \in Nat /\ sentDown \in Nat /\ served \in Seq(Nat) /\ seen \in Seq(Nat)
        /\ Len(served) \in Nat /\ Len(seen) \in Nat
    BY FramingAssumption DEF OrderInv, Log
  <2>2. ended = "no" /\ AllRead(up, sentUp, served) /\ AllRead(down, sentDown, seen)
    BY DEF WholeInv
  <2>3. served = [i \in 1..(sentUp - Len(up) \div Length) |-> i]
    BY <1>1, <2>1, <2>2
  <2>4. seen = [i \in 1..(sentDown - Len(down) \div Length) |-> i]
    BY <1>1, <2>1, <2>2
  <2> QED BY <2>2, <2>3, <2>4 DEF WholeReadsSuffice
<1> QED BY <1>2, Ordered, WholeInvHolds, PTL

-----------------------------------------------------------------------------
(***************************************************************************)
(* Short reads of one record at a time.  While no request was made ahead,  *)
(* a stream holds at most the rest of its last record.  Of that record the *)
(* first read took the header, or a program has ended; the reads after it  *)
(* find the padding, or a program ends.                                    *)
(***************************************************************************)
\* The stream holds the last record, or the rest of it, or nothing.
LastOnly(q, sent, log) ==
    /\ Len(q) \in {0, 1, 2, 4}
    /\ ToSet(log) = 1..(IF Len(q) = 4 THEN sent - 1 ELSE sent)

SkipInv ==
    ~ahead /\ ended = "no" =>
        /\ LastOnly(up, sentUp, served) /\ LastOnly(down, sentDown, seen)
        /\ Len(up) = 4 => down = <<>>
        /\ Len(up) = 4 =>
              \/ up[1].kind = "JOIN" /\ ~insession /\ ~member
              \/ up[1].kind = "LEAVE_SESS" /\ ~insession /\ member
              \/ up[1].kind = "MESSAGE" /\ insession /\ member
        /\ Len(down) = 4 =>
              \/ down[1].kind = "JN_ACK" /\ ~insession /\ member
              \/ down[1].kind = "MESSAGE" /\ insession /\ member
        /\ Len(up) # 4 /\ Len(down) # 4 => insession = member
        /\ Len(down) \in {1, 2} =>
              \/ rpacket = "JN_ACK" /\ insession
              \/ rpacket = "MESSAGE"

LEMMA AppendAdds ==
    ASSUME NEW log \in Seq(Nat), NEW v \in Nat
    PROVE  ToSet(Append(log, v)) = ToSet(log) \cup {v}
<1> DEFINE r == Append(log, v)
<1>1. /\ DOMAIN log = 1..Len(log) /\ DOMAIN r = 1..(Len(log) + 1) /\ Len(log) \in Nat
      /\ r[Len(log) + 1] = v /\ \A i \in 1..Len(log) : r[i] = log[i]
  OBVIOUS
<1> HIDE DEF r
<1>2. \A i \in 1..(Len(log) + 1) : i \in 1..Len(log) \/ i = Len(log) + 1
  BY <1>1
<1>3. ToSet(r) \subseteq ToSet(log) \cup {v}
  BY <1>1, <1>2 DEF ToSet
<1>4. ToSet(log) \subseteq ToSet(r) /\ v \in ToSet(r)
  <2>1. Len(log) + 1 \in DOMAIN r /\ \A i \in DOMAIN log : i \in DOMAIN r
    BY <1>1
  <2> QED BY <1>1, <2>1 DEF ToSet
<1> QED BY <1>3, <1>4 DEF r

\* A read that does not end the program: the header of the record, or the last
\* of its padding.
ReadsOn(q, k, m, sent, log, r) ==
    /\ Len(r) \in {0, 1, 2}
    /\ \/ /\ Len(q) = 4 /\ m = [kind |-> q[1].kind, n |-> sent] /\ sent \in Nat \ {0}
          /\ LastOnly(r, sent, Append(log, sent))
       \/ Len(q) = 1 /\ m = Nothing /\ LastOnly(r, sent, log) /\ Len(r) = 0

LEMMA LastRead ==
    ASSUME NEW sent \in Nat, NEW q, Shape(q, sent), NEW log \in Seq(Nat), LastOnly(q, sent, log),
           NEW k, NEW r, Popped(q, k, sent, r), NEW m, Means(q, k, m), m # Exits
    PROVE  ReadsOn(q, k, m, sent, log, r)
<1>1. /\ Len(q) \in {1, 2, 4} /\ k \in 1..4 /\ k <= Len(q) /\ Len(r) = Len(q) - k
      /\ Len(q) <= 4 * sent
  BY SMTT(30) DEF LastOnly, Popped, Shape
<1> DEFINE n == q[1].n
           p == q[1].part
<1>2. n \in Nat /\ p \in 1..4 /\ 4 * n + p = (4 * sent - Len(q) + 1) + 4
  <2>1. Placed(q[1], 4 * sent - Len(q) + 1)
    BY <1>1 DEF Shape
  <2> QED BY <2>1 DEF Placed
<1>3. /\ Len(q) = 4 => p = 1 /\ n = sent
      /\ Len(q) = 2 => p = 3
      /\ Len(q) = 1 => p = 4
      /\ sent >= 1
  <2> HIDE DEF n, p
  <2>1. CASE Len(q) = 4
    BY <1>2, <1>1, <2>1
  <2>2. CASE Len(q) = 2
    BY <1>2, <1>1, <2>2
  <2>3. CASE Len(q) = 1
    BY <1>2, <1>1, <2>3
  <2> QED BY <1>1, <2>1, <2>2, <2>3
<1>4. Len(q) # 2
  BY <1>3 DEF Means
<1>5. CASE Len(q) = 4
  <2>1. m = [kind |-> q[1].kind, n |-> sent] /\ k >= 2
    BY <1>3, <1>5 DEF Means
  <2>2. Len(r) \in {0, 1, 2}
    BY <1>1, <1>5, <2>1
  <2>3. ToSet(Append(log, sent)) = 1..sent
    <3>1. ToSet(log) = 1..(sent - 1)
      BY <1>5 DEF LastOnly
    <3>2. ToSet(Append(log, sent)) = (1..(sent - 1)) \cup {sent}
      BY <3>1, AppendAdds
    <3>3. (1..(sent - 1)) \cup {sent} = 1..sent
      BY <1>3
    <3> QED BY <3>2, <3>3
  <2>4. LastOnly(r, sent, Append(log, sent))
    <3>1. Len(r) # 4
      BY <1>1, <1>5, <2>1
    <3>2. Len(r) \in {0, 1, 2, 4}
      BY <2>2
    <3> QED BY <2>3, <3>1, <3>2 DEF LastOnly
  <2> QED BY <1>3, <1>5, <2>1, <2>2, <2>4 DEF ReadsOn
<1>6. CASE Len(q) = 1
  <2>1. m = Nothing
    BY <1>3, <1>6 DEF Means
  <2>2. Len(r) = 0
    BY <1>1, <1>6
  <2>3. LastOnly(r, sent, log)
    BY <1>6, <2>2 DEF LastOnly
  <2> QED BY <1>6, <2>1, <2>2, <2>3 DEF ReadsOn
<1> QED BY <1>1, <1>4, <1>5, <1>6

LEMMA LastPushed ==
    ASSUME NEW sent \in Nat, NEW q, q = <<>>, NEW log, LastOnly(q, sent, log), NEW kind, NEW r,
           Pushed(q, kind, sent, r)
    PROVE  Len(r) = 4 /\ r[1].kind = kind /\ LastOnly(r, sent + 1, log)
<1>1. Len(q) = 0
  OBVIOUS
<1>2. Len(r) = 4 /\ \A j \in 1..4 : r[j].kind = kind
  BY <1>1 DEF Pushed
<1>3. ToSet(log) = 1..((sent + 1) - 1)
  BY <1>1 DEF LastOnly
<1> QED BY <1>2, <1>3 DEF LastOnly

LEMMA SkipRequest == ASSUME OrderInv, SkipInv, Request PROVE SkipInv'
<1> SUFFICES ASSUME ~ahead, ended = "no", up = <<>>, down = <<>> PROVE SkipInv'
  BY DEF Request, SkipInv, OrderInv
<1>1. UNCHANGED <<down, sentDown, member, rpacket, ended, served, seen, short>>
  BY DEF Request
<1>2. PICK kind \in {"JOIN", "LEAVE_SESS", "MESSAGE"} :
        /\ kind = "JOIN" <=> ~insession
        /\ insession' = (insession /\ kind # "LEAVE_SESS")
        /\ Pushed(up, kind, sentUp, up')
  BY RequestPushes
<1>3. sentUp \in Nat /\ sentUp' = sentUp + 1
  BY RequestPushes DEF OrderInv
<1>4. Len(up) = 0 /\ Len(down) = 0
  OBVIOUS
<1>5. /\ LastOnly(up, sentUp, served) /\ LastOnly(down, sentDown, seen)
      /\ insession = member
  BY <1>4 DEF SkipInv
<1>6. Len(up') = 4 /\ up'[1].kind = kind /\ LastOnly(up', sentUp', served)
  BY <1>2, <1>3, <1>5, LastPushed
<1>7. \/ up'[1].kind = "JOIN" /\ ~insession' /\ ~member
      \/ up'[1].kind = "LEAVE_SESS" /\ ~insession' /\ member
      \/ up'[1].kind = "MESSAGE" /\ insession' /\ member
  BY <1>2, <1>5, <1>6
<1>8. down' = <<>> /\ Len(down') = 0 /\ LastOnly(down', sentDown', seen') /\ member' = member
      /\ served' = served
  BY <1>1, <1>4, <1>5
<1> QED BY <1>6, <1>7, <1>8 DEF SkipInv

LEMMA SkipServer == ASSUME OrderInv, SkipInv, ended = "no", NEW k, ServerRecv(k) PROVE SkipInv'
<1> SUFFICES ASSUME ~ahead, ended' = "no" PROVE SkipInv'
  BY DEF ServerRecv, SkipInv
<1>1. PICK m \in Parsed(up, k) : served' = Logged(served, m) /\ Handles(m.kind)
  BY DEF ServerRecv
<1>2. /\ k \in Takes(up) /\ up' = SubSeq(up, k + 1, Len(up))
      /\ UNCHANGED <<sentUp, insession, rpacket, seen, ahead>>
  BY DEF ServerRecv
<1>3. sentUp \in Nat /\ sentDown \in Nat /\ Shape(up, sentUp) /\ Shape(down, sentDown)
      /\ served \in Seq(Nat) /\ OrderInv'
  BY ServerRecvOrdered DEF OrderInv, Log
<1>4. Means(up, k, m) /\ Popped(up, k, sentUp, up')
  BY <1>2, <1>3, ParsedMeans, PopShape
<1>5. LastOnly(up, sentUp, served) /\ LastOnly(down, sentDown, seen)
  BY DEF SkipInv
<1>6. m # Exits
  BY <1>1 DEF Exits, Handles
<1>7. ReadsOn(up, k, m, sentUp, served, up')
  BY <1>3, <1>4, <1>5, <1>6, LastRead
<1>8. Len(up') \in {0, 1, 2} /\ Len(up') # 4
  <2>1. Len(up') \in {0, 1, 2}
    BY <1>7 DEF ReadsOn
  <2> QED BY <2>1
<1>9. CASE /\ Len(up) = 4 /\ m = [kind |-> up[1].kind, n |-> sentUp] /\ sentUp # 0
           /\ LastOnly(up', sentUp, Append(served, sentUp))
  <2>1. LastOnly(up', sentUp', served')
    BY <1>1, <1>2, <1>9 DEF Logged
  <2>2. down = <<>> /\ Len(down) = 0
    BY <1>9 DEF SkipInv
  <2> DEFINE kind == up[1].kind
  <2>3. Handles(kind)
    BY <1>1, <1>9
  <2>4. \/ kind = "JOIN" /\ ~insession /\ ~member
        \/ kind = "LEAVE_SESS" /\ ~insession /\ member
        \/ kind = "MESSAGE" /\ insession /\ member
    BY <1>9 DEF SkipInv
  <2> HIDE DEF kind
  <2>5. ASSUME NEW x \in {"JN_ACK", "MESSAGE"}, Replies(x)
        PROVE  Len(down') = 4 /\ down'[1].kind = x /\ LastOnly(down', sentDown', seen')
    <3>1. x \in Kinds /\ sentDown' = sentDown + 1 /\ sentDown' \in 0..MaxRecords
      BY <1>3, <2>5 DEF Kinds, Replies, OrderInv
    <3>2. sentDown + 1 \in 1..MaxRecords
      BY <1>3, <3>1, FramingAssumption
    <3>3. Pushed(down, x, sentDown, down')
      BY <1>3, <2>5, <3>1, <3>2, PushShape DEF Replies
    <3>4. Len(down') = 4 /\ down'[1].kind = x /\ LastOnly(down', sentDown + 1, seen)
      BY <1>3, <1>5, <2>2, <3>3, LastPushed
    <3> QED BY <1>2, <3>1, <3>4
  <2>6. CASE kind = "JOIN"
    <3>1. Replies("JN_ACK") /\ member' = TRUE /\ ~insession
      BY <2>3, <2>4, <2>6 DEF Handles
    <3>2. Len(down') = 4 /\ down'[1].kind = "JN_ACK" /\ LastOnly(down', sentDown', seen')
      BY <2>5, <3>1
    <3>3. Len(down') \notin {1, 2}
      BY <3>2
    <3> QED BY <1>2, <1>8, <2>1, <3>1, <3>2, <3>3 DEF SkipInv
  <2>7. CASE kind = "LEAVE_SESS"
    <3>1. UNCHANGED <<down, sentDown>> /\ member' = FALSE /\ ~insession
      BY <2>3, <2>4, <2>7 DEF Handles, Silent
    <3>2. Len(down') = 0 /\ LastOnly(down', sentDown', seen')
      BY <1>2, <1>5, <2>2, <3>1
    <3>3. Len(down') \notin {1, 2} /\ Len(down') # 4
      BY <3>2
    <3>4. insession' = member'
      BY <1>2, <3>1 DEF OrderInv
    <3> QED BY <1>2, <1>8, <2>1, <3>2, <3>3, <3>4 DEF SkipInv
  <2>8. CASE kind = "MESSAGE"
    <3>1. Replies("MESSAGE") /\ member' = member /\ member /\ insession
      BY <2>3, <2>4, <2>8 DEF Handles
    <3>2. Len(down') = 4 /\ down'[1].kind = "MESSAGE" /\ LastOnly(down', sentDown', seen')
      BY <2>5, <3>1
    <3>3. Len(down') \notin {1, 2}
      BY <3>2
    <3> QED BY <1>2, <1>8, <2>1, <3>1, <3>2, <3>3 DEF SkipInv
  <2> QED BY <2>4, <2>6, <2>7, <2>8
<1>10. CASE Len(up) = 1 /\ m = Nothing /\ LastOnly(up', sentUp, served)
  <2>1. served' = served /\ UNCHANGED <<down, sentDown, member>>
    BY <1>1, <1>10 DEF Nothing, Handles, Silent, Logged
  <2>2. Len(up) # 4
    BY <1>10
  <2> QED BY <1>2, <1>8, <1>10, <2>1, <2>2 DEF SkipInv
<1> QED BY <1>7, <1>9, <1>10 DEF ReadsOn

LEMMA SkipClient == ASSUME OrderInv, SkipInv, ended = "no", NEW k, ClientRecv(k) PROVE SkipInv'
<1> SUFFICES ASSUME ~ahead, ended' = "no" PROVE SkipInv'
  BY DEF ClientRecv, SkipInv
<1>1. PICK m \in Parsed(down, k) :
        /\ rpacket' = IF m \in {Nothing, Exits} THEN rpacket ELSE m.kind
        /\ seen' = IF m # Nothing THEN Logged(seen, m)
                   ELSE IF seen = <<>> THEN seen ELSE Append(seen, Last(seen))
        /\ IF m = Exits THEN ended' = "client" /\ UNCHANGED insession
           ELSE Acts(rpacket') /\ UNCHANGED ended
  BY DEF ClientRecv
<1>2. /\ k \in Takes(down) /\ down' = SubSeq(down, k + 1, Len(down))
      /\ UNCHANGED <<up, sentUp, sentDown, member, served, ahead>>
  BY DEF ClientRecv
<1>3. sentDown \in Nat /\ Shape(down, sentDown) /\ seen \in Seq(Nat)
  BY FramingAssumption DEF OrderInv, Log
<1>4. Means(down, k, m) /\ Popped(down, k, sentDown, down')
  BY <1>2, <1>3, ParsedMeans, PopShape
<1>5. LastOnly(up, sentUp, served) /\ LastOnly(down, sentDown, seen)
  BY DEF SkipInv
<1>6. m # Exits
  BY <1>1
<1>7. ReadsOn(down, k, m, sentDown, seen, down')
  BY <1>3, <1>4, <1>5, <1>6, LastRead
<1>8. Len(down') \in {0, 1, 2} /\ Len(down') # 4
  <2>1. Len(down') \in {0, 1, 2}
    BY <1>7 DEF ReadsOn
  <2> QED BY <2>1
<1>9. Len(up) # 4
  <2>1. Len(down) # 0
    BY <1>7 DEF ReadsOn
  <2>2. down # <<>>
    BY <2>1
  <2> QED BY <2>2 DEF SkipInv
<1>10. insession' = IF rpacket' = "JN_NAK" THEN FALSE ELSE insession \/ rpacket' = "JN_ACK"
  BY <1>1, <1>6 DEF Acts
<1>11. CASE /\ Len(down) = 4 /\ m = [kind |-> down[1].kind, n |-> sentDown] /\ sentDown # 0
            /\ LastOnly(down', sentDown, Append(seen, sentDown))
  <2>1. m # Nothing /\ rpacket' = down[1].kind
    BY <1>1, <1>6, <1>11 DEF Nothing
  <2>2. LastOnly(down', sentDown', seen')
    BY <1>1, <1>2, <1>11, <2>1 DEF Logged
  <2>3. \/ rpacket' = "JN_ACK" /\ insession' /\ member
        \/ rpacket' = "MESSAGE" /\ insession' /\ member
    BY <1>10, <1>11, <2>1 DEF SkipInv, OrderInv
  <2>4. insession' = member
    BY <1>10, <1>11, <2>1 DEF SkipInv, OrderInv
  <2> QED BY <1>2, <1>5, <1>8, <1>9, <2>2, <2>3, <2>4 DEF SkipInv
<1>12. CASE Len(down) = 1 /\ m = Nothing /\ LastOnly(down', sentDown, seen) /\ Len(down') = 0
  <2>1. rpacket' = rpacket /\ seen' = IF seen = <<>> THEN seen ELSE Append(seen, Last(seen))
    BY <1>1, <1>12
  <2>2. (rpacket = "JN_ACK" /\ insession) \/ rpacket = "MESSAGE"
    BY <1>12 DEF SkipInv
  <2>3. insession' = insession
    BY <1>10, <2>1, <2>2 DEF OrderInv
  <2>4. insession = member
    BY <1>9, <1>12 DEF SkipInv
  <2>5. ToSet(seen') = ToSet(seen)
    <3>1. CASE seen = <<>>
      BY <2>1, <3>1
    <3>2. CASE seen # <<>>
      <4>1. Last(seen) = seen[Len(seen)] /\ Len(seen) \in DOMAIN seen
        BY <1>3, <3>2 DEF Last
      <4>2. Last(seen) \in Nat /\ Last(seen) \in ToSet(seen)
        BY <1>3, <4>1 DEF ToSet
      <4>3. seen' = Append(seen, Last(seen))
        BY <2>1, <3>2
      <4>4. ToSet(Append(seen, Last(seen))) = ToSet(seen) \cup {Last(seen)}
        BY <1>3, <4>2, AppendAdds
      <4> QED BY <4>2, <4>3, <4>4
    <3> QED BY <3>1, <3>2
  <2>6. LastOnly(down', sentDown', seen')
    BY <1>2, <1>12, <2>5 DEF LastOnly
  <2>7. Len(down') \notin {1, 2} /\ Len(down') # 4
    BY <1>12
  <2> QED BY <1>2, <1>5, <1>9, <2>3, <2>4, <2>6, <2>7 DEF SkipInv
<1> QED BY <1>7, <1>11, <1>12 DEF ReadsOn

\* While no request was made ahead, a stream holds one record or its rest.
THEOREM SkipInvHolds == Spec => []SkipInv
<1>1. Init => SkipInv
  <2> SUFFICES ASSUME Init PROVE SkipInv
    OBVIOUS
  <2>1. Len(<<>>) = 0 /\ ToSet(<<>>) = {}
    BY DEF ToSet
  <2>2. LastOnly(<<>>, 0, <<>>)
    BY <2>1 DEF LastOnly
  <2>3. /\ up = <<>> /\ down = <<>> /\ sentUp = 0 /\ sentDown = 0
        /\ served = <<>> /\ seen = <<>> /\ insession = member
    BY DEF Init
  <2>4. LastOnly(up, sentUp, served) /\ LastOnly(down, sentDown, seen)
        /\ Len(up) = 0 /\ Len(down) = 0
    BY <2>1, <2>2, <2>3
  <2> QED BY <2>3, <2>4 DEF SkipInv
<1>2. OrderInv /\ SkipInv /\ [Next]_vars => SkipInv'
  <2> SUFFICES ASSUME OrderInv, SkipInv, [Next]_vars PROVE SkipInv'
    OBVIOUS
  <2>1. CASE UNCHANGED vars
    BY <2>1 DEF vars, SkipInv
  <2> QED BY <2>1, SkipRequest, SkipServer, SkipClient DEF Next
<1> QED BY <1>1, <1>2, Ordered, PTL DEF Spec

\* If the user waits until all has been read before the next request, then
\* however the reads are cut, either a program has ended or, all being read,
\* every record has been acted on and the two sides agree on the membership.
THEOREM NothingSkipped == Spec => []NoneSkipped
<1>1. SkipInv => NoneSkipped
  <2> SUFFICES ASSUME SkipInv, ~ahead, ended = "no", up = <<>>, down = <<>>
               PROVE  /\ ToSet(served) = 1..sentUp /\ ToSet(seen) = 1..sentDown
                      /\ insession = member
    BY DEF NoneSkipped
  <2>1. Len(up) = 0 /\ Len(down) = 0
    OBVIOUS
  <2> QED BY <2>1 DEF SkipInv, LastOnly
<1> QED BY <1>1, SkipInvHolds, PTL

=============================================================================
