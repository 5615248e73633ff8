--------------------------- MODULE SharedListsProofs ---------------------------
(***************************************************************************)
(* Proofs about SharedLists, for any number of threads, session cells and  *)
(* packets, until two changes clash.                                       *)
(***************************************************************************)
EXTENDS SharedLists, RecursionLemmas, FiniteSetTheorems

Owners == Sessions \cup {List}
Nodes == Sessions \cup Threads
Cells == Nodes \cup {NULL}

\* What the pointers lead to.
Chains == [x \in Owners |-> Chain(x)]

\* The i-th node, or the NULL behind the last.
Item(q, i) == IF i \in 1..Len(q) THEN q[i] ELSE NULL

\* From the pointer h the pointers f lead along q and to NULL.
Path(q, h, f) ==
    /\ q \in Seq(Nodes)
    /\ \A i, j \in 1..Len(q) : q[i] = q[j] => i = j
    /\ h = Item(q, 1)
    /\ \A i \in 1..Len(q) : f[q[i]] = Item(q, i + 1)

LEMMA Apart ==
    /\ NULL \notin Nodes /\ NULL \notin Owners /\ NULL \notin Threads /\ NULL \notin Sessions
    /\ NULL \notin Ids /\ List \in Owners /\ List \notin Nodes
    /\ Sessions \subseteq Owners /\ Sessions \subseteq Nodes /\ Threads \subseteq Nodes
    /\ \A c \in Threads : c \notin Sessions
    /\ IsFiniteSet(Nodes) /\ Cardinality(Nodes) \in Nat
    /\ MaxOps \in Nat /\ MaxLate \in Nat
<1>1. IsFiniteSet(Nodes)
  BY SharedAssumption, FS_Union DEF Nodes
<1>2. Cardinality(Nodes) \in Nat
  BY <1>1, FS_CardinalityType
<1> QED BY <1>1, <1>2, SharedAssumption DEF Nodes, Owners

-----------------------------------------------------------------------------
(***************************************************************************)
(* Chain and Nth for given pointers: where there is a path, they find it.  *)
(***************************************************************************)
NthOf(h, f, n) ==
    LET walk[k \in 0..n] == IF k = 0 THEN h ELSE f[walk[k - 1]]
    IN  walk[n]

ChainOf(h, f) ==
    [n \in {k \in 1..Cardinality(Sessions \cup Threads) : NthOf(h, f, k - 1) # NULL}
        |-> NthOf(h, f, n - 1)]

LEMMA NthIs == \A x, n : Nth(x, n) = NthOf(first[x], nxt, n)
BY DEF Nth, NthOf

LEMMA ChainIs == Chains = [x \in Owners |-> ChainOf(first[x], nxt)]
BY DEF Nth, NthOf, Chain, ChainOf, Chains

LEMMA PathIsLeads == \A q, h, f : Path(q, h, f) <=> Leads(q, h, f, Nodes, NULL)
BY DEF Path, Leads, Item, ItemOr, Distinct

LEMMA NthOfPath ==
    ASSUME NEW q, NEW h, NEW f, Path(q, h, f), f[NULL] = NULL, NEW n \in Nat
    PROVE  NthOf(h, f, n) = Item(q, n + 1)
<1> DEFINE Good(w) == w = [k \in 0..n |-> IF k = 0 THEN h ELSE f[w[k - 1]]]
           g == [k \in 0..n |-> Item(q, k + 1)]
<1>1. q \in Seq(Nodes) /\ Len(q) \in Nat
  BY DEF Path
<1>2. Good(g)
  <2>1. ASSUME NEW k \in 0..n PROVE g[k] = IF k = 0 THEN h ELSE f[g[k - 1]]
    <3>1. CASE k = 0
      BY <3>1 DEF Path
    <3>2. CASE k # 0
      <4>1. k - 1 \in 0..n /\ (k - 1) + 1 = k
        BY <3>2
      <4>2. g[k - 1] = Item(q, k)
        BY <4>1
      <4>3. CASE k \in 1..Len(q)
        <5>1. Item(q, k) = q[k] /\ f[q[k]] = Item(q, k + 1)
          BY <4>3 DEF Item, Path
        <5> QED BY <3>2, <4>2, <5>1
      <4>4. CASE k \notin 1..Len(q)
        <5>1. Item(q, k) = NULL /\ Item(q, k + 1) = NULL
          BY <1>1, <3>2, <4>4 DEF Item
        <5> QED BY <3>2, <4>2, <5>1
      <4> QED BY <4>3, <4>4
    <3> QED BY <3>1, <3>2
  <2> QED BY <2>1
<1>3. ASSUME NEW w, Good(w) PROVE w[n] = Item(q, n + 1)
  <2>1. \A k \in 0..n : w[k] = IF k = 0 THEN h ELSE f[w[k - 1]]
    <3> DEFINE v == w
    <3>1. w = [k \in 0..n |-> IF k = 0 THEN h ELSE f[v[k - 1]]]
      BY <1>3
    <3> HIDE DEF v
    <3>2. \A k \in 0..n : w[k] = IF k = 0 THEN h ELSE f[v[k - 1]]
      BY <3>1
    <3> QED BY <3>2 DEF v
  <2>2. w[0] = h /\ \A k \in 1..n : w[k] = IF w[k - 1] = NULL THEN NULL ELSE f[w[k - 1]]
    BY <2>1
  <2>3. \A k \in 0..n : w[k] = ItemOr(q, k + 1, NULL)
    BY <2>2, PathIsLeads, LeadsWalk, Apart
  <2> QED BY <2>3 DEF Item, ItemOr
<1> DEFINE walk == CHOOSE w : Good(w)
<1>4. Good(walk)
  <2> HIDE DEF Good, g
  <2> QED BY <1>2
<1>5. walk[n] = Item(q, n + 1)
  <2> HIDE DEF walk, Good
  <2> QED BY <1>3, <1>4
<1>6. NthOf(h, f, n) = walk[n]
  BY DEF NthOf
<1> QED BY <1>5, <1>6

LEMMA PathShort ==
    ASSUME NEW q, NEW h, NEW f, Path(q, h, f)
    PROVE  Len(q) \in Nat /\ Len(q) <= Cardinality(Nodes)
<1>1. q \in Seq(Nodes) /\ Distinct(q)
  BY DEF Path, Distinct
<1> QED BY <1>1, Apart, DistinctShort

LEMMA ChainOfPath ==
    ASSUME NEW q, NEW h, NEW f, Path(q, h, f), f[NULL] = NULL
    PROVE  ChainOf(h, f) = q
<1>1. q \in Seq(Nodes) /\ Len(q) \in Nat /\ Len(q) <= Cardinality(Nodes) /\ Cardinality(Nodes) \in Nat
  BY PathShort, Apart DEF Path
<1> DEFINE D == {k \in 1..Cardinality(Nodes) : NthOf(h, f, k - 1) # NULL}
<1>2. \A k \in 1..Cardinality(Nodes) : NthOf(h, f, k - 1) = Item(q, k)
  <2>1. ASSUME NEW k \in 1..Cardinality(Nodes) PROVE NthOf(h, f, k - 1) = Item(q, k)
    <3>1. k - 1 \in Nat /\ (k - 1) + 1 = k
      BY <1>1
    <3>2. NthOf(h, f, k - 1) = Item(q, (k - 1) + 1)
      BY <3>1, NthOfPath
    <3> QED BY <3>1, <3>2
  <2> QED BY <2>1
<1>3. \A k \in 1..Len(q) : q[k] # NULL
  BY <1>1, Apart
<1>4. D = 1..Len(q)
  BY <1>1, <1>2, <1>3 DEF Item
<1>5. ChainOf(h, f) = [k \in D |-> NthOf(h, f, k - 1)]
  BY DEF ChainOf, Nodes
<1>6. \A k \in 1..Len(q) : NthOf(h, f, k - 1) = q[k]
  BY <1>1, <1>2 DEF Item
<1> HIDE DEF D
<1>7. ChainOf(h, f) = [k \in 1..Len(q) |-> q[k]]
  BY <1>4, <1>5, <1>6
<1> QED BY <1>1, <1>7

-----------------------------------------------------------------------------
(***************************************************************************)
(* What the stores of the list functions do to a path.                     *)
(***************************************************************************)
LEMMA AppendMeans ==
    ASSUME NEW q \in Seq(Nodes), NEW y \in Nodes
    PROVE  LET r == Append(q, y) IN
           /\ r \in Seq(Nodes) /\ Len(r) = Len(q) + 1 /\ Len(q) \in Nat /\ r # <<>>
           /\ r[Len(q) + 1] = y /\ \A i \in 1..Len(q) : r[i] = q[i]
           /\ \A i \in 1..Len(r) : i \in 1..Len(q) \/ i = Len(q) + 1
           /\ \A x : In(x, r) <=> In(x, q) \/ x = y
BY AppendGives

LEMMA RemoveMeans ==
    ASSUME NEW q \in Seq(Nodes), NEW m \in 1..Len(q)
    PROVE  LET r == RemoveAt(q, m) IN
           /\ r \in Seq(Nodes) /\ Len(r) = Len(q) - 1 /\ Len(q) \in Nat /\ Len(r) \in Nat
           /\ \A i \in 1..Len(r) : r[i] = IF i < m THEN q[i] ELSE q[i + 1]
           /\ (\A i, j \in 1..Len(q) : q[i] = q[j] => i = j) =>
                 \A x : In(x, r) <=> In(x, q) /\ x # q[m]
<1>1. RemoveAt(q, m) = Without(q, m)
  BY DEF RemoveAt, Without
<1>2. Distinct(q) => \A x : In(x, Without(q, m)) <=> In(x, q) /\ x # q[m]
  BY RemoveHas
<1>3. LET r == Without(q, m) IN
      /\ r \in Seq(Nodes) /\ Len(r) = Len(q) - 1 /\ Len(q) \in Nat /\ Len(r) \in Nat
      /\ \A i \in 1..Len(r) : r[i] = IF i < m THEN q[i] ELSE q[i + 1]
  BY RemoveGives
<1> QED BY <1>1, <1>2, <1>3 DEF Distinct

LEMMA ItemMeans ==
    ASSUME NEW q \in Seq(Nodes), NEW i \in Nat
    PROVE  /\ Item(q, i) = NULL <=> i \notin 1..Len(q)
           /\ i \in 1..Len(q) => Item(q, i) = q[i] /\ In(Item(q, i), q)
           /\ q # <<>> => 1 \in 1..Len(q) /\ Len(q) \in 1..Len(q)
BY Apart DEF Item, In

LEMMA PathStays ==
    ASSUME NEW q, NEW h, NEW f, Path(q, h, f), NEW g,
           \A y : In(y, q) => g[y] = f[y]
    PROVE  Path(q, h, g)
<1>1. \A i \in 1..Len(q) : In(q[i], q)
  BY DEF In
<1> QED BY <1>1 DEF Path

LEMMA AppendPath ==
    ASSUME NEW q, NEW h, NEW f \in [Cells -> Cells], Path(q, h, f),
           NEW y \in Nodes, ~In(y, q), f[y] = NULL,
           NEW h2, NEW g,
           \/ q = <<>> /\ h2 = y /\ g = f
           \/ q # <<>> /\ h2 = h /\ g = [f EXCEPT ![q[Len(q)]] = y]
    PROVE  Path(Append(q, y), h2, g)
<1>1. q \in Seq(Nodes) /\ \A i \in 1..Len(q) : q[i] \in Cells /\ q[i] # y
  BY DEF Path, In, Cells
<1>2. q # <<>> => Len(q) \in 1..Len(q)
  BY <1>1
<1>3. g[y] = NULL
  BY <1>1, <1>2 DEF Cells
<1>4. \A i \in 1..Len(q) : g[q[i]] = IF i = Len(q) THEN y ELSE f[q[i]]
  BY <1>1, <1>2 DEF Path
<1>5. h2 = IF q = <<>> THEN y ELSE h
  OBVIOUS
<1>6. Leads(Append(q, y), h2, g, Nodes, NULL)
  BY <1>3, <1>4, <1>5, PathIsLeads, LeadsAppend
<1> QED BY <1>6, PathIsLeads

LEMMA RemovePath ==
    ASSUME NEW q, NEW h, NEW f \in [Cells -> Cells], Path(q, h, f), NEW m \in 1..Len(q),
           NEW h2, NEW g,
           \/ m = 1 /\ h2 = f[q[1]] /\ g = f
           \/ m # 1 /\ h2 = h /\ g = [f EXCEPT ![q[m - 1]] = f[q[m]]]
    PROVE  Path(RemoveAt(q, m), h2, g)
<1>1. /\ q \in Seq(Nodes) /\ Len(q) \in Nat /\ m \in Nat
      /\ \A i \in 1..Len(q) : q[i] \in Cells
  BY DEF Path, Cells
<1>2. m # 1 => m - 1 \in 1..Len(q)
  BY <1>1
<1>3. \A i \in 1..Len(q) : i # m => g[q[i]] = IF i = m - 1 THEN f[q[m]] ELSE f[q[i]]
  BY <1>1, <1>2 DEF Path
<1>4. h2 = IF m = 1 THEN f[q[1]] ELSE h
  OBVIOUS
<1>5. Leads(Without(q, m), h2, g, Nodes, NULL)
  BY <1>3, <1>4, PathIsLeads, LeadsRemove
<1>6. RemoveAt(q, m) = Without(q, m)
  BY DEF RemoveAt, Without
<1> QED BY <1>5, <1>6, PathIsLeads

-----------------------------------------------------------------------------
(***************************************************************************)
(* The invariant.                                                          *)
(***************************************************************************)
Places == {"idle", "search", "lock", "unlock", "enter", "append", "head", "walk", "link",
           "load", "store", "look", "behead", "find", "unlink", "cut", "destroy", "drop",
           "sessions", "members"}

Ops == {"none", "check", "JOIN", "NEW_SESS", "LEAVE", "destroy", "READ"}

Locals == [name : Ids \cup {NULL}, own : Owners, node : Cells, at : Cells, i : Nat, n : Nat]

\* A session's pointer leads to sessions, a client's to clients.
Kinds ==
    /\ \A s \in Sessions : nxt[s] \in Sessions \cup {NULL}
    /\ \A c \in Threads : nxt[c] \in Threads \cup {NULL}

TypeInv ==
    /\ first \in [Owners -> Cells] /\ size \in [Owners -> Nat]
    /\ nxt \in [Cells -> Cells] /\ nxt[NULL] = NULL /\ Kinds
    /\ id \in [Sessions -> Ids \cup {NULL}]
    /\ freed \subseteq Nodes
    /\ mutex \in Threads \cup {NULL}
    /\ joined \in [Threads -> Seq(Ids)]
    /\ pc \in [Threads -> Places] /\ op \in [Threads -> Ops]
    /\ loc \in [Threads -> Locals] /\ ops \in Nat
    /\ seen \in [Threads -> Seq(Threads)] /\ owed \in [Threads -> SUBSET Threads]

Out(c) == \A s \in Sessions : ~In(c, Chains[s])

\* The lists: sessions, and of each session threads, each in one session; of
\* the sessions of one name only the first has clients.
ListInv ==
    /\ \A x \in Owners : Path(Chains[x], first[x], nxt)
    /\ Chains[List] \in Seq(Sessions) /\ \A s \in Sessions : Chains[s] \in Seq(Threads)
    /\ \A s, t \in Sessions, c \in Threads : In(c, Chains[s]) /\ In(c, Chains[t]) => s = t
    /\ \A s \in Sessions :
          /\ In(s, Chains[List]) => s \notin freed /\ id[s] # NULL
          /\ ~In(s, Chains[List]) => Chains[s] = <<>>
          /\ id[s] = NULL => s \notin freed /\ nxt[s] = NULL
    /\ \A i, j \in 1..Len(Chains[List]) :
          i < j /\ Chains[Chains[List][j]] # <<>>
          => id[Chains[List][i]] # id[Chains[List][j]]

\* A client is where its own list says, but on the way in or out.
Leaving(c) ==
    /\ pc[c] \in {"search", "look", "behead", "find", "unlink", "destroy"}
    /\ op[c] \in {"LEAVE", "destroy"}

Entering(c) == pc[c] \in {"append", "head", "walk", "link"} /\ loc[c].node = c

Home(c) ==
    /\ \A s \in Sessions : In(c, Chains[s]) => joined[c] = <<id[s]>> \/ Leaving(c)
    /\ \/ joined[c] = <<>> \/ Entering(c)
       \/ \E s \in Sessions : In(c, Chains[s]) /\ joined[c] = <<id[s]>>
    /\ Out(c) => nxt[c] = NULL \/ (pc[c] = "cut" /\ loc[c].node = c)
    /\ c \in freed => /\ pc[c] = "idle" \/ op[c] = "destroy"
                      /\ joined[c] = <<>> /\ Out(c)

CountInv == \A x \in Owners \ freed : Changing(x) \/ size[x] = Len(Chains[x])

\* Who has the lock.
Turn(c) == mutex = c <=> pc[c] # "idle" /\ op[c] = "JOIN"

\* Until two changes clash, an unlocked change has no other beside it, and who
\* reads beside it is on record as stale.
Races ==
    /\ \A c \in stale : c \in Threads /\ Looking(c)
    /\ \A c, d \in Threads : c # d /\ Unlocked(c) =>
          ~Unlocked(d) /\ ~Locked(d) /\ (Looking(d) => d \in stale)

\* It remains so until it is done.
Strays == \A d \in Threads : d \in stale /\ Looking(d)' => d \in stale'

\* Where the search for a name has come to, and where it ends.
Passed(name, k) == \A j \in 1..k : id[Chains[List][j]] # name

Searching(c, l) ==
    /\ l.name \in Ids
    /\ c \notin stale =>
          /\ l.i <= Len(Chains[List]) /\ l.at = Item(Chains[List], l.i + 1)
          /\ Passed(l.name, l.i)
    /\ joined[c] = <<>>
    /\ \/ op[c] \in {"check", "JOIN", "NEW_SESS"}
       \/ op[c] = "LEAVE" /\ \E s \in Sessions : In(c, Chains[s]) /\ id[s] = l.name
       \/ /\ op[c] = "destroy" /\ l.own = List /\ l.node \in Sessions
          /\ Chains[l.node] = <<c>> /\ id[l.node] = l.name

Found(l) ==
    /\ l.i < Len(Chains[List]) /\ Passed(l.name, l.i)
    /\ id[Chains[List][l.i + 1]] = l.name /\ l.name \in Ids

\* The first session of its name.
Named(s) ==
    \E k \in 1..Len(Chains[List]) : Chains[List][k] = s /\ Passed(id[s], k - 1)

Appending(c, l) ==
    /\ op[c] \in {"JOIN", "NEW_SESS"}
    /\ \/ /\ l.own = List /\ op[c] = "NEW_SESS" /\ joined[c] = <<>>
          /\ l.node \in Sessions \ freed /\ ~In(l.node, Chains[List]) /\ nxt[l.node] = NULL
          /\ l.name \in Ids /\ id[l.node] = l.name
       \/ /\ l.own \in Sessions /\ Named(l.own) /\ l.node = c
          /\ joined[c] = <<id[l.own]>> /\ Out(c)
    /\ pc[c] = "head" => Chains[l.own] = <<>>
    /\ pc[c] = "walk" => In(l.at, Chains[l.own])
    /\ pc[c] = "link" => Chains[l.own] # <<>> /\ l.at = Chains[l.own][Len(Chains[l.own])]

Counting(c, l) ==
    /\ pc[c] = "store" => l.n = size[l.own]
    /\ \/ /\ op[c] \in {"JOIN", "NEW_SESS"} /\ pc[c] # "cut"
          /\ In(l.node, Chains[l.own]) /\ size[l.own] = Len(Chains[l.own]) - 1
          /\ \/ /\ l.own = List /\ op[c] = "NEW_SESS" /\ joined[c] = <<>>
                /\ l.name \in Ids /\ size[l.node] = Len(Chains[l.node])
             \/ /\ l.own \in Sessions /\ l.node = c
                /\ Chains[l.own][Len(Chains[l.own])] = c
       \/ /\ op[c] = "LEAVE" /\ l.own \in Sessions /\ In(l.own, Chains[List])
          /\ l.node = c /\ joined[c] = <<>> /\ Chains[l.own] # <<>>
          /\ size[l.own] = Len(Chains[l.own]) + 1
       \/ /\ op[c] = "destroy" /\ l.own = List /\ joined[c] = <<>>
          /\ l.node \in Sessions \ freed /\ ~In(l.node, Chains[List]) /\ id[l.node] # NULL
          /\ size[List] = Len(Chains[List]) + 1

\* On the way out: what the thread looks at.
Removing(c, l) ==
    /\ op[c] = "LEAVE" /\ joined[c] = <<>>
    /\ pc[c] = "look" => l.i < Len(Chains[List]) /\ In(c, Chains[Chains[List][l.i + 1]])
    /\ pc[c] # "look" =>
          /\ l.own \in Sessions
          /\ \E m \in 1..Len(Chains[l.own]) :
                /\ Chains[l.own][m] = c
                /\ pc[c] = "behead" => m = 1 /\ Len(Chains[l.own]) > 1 /\ l.node = c
                /\ pc[c] = "find" => \E k \in 1..(m - 1) : l.at = Chains[l.own][k]
                /\ pc[c] = "unlink" => m > 1 /\ l.at = Chains[l.own][m - 1]

Dropping(c, l) ==
    /\ op[c] = "destroy" /\ joined[c] = <<>> /\ l.own = List /\ l.node \in Sessions
    /\ l.i < Len(Chains[List]) /\ Chains[List][l.i + 1] = l.node
    /\ Chains[l.node] = IF pc[c] = "destroy" THEN <<c>> ELSE <<>>

\* A reader that is not stale is at a client of the session, or at the NULL it
\* found behind the last: then those that have come since are not owed anything.
Tracking(c, l) ==
    /\ \A d \in owed[c] : ~Out(d) /\ pc[d] \notin {"load", "store"}
    /\ pc[c] = "sessions" => l.i <= Len(Chains[List]) /\ l.at = Item(Chains[List], l.i + 1)
    /\ pc[c] = "members" =>
          /\ l.i < Len(Chains[List]) /\ l.own = Chains[List][l.i + 1]
          /\ \/ l.n < Len(Chains[l.own]) /\ l.node = Chains[l.own][l.n + 1]
             \/ /\ l.n <= Len(Chains[l.own]) /\ l.node = NULL
                /\ \A k \in (l.n + 1)..Len(Chains[l.own]) : Chains[l.own][k] \notin owed[c]

Reading(c, l) ==
    /\ op[c] = "READ"
    /\ pc[c] = "sessions" => l.at \in Sessions \cup {NULL}
    /\ pc[c] = "members" => l.own \in Sessions /\ l.node \in Threads \cup {NULL}
    /\ c \notin stale => Tracking(c, l)

Place(c) ==
    /\ pc[c] = "search" => Searching(c, loc[c])
    /\ pc[c] = "lock" => op[c] = "check" /\ loc[c].name \in Ids /\ joined[c] = <<>>
    /\ pc[c] = "unlock" => op[c] = "JOIN"
    /\ pc[c] = "enter" => op[c] \in {"JOIN", "NEW_SESS"} /\ joined[c] = <<>> /\ Found(loc[c])
    /\ pc[c] \in {"append", "head", "walk", "link"} => Appending(c, loc[c])
    /\ pc[c] \in {"cut", "load", "store"} => Counting(c, loc[c])
    /\ pc[c] \in {"look", "behead", "find", "unlink"} => Removing(c, loc[c])
    /\ pc[c] \in {"destroy", "drop"} => Dropping(c, loc[c])
    /\ pc[c] \in {"sessions", "members"} => Reading(c, loc[c])

AllInv ==
    /\ TypeInv /\ ListInv /\ CountInv /\ OnlyReadersOverrun
    /\ \A c \in Threads : Home(c) /\ Turn(c) /\ Place(c)

-----------------------------------------------------------------------------
(***************************************************************************)
(* The lists after a step.                                                 *)
(***************************************************************************)
LEMMA ChainsStay == UNCHANGED <<first, nxt>> => Chains' = Chains
<1>1. Chains' = [x \in Owners |-> ChainOf(first'[x], nxt')]
  BY DEF Nth, NthOf, Chain, ChainOf, Chains
<1> QED BY <1>1, ChainIs

LEMMA ChainsBecome ==
    ASSUME NEW Q, \A x \in Owners : Path(Q[x], first'[x], nxt'), nxt'[NULL] = NULL,
           Q = [x \in Owners |-> Q[x]]
    PROVE  Chains' = Q
<1>1. Chains' = [x \in Owners |-> ChainOf(first'[x], nxt')]
  BY DEF Nth, NthOf, Chain, ChainOf, Chains
<1>2. \A x \in Owners : ChainOf(first'[x], nxt') = Q[x]
  BY ChainOfPath
<1> QED BY <1>1, <1>2

LEMMA ListFacts ==
    ASSUME TypeInv, ListInv
    PROVE  /\ \A x \in Owners :
                 /\ Chains[x] \in Seq(Nodes) /\ Len(Chains[x]) \in Nat
                 /\ first[x] = Item(Chains[x], 1)
                 /\ \A i \in 1..Len(Chains[x]) :
                       /\ nxt[Chains[x][i]] = Item(Chains[x], i + 1)
                       /\ Chains[x][i] \in Nodes /\ Chains[x][i] # NULL
                 /\ \A n \in Nat : Nth(x, n) = Item(Chains[x], n + 1)
           /\ \A i \in 1..Len(Chains[List]) :
                 Chains[List][i] \in Sessions /\ Chains[List][i] \notin freed
           /\ \A s \in Sessions : \A i \in 1..Len(Chains[s]) : Chains[s][i] \in Threads
           /\ \A x, z \in Owners : \A y : In(y, Chains[x]) /\ In(y, Chains[z]) => x = z
           /\ Chains = [x \in Owners |-> Chains[x]]
<1>1. \A x \in Owners : Path(Chains[x], first[x], nxt) /\ Chains[x] \in Seq(Nodes)
  BY DEF ListInv, Path
<1>2. ASSUME NEW x \in Owners
      PROVE  /\ Chains[x] \in Seq(Nodes) /\ Len(Chains[x]) \in Nat
             /\ first[x] = Item(Chains[x], 1)
             /\ \A i \in 1..Len(Chains[x]) :
                       /\ nxt[Chains[x][i]] = Item(Chains[x], i + 1)
                       /\ Chains[x][i] \in Nodes /\ Chains[x][i] # NULL
             /\ \A n \in Nat : Nth(x, n) = Item(Chains[x], n + 1)
  <2>1. /\ Chains[x] \in Seq(Nodes) /\ Len(Chains[x]) \in Nat
        /\ first[x] = Item(Chains[x], 1)
        /\ \A i \in 1..Len(Chains[x]) : nxt[Chains[x][i]] = Item(Chains[x], i + 1)
    BY <1>1 DEF Path
  <2>2. \A i \in 1..Len(Chains[x]) : Chains[x][i] \in Nodes /\ Chains[x][i] # NULL
    BY <2>1, Apart
  <2>3. \A n \in Nat : Nth(x, n) = Item(Chains[x], n + 1)
    <3>1. Path(Chains[x], first[x], nxt) /\ nxt[NULL] = NULL
      BY <1>1 DEF TypeInv
    <3> QED BY <3>1, NthIs, NthOfPath
  <2> QED BY <2>1, <2>2, <2>3
<1>3. \A i \in 1..Len(Chains[List]) :
         Chains[List][i] \in Sessions /\ Chains[List][i] \notin freed
  <2>1. Chains[List] \in Seq(Sessions) /\ \A s \in Sessions : In(s, Chains[List]) => s \notin freed
    BY DEF ListInv
  <2> QED BY <2>1 DEF In
<1>4. \A s \in Sessions : Chains[s] \in Seq(Threads)
  BY DEF ListInv
<1>5. \A s \in Sessions : \A i \in 1..Len(Chains[s]) : Chains[s][i] \in Threads
  BY <1>4
<1>6. ASSUME NEW x \in Owners, NEW z \in Owners, NEW y, In(y, Chains[x]), In(y, Chains[z])
      PROVE  x = z
  <2>1. \A u \in Owners : u = List \/ u \in Sessions
    BY DEF Owners
  <2>2. In(y, Chains[List]) => y \in Sessions
    BY <1>3 DEF In
  <2>3. \A u \in Sessions : In(y, Chains[u]) => y \in Threads
    BY <1>5 DEF In
  <2>4. y \in Threads => \A u, v \in Sessions : In(y, Chains[u]) /\ In(y, Chains[v]) => u = v
    BY DEF ListInv
  <2> QED BY <1>6, <2>1, <2>2, <2>3, <2>4, Apart
<1>7. Chains = [x \in Owners |-> Chains[x]]
  BY DEF Chains
<1> QED BY <1>2, <1>3, <1>5, <1>6, <1>7

\* y is appended to own's list.
LEMMA ChainsAppend ==
    ASSUME TypeInv, ListInv, NEW own \in Owners, NEW y \in Nodes, nxt[y] = NULL,
           \A x \in Owners : ~In(y, Chains[x]),
           \/ /\ Chains[own] = <<>> /\ first' = [first EXCEPT ![own] = y] /\ nxt' = nxt
           \/ /\ Chains[own] # <<>> /\ first' = first
              /\ nxt' = [nxt EXCEPT ![Chains[own][Len(Chains[own])]] = y]
    PROVE  /\ Chains' = [Chains EXCEPT ![own] = Append(@, y)]
           /\ \A x \in Owners : Path(Chains'[x], first'[x], nxt')
           /\ nxt'[NULL] = NULL
<1> DEFINE q == Chains[own]
           Q == [Chains EXCEPT ![own] = Append(q, y)]
<1>1. \A x \in Owners : Path(Chains[x], first[x], nxt)
  BY DEF ListInv
<1>2. first \in [Owners -> Cells] /\ nxt \in [Cells -> Cells] /\ nxt[NULL] = NULL
  BY DEF TypeInv
<1>3. Chains = [x \in Owners |-> Chains[x]] /\ q \in Seq(Nodes)
      /\ \A x \in Owners : In(q[Len(q)], Chains[x]) /\ In(q[Len(q)], q) => x = own
  BY ListFacts
<1>4. Path(Append(q, y), first'[own], nxt')
  <2>1. \/ q = <<>> /\ first'[own] = y /\ nxt' = nxt
        \/ q # <<>> /\ first'[own] = first[own] /\ nxt' = [nxt EXCEPT ![q[Len(q)]] = y]
    BY <1>2
  <2>2. Path(q, first[own], nxt) /\ ~In(y, q)
    BY <1>1
  <2> HIDE DEF q
  <2> QED BY <1>2, <2>1, <2>2, AppendPath
<1>5. q # <<>> => q[Len(q)] \in Cells /\ q[Len(q)] # NULL /\ In(q[Len(q)], q)
  <2>1. q # <<>> => Len(q) \in 1..Len(q)
    BY <1>3, ItemMeans
  <2>2. q # <<>> => q[Len(q)] \in Nodes /\ In(q[Len(q)], q)
    BY <1>3, <2>1 DEF In
  <2> QED BY <2>2, Apart DEF Cells
<1>6. ASSUME NEW x \in Owners, x # own PROVE Path(Chains[x], first'[x], nxt')
  <2>1. first'[x] = first[x]
    BY <1>2, <1>6
  <2>2. \A z : In(z, Chains[x]) => nxt'[z] = nxt[z]
    <3>1. CASE q = <<>>
      BY <3>1
    <3>2. CASE q # <<>>
      <4>1. \A z \in Cells : z # q[Len(q)] => nxt'[z] = nxt[z]
        BY <1>2, <3>2
      <4>2. ~In(q[Len(q)], Chains[x])
        BY <1>3, <1>5, <1>6, <3>2
      <4>3. \A z : In(z, Chains[x]) => z \in Cells
        BY ListFacts DEF In, Cells
      <4> QED BY <4>1, <4>2, <4>3
    <3> QED BY <3>1, <3>2
  <2>3. Path(Chains[x], first[x], nxt)
    BY <1>1
  <2> QED BY <2>1, <2>2, <2>3, PathStays
<1>7. nxt'[NULL] = NULL
  <2> HIDE DEF q
  <2>1. CASE q = <<>>
    BY <1>2, <2>1 DEF q
  <2>2. CASE q # <<>>
    <3>1. nxt' = [nxt EXCEPT ![q[Len(q)]] = y]
      BY <2>2 DEF q
    <3>2. NULL \in Cells /\ q[Len(q)] # NULL
      BY <1>5, <2>2 DEF Cells
    <3> QED BY <1>2, <3>1, <3>2
  <2> QED BY <2>1, <2>2
<1>8. \A x \in Owners : Q[x] = IF x = own THEN Append(q, y) ELSE Chains[x]
  BY <1>3
<1>9. Q = [x \in Owners |-> Q[x]]
  BY <1>3
<1>10. \A x \in Owners : Path(Q[x], first'[x], nxt')
  <2> HIDE DEF Q, q
  <2> QED BY <1>4, <1>6, <1>8
<1>11. Chains' = Q
  <2> HIDE DEF Q
  <2> QED BY <1>7, <1>9, <1>10, ChainsBecome
<1>12. \A x \in Owners : Path(Chains'[x], first'[x], nxt')
  <2> HIDE DEF Q
  <2> QED BY <1>10, <1>11
<1> QED BY <1>7, <1>11, <1>12

\* The m-th node is taken out of own's list.
LEMMA ChainsRemove ==
    ASSUME TypeInv, ListInv, NEW own \in Owners, NEW m \in 1..Len(Chains[own]),
           \/ /\ m = 1 /\ first' = [first EXCEPT ![own] = nxt[Chains[own][1]]] /\ nxt' = nxt
           \/ /\ m # 1 /\ first' = first
              /\ nxt' = [nxt EXCEPT ![Chains[own][m - 1]] = nxt[Chains[own][m]]]
    PROVE  /\ Chains' = [Chains EXCEPT ![own] = RemoveAt(@, m)]
           /\ \A x \in Owners : Path(Chains'[x], first'[x], nxt')
           /\ nxt'[NULL] = NULL
<1> DEFINE q == Chains[own]
           Q == [Chains EXCEPT ![own] = RemoveAt(q, m)]
<1>1. \A x \in Owners : Path(Chains[x], first[x], nxt)
  BY DEF ListInv
<1>2. first \in [Owners -> Cells] /\ nxt \in [Cells -> Cells] /\ nxt[NULL] = NULL
  BY DEF TypeInv
<1>3. Chains = [x \in Owners |-> Chains[x]] /\ q \in Seq(Nodes) /\ Len(q) \in Nat
      /\ \A x \in Owners : \A z : In(z, Chains[x]) /\ In(z, q) => x = own
  BY ListFacts
<1>4. Path(RemoveAt(q, m), first'[own], nxt')
  <2>1. \/ m = 1 /\ first'[own] = nxt[q[1]] /\ nxt' = nxt
        \/ m # 1 /\ first'[own] = first[own] /\ nxt' = [nxt EXCEPT ![q[m - 1]] = nxt[q[m]]]
    BY <1>2
  <2>2. Path(q, first[own], nxt) /\ m \in 1..Len(q)
    BY <1>1
  <2> HIDE DEF q
  <2> QED BY <1>2, <2>1, <2>2, RemovePath
<1>5. m # 1 => q[m - 1] \in Cells /\ q[m - 1] # NULL /\ In(q[m - 1], q)
  <2>1. m # 1 => m - 1 \in 1..Len(q)
    BY <1>3
  <2>2. m # 1 => q[m - 1] \in Nodes /\ In(q[m - 1], q)
    BY <1>3, <2>1 DEF In
  <2> QED BY <2>2, Apart DEF Cells
<1>6. ASSUME NEW x \in Owners, x # own PROVE Path(Chains[x], first'[x], nxt')
  <2>1. first'[x] = first[x]
    BY <1>2, <1>6
  <2>2. \A z : In(z, Chains[x]) => nxt'[z] = nxt[z]
    <3>1. CASE m = 1
      BY <3>1
    <3>2. CASE m # 1
      <4>1. \A z \in Cells : z # q[m - 1] => nxt'[z] = nxt[z]
        BY <1>2, <3>2
      <4>2. ~In(q[m - 1], Chains[x])
        BY <1>3, <1>5, <1>6, <3>2
      <4>3. \A z : In(z, Chains[x]) => z \in Cells
        BY ListFacts DEF In, Cells
      <4> QED BY <4>1, <4>2, <4>3
    <3> QED BY <3>1, <3>2
  <2>3. Path(Chains[x], first[x], nxt)
    BY <1>1
  <2> QED BY <2>1, <2>2, <2>3, PathStays
<1>7. nxt'[NULL] = NULL
  <2>1. CASE m = 1
    BY <1>2, <2>1
  <2>2. CASE m # 1
    <3>1. nxt' = [nxt EXCEPT ![q[m - 1]] = nxt[q[m]]]
      BY <2>2
    <3>2. NULL \in Cells /\ q[m - 1] # NULL
      BY <1>5, <2>2 DEF Cells
    <3> HIDE DEF q
    <3> QED BY <1>2, <3>1, <3>2
  <2> QED BY <2>1, <2>2
<1>8. \A x \in Owners : Q[x] = IF x = own THEN RemoveAt(q, m) ELSE Chains[x]
  BY <1>3
<1>9. Q = [x \in Owners |-> Q[x]]
  BY <1>3
<1>10. \A x \in Owners : Path(Q[x], first'[x], nxt')
  <2> HIDE DEF Q, q
  <2> QED BY <1>4, <1>6, <1>8
<1>11. Chains' = Q
  <2> HIDE DEF Q
  <2> QED BY <1>7, <1>9, <1>10, ChainsBecome
<1>12. \A x \in Owners : Path(Chains'[x], first'[x], nxt')
  <2> HIDE DEF Q
  <2> QED BY <1>10, <1>11
<1> QED BY <1>7, <1>11, <1>12

-----------------------------------------------------------------------------
(***************************************************************************)
(* Steps of one thread that leave the lists alone.                         *)
(***************************************************************************)
Same(d) ==
    /\ joined'[d] = joined[d] /\ pc'[d] = pc[d] /\ op'[d] = op[d]
    /\ loc'[d] = loc[d] /\ owed'[d] = owed[d]

Others(c) == \A d \in Threads \ {c} : Same(d)

Busy == {"drop", "cut", "load", "store"}

Calm(c) ==
    \/ pc[c] \notin Busy /\ pc'[c] \notin Busy
    \/ /\ pc[c] = "load" /\ pc'[c] = "store"
       /\ loc'[c].own = loc[c].own /\ loc'[c].node = loc[c].node

LEMMA HomeStays ==
    ASSUME Chains' = Chains, UNCHANGED <<nxt, id, freed>>, NEW d \in Threads, Home(d), Same(d)
    PROVE  Home(d)'
<1>1. Out(d)' <=> Out(d)
  BY DEF Out
<1>2. Leaving(d)' <=> Leaving(d)
  BY DEF Leaving, Same
<1>3. Entering(d)' <=> Entering(d)
  BY DEF Entering, Same
<1> HIDE DEF Out, Leaving, Entering
<1> QED BY <1>1, <1>2, <1>3 DEF Home, Same

LEMMA PlaceStays ==
    ASSUME Chains' = Chains, UNCHANGED <<first, size, nxt, id, freed>>,
           NEW d \in Threads, Place(d), Same(d),
           \A e \in Threads : pc'[e] \in {"load", "store"} => pc[e] \in {"load", "store"},
           owed[d] \subseteq Threads, d \in stale => d \in stale'
    PROVE  Place(d)'
<1>1. pc[d] = "search" => Searching(d, loc[d])'
  BY DEF Place, Same, Searching, Passed
<1>2. pc[d] = "enter" => Found(loc[d])'
  BY DEF Place, Same, Found, Passed
<1>3. pc[d] \in {"append", "head", "walk", "link"} => Appending(d, loc[d])'
  <2>1. Out(d)' <=> Out(d)
    BY DEF Out
  <2>2. \A x : Named(x)' <=> Named(x)
    BY DEF Named, Passed
  <2> HIDE DEF Out, Named
  <2> QED BY <2>1, <2>2 DEF Place, Same, Appending
<1>4. pc[d] \in {"cut", "load", "store"} => Counting(d, loc[d])'
  BY DEF Place, Same, Counting
<1>5. pc[d] \in {"look", "behead", "find", "unlink"} => Removing(d, loc[d])'
  BY DEF Place, Same, Removing
<1>6. pc[d] \in {"destroy", "drop"} => Dropping(d, loc[d])'
  BY DEF Place, Same, Dropping
<1>7. pc[d] \in {"sessions", "members"} => Reading(d, loc[d])'
  <2>1. \A e : Out(e)' <=> Out(e)
    BY DEF Out
  <2> HIDE DEF Out
  <2> QED BY <2>1 DEF Place, Same, Reading, Tracking
<1> HIDE DEF Searching, Found, Appending, Counting, Removing, Dropping, Reading
<1> QED BY <1>1, <1>2, <1>3, <1>4, <1>5, <1>6, <1>7 DEF Place, Same

\* Whoever is stale stays so, while it is at the same place.
LEMMA StaleStays ==
    ASSUME Races, Strays, NEW d \in Threads, Same(d)
    PROVE  /\ d \in stale => d \in stale'
           /\ d \in stale => pc[d] # "idle" /\ op[d] \in {"check", "READ"}
BY DEF Races, Strays, Same, Looking

LEMMA QuietStep ==
    ASSUME AllInv, Races, Strays, NEW c \in Threads, UNCHANGED <<first, size, nxt, id, freed>>,
           Others(c), Calm(c), TypeInv', OnlyReadersOverrun',
           Home(c)', Place(c)', \A d \in Threads : Turn(d)'
    PROVE  AllInv' /\ Chains' = Chains
<1>1. Chains' = Chains
  BY ChainsStay
<1>2. ListInv'
  BY <1>1 DEF AllInv, ListInv
<1>3. \A x : Changing(x)' <=> Changing(x)
  <2>1. \A d \in Threads : d = c \/ (pc'[d] = pc[d] /\ loc'[d] = loc[d])
    BY DEF Others, Same
  <2> QED BY <2>1 DEF Calm, Busy, Changing
<1>4. CountInv'
  <2> HIDE DEF Changing
  <2> QED BY <1>1, <1>3 DEF AllInv, CountInv
<1>5. ASSUME NEW d \in Threads PROVE Home(d)' /\ Place(d)'
  <2>1. CASE d = c
    BY <2>1
  <2>2. CASE d # c
    <3>1. Same(d) /\ Home(d) /\ Place(d) /\ owed[d] \subseteq Threads
      BY <2>2 DEF Others, AllInv, TypeInv
    <3>2. \A e \in Threads : pc'[e] \in {"load", "store"} => pc[e] \in {"load", "store"}
      BY DEF Others, Same, Calm, Busy
    <3> QED BY <1>1, <3>1, <3>2, StaleStays, HomeStays, PlaceStays
  <2> QED BY <2>1, <2>2
<1> QED BY <1>1, <1>2, <1>4, <1>5 DEF AllInv

LEMMA TurnStays ==
    ASSUME NEW c \in Threads, \A d \in Threads : Turn(d), Others(c), pc[c] # "idle",
           mutex' = mutex,
           pc'[c] = "idle" => op'[c] # "JOIN" /\ op[c] # "JOIN",
           op'[c] = "JOIN" <=> op[c] = "JOIN"
    PROVE  \A d \in Threads : Turn(d)'
<1>1. ASSUME NEW d \in Threads PROVE Turn(d)'
  <2>1. CASE d = c
    BY <2>1 DEF Turn, Others, Same
  <2>2. CASE d # c
    BY <2>2 DEF Turn, Others, Same
  <2> QED BY <2>1, <2>2
<1> QED BY <1>1

\* The thread goes on within a list function.
LEMMA MoveStep ==
    ASSUME AllInv, Races, Strays, NEW c \in Threads, NEW to \in Places, NEW l \in Locals,
           Moves(c, to, l), UNCHANGED heap, fault' = "none",
           pc[c] # "idle", to # "idle", Calm(c), pc[c] # "cut",
           Leaving(c) => Leaving(c)', Entering(c) => Entering(c)', Place(c)'
    PROVE  AllInv' /\ Chains' = Chains
<1>1. UNCHANGED <<first, size, nxt, id, freed>>
  BY DEF heap
<1>2. Others(c) /\ pc'[c] = to /\ loc'[c] = l
  BY DEF Moves, Goes, AllInv, TypeInv, Others, Same, history
<1>3. TypeInv'
  BY DEF Moves, Goes, AllInv, TypeInv, heap, history, Kinds
<1>4. OnlyReadersOverrun'
  BY DEF OnlyReadersOverrun
<1>5. \A d \in Threads : Turn(d)'
  <2>1. op' = op /\ mutex' = mutex
    BY DEF Moves
  <2> QED BY <1>2, <2>1, TurnStays DEF AllInv
<1>6. Home(c)'
  <2>1. Chains' = Chains
    BY <1>1, ChainsStay
  <2>2. Out(c)' <=> Out(c)
    BY <2>1 DEF Out
  <2>3. Home(c) /\ joined' = joined /\ op' = op
    BY DEF AllInv, Moves
  <2> HIDE DEF Out, Leaving, Entering
  <2> QED BY <1>1, <2>1, <2>2, <2>3 DEF Home
<1> QED BY <1>1, <1>2, <1>3, <1>4, <1>5, <1>6, QuietStep

\* A node of a list is there, and not freed.
LEMMA Live ==
    ASSUME AllInv, NEW x \in Owners, NEW y, In(y, Chains[x])
    PROVE  y \in Nodes /\ y \in Cells /\ y # NULL /\ y \notin freed
<1>1. TypeInv /\ ListInv
  BY DEF AllInv
<1>2. y \in Nodes /\ y # NULL
  BY <1>1, ListFacts DEF In
<1>3. CASE x = List
  BY <1>1, <1>2, <1>3, ListFacts DEF In, Cells
<1>4. CASE x # List
  <2>1. x \in Sessions /\ y \in Threads
    BY <1>1, <1>4, ListFacts DEF In, Owners
  <2>2. Home(y) /\ ~Out(y)
    BY <2>1 DEF AllInv, Out
  <2> QED BY <1>2, <2>2 DEF Home, Cells
<1> QED BY <1>3, <1>4

\* Who is at work beside an unlocked change.
LEMMA Meets ==
    ASSUME AllInv, Races, NEW c \in Threads, NEW d \in Threads \ {c}, Unlocked(c), pc[d] # "idle"
    PROVE  d \in stale
<1>1. op[d] \in Ops /\ pc[d] \in Places /\ Place(d)
  BY DEF AllInv, TypeInv
<1>2. op[d] # "none"
  BY <1>1 DEF Place, Places, Searching, Appending, Counting, Removing, Dropping, Reading
<1> QED BY <1>1, <1>2 DEF Races, Unlocked, Locked, Looking, Ops

\* While a thread is on its way the sessions are counted.
LEMMA ListCount ==
    ASSUME AllInv, Races, NEW c \in Threads, c \notin stale,
           pc[c] \notin {"idle", "cut", "load", "store", "drop"}
    PROVE  size[List] = Len(Chains[List])
<1>1. ASSUME NEW d \in Threads,
             \/ pc[d] \in {"cut", "load", "store"} /\ loc[d].own = List
             \/ pc[d] \in {"drop", "cut", "load", "store"} /\ loc[d].node = List
      PROVE  FALSE
  <2>1. d # c /\ Place(d) /\ loc[d].node # List
    <3>1. loc[d] \in Locals /\ List \notin Cells
      BY Apart DEF AllInv, TypeInv, Cells
    <3> QED BY <1>1, <3>1 DEF AllInv, Locals
  <2>2. pc[d] \in {"cut", "load", "store"} /\ Counting(d, loc[d])
    BY <1>1, <2>1 DEF Place
  <2>3. op[d] \in {"JOIN", "NEW_SESS", "LEAVE", "destroy"}
    BY <2>2 DEF Counting
  <2>4. op[d] # "LEAVE" /\ op[d] # "JOIN"
    BY <1>1, <2>1, <2>2, Apart DEF Counting, Owners
  <2>5. Unlocked(d)
    BY <2>2, <2>3, <2>4 DEF Unlocked
  <2> QED BY <2>1, <2>5, Meets
<1>2. ~Changing(List)
  BY <1>1 DEF Changing
<1>3. List \in Owners \ freed
  BY Apart DEF AllInv, TypeInv
<1> QED BY <1>2, <1>3 DEF AllInv, CountInv

LEMMA MoveFacts ==
    ASSUME AllInv, NEW c \in Threads, NEW to, NEW l, Moves(c, to, l), UNCHANGED heap
    PROVE  /\ pc'[c] = to /\ loc'[c] = l /\ Chains' = Chains
           /\ UNCHANGED <<op, joined, mutex, owed, seen, first, size, nxt, id, freed>>
           /\ \A d : Out(d)' <=> Out(d)
           /\ \A s : Named(s)' <=> Named(s)
           /\ \A d \in Threads : d # c => pc'[d] = pc[d]
<1>1. UNCHANGED <<op, joined, mutex, owed, seen, first, size, nxt, id, freed>>
  BY DEF Moves, heap, history
<1>2. Chains' = Chains
  BY <1>1, ChainsStay
<1>3. \A d : Out(d)' <=> Out(d)
  BY <1>2 DEF Out
<1>4. \A s : Named(s)' <=> Named(s)
  BY <1>1, <1>2 DEF Named, Passed
<1>5. pc'[c] = to /\ loc'[c] = l /\ \A d \in Threads : d # c => pc'[d] = pc[d]
  BY DEF Moves, Goes, AllInv, TypeInv
<1> QED BY <1>1, <1>2, <1>3, <1>4, <1>5

LEMMA OwnerLive ==
    ASSUME AllInv, NEW c \in Threads, Appending(c, loc[c]) \/ Counting(c, loc[c])
    PROVE  loc[c].own \in Owners /\ loc[c].own # NULL /\ loc[c].own \notin freed
<1> DEFINE l == loc[c]
<1>1. l \in Locals /\ TypeInv /\ ListInv
  BY DEF AllInv, TypeInv
<1>2. l.own \in Owners /\ l.own # NULL
  BY <1>1, Apart DEF Locals
<1>3. CASE l.own = List
  BY <1>1, <1>2, <1>3, Apart DEF TypeInv
<1>4. CASE l.own # List
  <2>1. l.own \in Sessions
    BY <1>2, <1>4 DEF Owners
  <2>2. In(l.own, Chains[List])
    <3>1. CASE Appending(c, l)
      BY <1>4, <3>1 DEF Appending, Named, In
    <3>2. CASE Counting(c, l)
      <4>1. In(l.own, Chains[List]) \/ Chains[l.own] # <<>>
        <5>1. In(l.node, Chains[l.own]) => Chains[l.own] # <<>>
          BY DEF In
        <5> QED BY <1>4, <3>2, <5>1 DEF Counting
      <4> QED BY <1>1, <2>1, <4>1 DEF ListInv
    <3> QED BY <3>1, <3>2
  <2> QED BY <1>2, <2>2, Live, Apart
<1> QED BY <1>2, <1>3, <1>4

LEMMA AppendToStep ==
    ASSUME AllInv, Races, Strays, NEW c \in Threads, fault = "none", AppendTo(c)
    PROVE  AllInv' /\ Chains' = Chains
<1> DEFINE l == loc[c]
           q == Chains[l.own]
           h == first[l.own]
<1>1. pc[c] = "append" /\ Appending(c, l) /\ l \in Locals
  BY DEF AppendTo, AllInv, TypeInv, Place
<1>2. l.own \in Owners /\ l.own # NULL /\ l.own \notin freed
  BY <1>1, OwnerLive
<1>3. q \in Seq(Nodes) /\ h = Item(q, 1)
  BY <1>2, ListFacts DEF AllInv
<1>4. /\ h = NULL => Moves(c, "head", l)
      /\ h # NULL => Moves(c, "walk", [l EXCEPT !.at = h])
      /\ fault' = fault /\ UNCHANGED heap
  BY <1>2 DEF AppendTo, Reads
<1>5. CASE h = NULL
  <2>1. q = <<>> /\ Moves(c, "head", l)
    BY <1>3, <1>4, <1>5, ItemMeans
  <2>2. Calm(c) /\ ~Leaving(c) /\ (Entering(c) => Entering(c)') /\ Place(c)'
    BY <1>1, <1>4, <2>1, MoveFacts
    DEF Calm, Busy, Leaving, Entering, Place, Appending
  <2> QED BY <1>1, <1>4, <2>1, <2>2, MoveStep DEF Places
<1>6. CASE h # NULL
  <2> DEFINE m == [l EXCEPT !.at = h]
  <2>1. In(h, q) /\ Moves(c, "walk", m) /\ m \in Locals
    BY <1>1, <1>2, <1>3, <1>4, <1>6, ItemMeans, Live DEF Locals
  <2>2. m.own = l.own /\ m.node = l.node /\ m.at = h /\ m.name = l.name
    BY <1>1 DEF Locals
  <2> HIDE DEF m
  <2>3. Calm(c) /\ ~Leaving(c) /\ (Entering(c) => Entering(c)') /\ Place(c)'
    BY <1>1, <1>4, <2>1, <2>2, MoveFacts
    DEF Calm, Busy, Leaving, Entering, Place, Appending
  <2> QED BY <1>1, <1>4, <2>1, <2>3, MoveStep DEF Places
<1> QED BY <1>5, <1>6

LEMMA WalkStep ==
    ASSUME AllInv, Races, Strays, NEW c \in Threads, fault = "none", Walk(c)
    PROVE  AllInv' /\ Chains' = Chains
<1> DEFINE l == loc[c]
           q == Chains[l.own]
           h == nxt[l.at]
<1>1. pc[c] = "walk" /\ Appending(c, l) /\ l \in Locals
  BY DEF Walk, AllInv, TypeInv, Place
<1>2. l.own \in Owners /\ In(l.at, q)
  BY <1>1, OwnerLive DEF Appending
<1>3. q \in Seq(Nodes)
  BY <1>2, ListFacts DEF AllInv
<1>4. /\ h = NULL => Moves(c, "link", l)
      /\ h # NULL => Moves(c, "walk", [l EXCEPT !.at = h])
      /\ fault' = fault /\ UNCHANGED heap
  BY <1>2, Live DEF Walk, Reads
<1>5. PICK k \in 1..Len(q) : l.at = q[k]
  BY <1>2 DEF In
<1>6. h = Item(q, k + 1) /\ Len(q) \in Nat
  BY <1>2, <1>5, ListFacts DEF AllInv
<1>7. CASE h = NULL
  <2>1. q # <<>> /\ l.at = q[Len(q)] /\ Moves(c, "link", l)
    <3>1. k + 1 \notin 1..Len(q)
      BY <1>3, <1>5, <1>6, <1>7, ItemMeans
    <3>2. k = Len(q) /\ q # <<>>
      BY <1>6, <3>1
    <3> QED BY <1>4, <1>5, <1>7, <3>2
  <2>2. Calm(c) /\ ~Leaving(c) /\ (Entering(c) => Entering(c)') /\ Place(c)'
    BY <1>1, <1>4, <2>1, MoveFacts
    DEF Calm, Busy, Leaving, Entering, Place, Appending
  <2> QED BY <1>1, <1>4, <2>1, <2>2, MoveStep DEF Places
<1>8. CASE h # NULL
  <2> DEFINE m == [l EXCEPT !.at = h]
  <2>1. In(h, q) /\ Moves(c, "walk", m) /\ m \in Locals
    <3>1. In(h, q)
      BY <1>3, <1>5, <1>6, <1>8, ItemMeans
    <3> QED BY <1>1, <1>2, <1>4, <1>8, <3>1, Live DEF Locals
  <2>2. m.own = l.own /\ m.node = l.node /\ m.at = h /\ m.name = l.name
    BY <1>1 DEF Locals
  <2> HIDE DEF m
  <2>3. Calm(c) /\ ~Leaving(c) /\ (Entering(c) => Entering(c)') /\ Place(c)'
    BY <1>1, <1>4, <2>1, <2>2, MoveFacts
    DEF Calm, Busy, Leaving, Entering, Place, Appending
  <2> QED BY <1>1, <1>4, <2>1, <2>3, MoveStep DEF Places
<1> QED BY <1>7, <1>8

LEMMA LoadStep ==
    ASSUME AllInv, Races, Strays, NEW c \in Threads, fault = "none", Load(c)
    PROVE  AllInv' /\ Chains' = Chains
<1> DEFINE l == loc[c]
           m == [l EXCEPT !.n = size[l.own]]
<1>1. pc[c] = "load" /\ Counting(c, l) /\ l \in Locals
  BY DEF Load, AllInv, TypeInv, Place
<1>2. l.own \in Owners /\ size[l.own] \in Nat
  BY <1>1, OwnerLive DEF AllInv, TypeInv
<1>3. Moves(c, "store", m) /\ fault' = fault /\ UNCHANGED heap
  BY <1>1, OwnerLive DEF Load, Reads
<1>4. /\ m \in Locals /\ m.n = size[l.own] /\ m.own = l.own /\ m.node = l.node
      /\ m.name = l.name /\ m.i = l.i /\ m.at = l.at
  BY <1>1, <1>2 DEF Locals
<1> HIDE DEF m
<1>5. Calm(c) /\ ~Leaving(c) /\ ~Entering(c) /\ Place(c)'
  <2>1. /\ pc'[c] = "store" /\ loc'[c] = m /\ Chains' = Chains
        /\ UNCHANGED <<op, joined, first, size, nxt, id, freed>>
    BY <1>3, MoveFacts
  <2>2. Counting(c, loc[c])'
    BY <1>1, <1>4, <2>1 DEF Counting
  <2> QED BY <1>1, <1>4, <2>1, <2>2 DEF Calm, Busy, Leaving, Entering, Place
<1> QED BY <1>1, <1>3, <1>4, <1>5, MoveStep DEF Places

LEMMA FindStep ==
    ASSUME AllInv, Races, Strays, NEW c \in Threads, fault = "none", Find(c)
    PROVE  AllInv' /\ Chains' = Chains
<1> DEFINE l == loc[c]
           q == Chains[l.own]
           h == nxt[l.at]
<1>1. pc[c] = "find" /\ Removing(c, l) /\ l \in Locals
  BY DEF Find, AllInv, TypeInv, Place
<1>2. PICK p \in 1..Len(q) : q[p] = c /\ \E k \in 1..(p - 1) : l.at = q[k]
  BY <1>1 DEF Removing
<1>3. PICK k \in 1..(p - 1) : l.at = q[k]
  BY <1>2
<1>4. l.own \in Sessions /\ l.own \in Owners /\ q \in Seq(Nodes) /\ Len(q) \in Nat
  BY <1>1, ListFacts DEF AllInv, Removing, Owners
<1>5. k \in 1..Len(q) /\ k + 1 \in 1..Len(q) /\ k + 1 <= p
  BY <1>3, <1>4
<1>6. In(l.at, q) /\ h = q[k + 1] /\ In(h, q)
  BY <1>3, <1>4, <1>5, ListFacts DEF AllInv, In, Item
<1>7. /\ h = c => Moves(c, "unlink", l)
      /\ h # c => Moves(c, "find", [l EXCEPT !.at = h])
      /\ fault' = fault /\ UNCHANGED heap
  BY <1>4, <1>6, Live DEF Find, Reads
<1>8. CASE h = c
  <2>1. p = k + 1 /\ Moves(c, "unlink", l)
    <3>1. \A i, j \in 1..Len(q) : q[i] = q[j] => i = j
      BY <1>4 DEF AllInv, ListInv, Path
    <3> QED BY <1>2, <1>5, <1>6, <1>7, <1>8, <3>1
  <2>2. p > 1 /\ l.at = q[p - 1]
    BY <1>3, <1>5, <2>1
  <2>3. pc'[c] = "unlink" /\ loc'[c] = l /\ Chains' = Chains /\ op' = op /\ joined' = joined
    BY <1>7, <2>1, MoveFacts
  <2>4. Removing(c, loc[c])'
    BY <1>1, <1>2, <2>2, <2>3 DEF Removing
  <2>5. Calm(c) /\ Leaving(c)' /\ ~Entering(c) /\ Place(c)'
    BY <1>1, <2>3, <2>4 DEF Calm, Busy, Leaving, Entering, Place, Removing
  <2> QED BY <1>1, <1>7, <2>1, <2>5, MoveStep DEF Places
<1>9. CASE h # c
  <2> DEFINE m == [l EXCEPT !.at = h]
  <2>1. k + 1 \in 1..(p - 1) /\ h \in Cells /\ Moves(c, "find", m)
    <3>1. k + 1 # p
      BY <1>2, <1>6, <1>9
    <3> QED BY <1>4, <1>5, <1>6, <1>7, <1>9, <3>1, Live
  <2>2. m \in Locals /\ m.own = l.own /\ m.node = l.node /\ m.at = q[k + 1] /\ m.name = l.name
    BY <1>1, <1>6, <2>1 DEF Locals
  <2> HIDE DEF m
  <2>3. pc'[c] = "find" /\ loc'[c] = m /\ Chains' = Chains /\ op' = op /\ joined' = joined
    BY <1>7, <2>1, MoveFacts
  <2>4. Removing(c, loc[c])'
    BY <1>1, <1>2, <2>1, <2>2, <2>3 DEF Removing
  <2>5. Calm(c) /\ Leaving(c)' /\ ~Entering(c) /\ Place(c)'
    BY <1>1, <2>3, <2>4 DEF Calm, Busy, Leaving, Entering, Place, Removing
  <2> QED BY <1>1, <1>7, <2>1, <2>2, <2>5, MoveStep DEF Places
<1> QED BY <1>8, <1>9

LEMMA LookStep ==
    ASSUME AllInv, Races, Strays, NEW c \in Threads, fault = "none", Look(c)
    PROVE  AllInv' /\ Chains' = Chains
<1> DEFINE s == Nth(List, loc[c].i)
           q == Chains[s]
           l == [loc[c] EXCEPT !.own = s, !.node = c, !.at = first[s]]
<1>1. pc[c] = "look" /\ Removing(c, loc[c]) /\ loc[c] \in Locals
  BY DEF Look, AllInv, TypeInv, Place
<1>2. s = Chains[List][loc[c].i + 1] /\ In(s, Chains[List]) /\ In(c, q)
  <2>1. loc[c].i < Len(Chains[List]) /\ In(c, Chains[Chains[List][loc[c].i + 1]])
    BY <1>1 DEF Removing
  <2>2. loc[c].i \in Nat /\ Len(Chains[List]) \in Nat /\ Chains[List] \in Seq(Nodes)
    BY <1>1, Apart, ListFacts DEF Locals, AllInv
  <2>3. s = Item(Chains[List], loc[c].i + 1)
    BY <2>2, Apart, ListFacts DEF AllInv
  <2>4. loc[c].i + 1 \in 1..Len(Chains[List])
    BY <2>1, <2>2
  <2> QED BY <2>1, <2>3, <2>4 DEF In, Item
<1>3. s \in Sessions /\ s \in Owners /\ s # NULL /\ s \notin freed
  <2>1. s \in Sessions
    BY <1>2, ListFacts DEF In, AllInv
  <2> QED BY <1>2, <2>1, Live, Apart
<1>4. /\ first[s] # c => Moves(c, "find", l)
      /\ first[s] = c /\ nxt[c] # NULL => Moves(c, "behead", l)
      /\ first[s] = c /\ nxt[c] = NULL =>
            /\ Searches(c, "destroy", [l EXCEPT !.own = List, !.node = s, !.name = id[s]])
            /\ UNCHANGED <<mutex, joined, ops, history>>
      /\ fault' = fault /\ UNCHANGED heap
  BY <1>1, <1>3 DEF Look, Reads
<1>5. q \in Seq(Nodes) /\ Len(q) \in Nat /\ first[s] = Item(q, 1) /\ first[s] \in Cells
  BY <1>3, ListFacts DEF AllInv, TypeInv
<1>6. PICK p \in 1..Len(q) : q[p] = c
  BY <1>2 DEF In
<1>7. first[s] = q[1] /\ nxt[c] = Item(q, p + 1) /\ 1 \in 1..Len(q)
  BY <1>3, <1>5, <1>6, ListFacts DEF AllInv, Item
<1>8. /\ l \in Locals /\ l.own = s /\ l.node = c /\ l.at = first[s]
      /\ l.name = loc[c].name /\ l.i = loc[c].i /\ l.n = loc[c].n
  BY <1>1, <1>3, <1>5, Apart DEF Locals, Cells
<1>9. ~Entering(c) /\ pc[c] \notin Busy
  BY <1>1 DEF Entering, Busy
<1>10. \A i, j \in 1..Len(q) : q[i] = q[j] => i = j
  BY <1>3 DEF AllInv, ListInv, Path
<1>11. op[c] = "LEAVE" /\ joined[c] = <<>>
  BY <1>1 DEF Removing
<1> HIDE DEF l, s
<1>12. CASE first[s] # c
  <2>1. Moves(c, "find", l) /\ p # 1 /\ 1 \in 1..(p - 1)
    BY <1>4, <1>5, <1>6, <1>7, <1>12
  <2>2. pc'[c] = "find" /\ loc'[c] = l /\ Chains' = Chains /\ op' = op /\ joined' = joined
    BY <1>4, <2>1, MoveFacts
  <2>3. Removing(c, loc[c])'
    BY <1>1, <1>3, <1>6, <1>7, <1>8, <2>1, <2>2 DEF Removing
  <2>4. Calm(c) /\ Leaving(c)' /\ Place(c)'
    BY <1>9, <1>11, <2>2, <2>3 DEF Calm, Busy, Leaving, Place
  <2> QED BY <1>1, <1>4, <1>8, <1>9, <2>1, <2>4, MoveStep DEF Places
<1>13. CASE first[s] = c /\ nxt[c] # NULL
  <2>1. Moves(c, "behead", l) /\ p = 1 /\ Len(q) > 1
    <3>1. p = 1
      BY <1>6, <1>7, <1>10, <1>13
    <3>2. p + 1 \in 1..Len(q)
      BY <1>7, <1>13 DEF Item
    <3> QED BY <1>4, <1>5, <1>13, <3>1, <3>2
  <2>2. pc'[c] = "behead" /\ loc'[c] = l /\ Chains' = Chains /\ op' = op /\ joined' = joined
    BY <1>4, <2>1, MoveFacts
  <2>3. Removing(c, loc[c])'
    BY <1>1, <1>3, <1>6, <1>7, <1>8, <2>1, <2>2 DEF Removing
  <2>4. Calm(c) /\ Leaving(c)' /\ Place(c)'
    BY <1>9, <1>11, <2>2, <2>3 DEF Calm, Busy, Leaving, Place
  <2> QED BY <1>1, <1>4, <1>8, <1>9, <2>1, <2>4, MoveStep DEF Places
<1>14. CASE first[s] = c /\ nxt[c] = NULL
  <2> DEFINE b == [l EXCEPT !.own = List, !.node = s, !.name = id[s]]
             m == [b EXCEPT !.at = first[List], !.i = 0]
  <2>1. q = <<c>>
    <3>1. p = 1
      BY <1>6, <1>7, <1>10, <1>14
    <3>2. p + 1 \notin 1..Len(q)
      BY <1>3, <1>5, <1>7, <1>14, ListFacts, ItemMeans
    <3>3. Len(q) = 1
      <4>1. p + 1 = 2
        BY <3>1
      <4>2. 2 \notin 1..Len(q) /\ 1 \in 1..Len(q)
        BY <1>7, <3>2, <4>1
      <4>3. \A n \in Nat : 2 \notin 1..n /\ 1 \in 1..n => n = 1
        OBVIOUS
      <4> QED BY <1>5, <4>2, <4>3
    <3> QED BY <1>5, <1>6, <3>1, <3>3
  <2>2. op' = [op EXCEPT ![c] = "destroy"] /\ loc' = [loc EXCEPT ![c] = m]
        /\ pc' = [pc EXCEPT ![c] = "search"] /\ UNCHANGED <<mutex, joined, ops, history>>
    BY <1>4, <1>14 DEF Searches, Goes
  <2>3. id[s] \in Ids /\ first[List] \in Cells /\ first[List] = Item(Chains[List], 1)
    <3>1. id[s] # NULL
      BY <1>2, <1>3 DEF AllInv, ListInv
    <3> QED BY <1>3, <3>1, Apart, ListFacts DEF AllInv, TypeInv
  <2>4. m \in Locals /\ m.own = List /\ m.node = s /\ m.name = id[s] /\ m.i = 0
        /\ m.at = first[List]
    BY <1>3, <1>8, <2>3, Apart DEF Locals, Cells
  <2> HIDE DEF m, b
  <2>5. UNCHANGED <<first, size, nxt, id, freed>> /\ Chains' = Chains
    BY <1>4, ChainsStay DEF heap
  <2>6. TypeInv'
    <3>1. pc' \in [Threads -> Places] /\ op' \in [Threads -> Ops] /\ loc' \in [Threads -> Locals]
      <4>1. TypeInv
        BY DEF AllInv
      <4>2. pc' \in [Threads -> Places]
        BY <2>2, <4>1 DEF TypeInv, Places
      <4>3. op' \in [Threads -> Ops]
        BY <2>2, <4>1 DEF TypeInv, Ops
      <4>4. loc' \in [Threads -> Locals]
        BY <2>2, <2>4, <4>1 DEF TypeInv
      <4> QED BY <4>2, <4>3, <4>4
    <3> QED BY <2>2, <2>5, <3>1 DEF AllInv, TypeInv, Kinds, history
  <2>7. Others(c) /\ pc'[c] = "search" /\ loc'[c] = m /\ op'[c] = "destroy" /\ joined'[c] = <<>>
    BY <1>11, <2>2 DEF AllInv, TypeInv, Others, Same, history
  <2>8. Searching(c, loc[c])'
    <3>1. Passed(m.name, 0)
      BY DEF Passed
    <3>2. 0 <= Len(Chains[List]) /\ 0 + 1 = 1
      BY Apart, ListFacts DEF AllInv
    <3> QED BY <1>3, <2>1, <2>3, <2>4, <2>5, <2>7, <3>1, <3>2 DEF Searching, Passed
  <2>9. Place(c)' /\ Calm(c) /\ OnlyReadersOverrun'
    BY <1>4, <1>9, <2>7, <2>8 DEF Place, Calm, Busy, OnlyReadersOverrun
  <2>10. Home(c)'
    <3>1. Leaving(c)' /\ Home(c)
      BY <2>7 DEF Leaving, AllInv
    <3>2. Out(c)' <=> Out(c)
      BY <2>5 DEF Out
    <3> HIDE DEF Leaving, Out
    <3> QED BY <1>1, <2>5, <2>7, <3>1, <3>2 DEF Home
  <2>11. \A d \in Threads : Turn(d)'
    BY <1>1, <1>11, <2>2, <2>7, TurnStays DEF AllInv
  <2> QED BY <2>5, <2>6, <2>7, <2>9, <2>10, <2>11, QuietStep
<1> QED BY <1>12, <1>13, <1>14

\* What a step of c does to what is c's own.
Private(c, to, o, l, j, w) ==
    /\ pc' = [pc EXCEPT ![c] = to] /\ op' = [op EXCEPT ![c] = o]
    /\ loc' = [loc EXCEPT ![c] = l] /\ joined' = [joined EXCEPT ![c] = j]
    /\ owed' = [owed EXCEPT ![c] = w]
    /\ mutex' \in Threads \cup {NULL} /\ ops' \in Nat
    /\ seen' \in [Threads -> Seq(Threads)]

HeapTypes ==
    /\ first \in [Owners -> Cells] /\ size \in [Owners -> Nat]
    /\ nxt \in [Cells -> Cells] /\ nxt[NULL] = NULL /\ Kinds
    /\ id \in [Sessions -> Ids \cup {NULL}] /\ freed \subseteq Nodes

LEMMA Kept ==
    ASSUME TypeInv, NEW c \in Threads
    PROVE  /\ pc = [pc EXCEPT ![c] = pc[c]] /\ op = [op EXCEPT ![c] = op[c]]
           /\ loc = [loc EXCEPT ![c] = loc[c]] /\ joined = [joined EXCEPT ![c] = joined[c]]
           /\ owed = [owed EXCEPT ![c] = owed[c]]
           /\ pc[c] \in Places /\ op[c] \in Ops /\ loc[c] \in Locals /\ joined[c] \in Seq(Ids)
           /\ owed[c] \in SUBSET Threads /\ HeapTypes
           /\ mutex \in Threads \cup {NULL} /\ ops \in Nat
           /\ seen \in [Threads -> Seq(Threads)]
<1>1. /\ pc \in [Threads -> Places] /\ op \in [Threads -> Ops] /\ loc \in [Threads -> Locals]
      /\ joined \in [Threads -> Seq(Ids)] /\ owed \in [Threads -> SUBSET Threads]
  BY DEF TypeInv
<1>2. pc = [pc EXCEPT ![c] = pc[c]] /\ op = [op EXCEPT ![c] = op[c]]
  BY <1>1
<1>3. loc = [loc EXCEPT ![c] = loc[c]] /\ joined = [joined EXCEPT ![c] = joined[c]]
  BY <1>1
<1>4. owed = [owed EXCEPT ![c] = owed[c]]
  BY <1>1
<1>5. pc[c] \in Places /\ op[c] \in Ops /\ loc[c] \in Locals /\ joined[c] \in Seq(Ids)
      /\ owed[c] \in SUBSET Threads
  BY <1>1
<1>6. HeapTypes
  BY DEF TypeInv, HeapTypes
<1>7. /\ mutex \in Threads \cup {NULL} /\ ops \in Nat
      /\ seen \in [Threads -> Seq(Threads)]
  BY DEF TypeInv
<1> QED BY <1>2, <1>3, <1>4, <1>5, <1>6, <1>7

LEMMA PrivateTypes ==
    ASSUME TypeInv, HeapTypes', NEW c \in Threads, NEW to \in Places, NEW o \in Ops,
           NEW l \in Locals, NEW j \in Seq(Ids), NEW w \in SUBSET Threads,
           Private(c, to, o, l, j, w)
    PROVE  /\ TypeInv' /\ Others(c)
           /\ pc'[c] = to /\ op'[c] = o /\ loc'[c] = l /\ joined'[c] = j /\ owed'[c] = w
<1>1. /\ pc \in [Threads -> Places] /\ op \in [Threads -> Ops] /\ loc \in [Threads -> Locals]
      /\ joined \in [Threads -> Seq(Ids)] /\ owed \in [Threads -> SUBSET Threads]
  BY DEF TypeInv
<1>2. /\ pc' = [pc EXCEPT ![c] = to] /\ op' = [op EXCEPT ![c] = o]
      /\ loc' = [loc EXCEPT ![c] = l] /\ joined' = [joined EXCEPT ![c] = j]
      /\ owed' = [owed EXCEPT ![c] = w]
  BY DEF Private
<1>3. pc' \in [Threads -> Places] /\ op' \in [Threads -> Ops]
  BY <1>1, <1>2
<1>4. loc' \in [Threads -> Locals] /\ joined' \in [Threads -> Seq(Ids)]
  BY <1>1, <1>2
<1>5. owed' \in [Threads -> SUBSET Threads]
  BY <1>1, <1>2
<1>6. pc'[c] = to /\ op'[c] = o /\ loc'[c] = l /\ joined'[c] = j /\ owed'[c] = w
  BY <1>1, <1>2
<1>7. ASSUME NEW d \in Threads \ {c} PROVE Same(d)
  BY <1>1, <1>2 DEF Same
<1>8. TypeInv'
  BY <1>3, <1>4, <1>5 DEF TypeInv, HeapTypes, Private
<1> QED BY <1>6, <1>7, <1>8 DEF Others

LEMMA UnlockStep ==
    ASSUME AllInv, Races, Strays, NEW c \in Threads, fault = "none", Unlock(c)
    PROVE  AllInv' /\ Chains' = Chains
<1>1. pc[c] = "unlock" /\ op[c] = "JOIN" /\ mutex' = NULL /\ TypeInv
      /\ fault' = fault /\ UNCHANGED <<first, size, nxt, id, freed>>
  BY DEF Unlock, AllInv, Place, heap
<1>2. Private(c, "idle", op[c], loc[c], joined[c], owed[c]) /\ HeapTypes'
  BY <1>1, Kept DEF Unlock, Goes, Private, history, HeapTypes, Kinds
<1>3. TypeInv' /\ Others(c) /\ pc'[c] = "idle" /\ op'[c] = op[c] /\ joined'[c] = joined[c]
  BY <1>1, <1>2, Kept, PrivateTypes DEF Places
<1>4. Chains' = Chains
  BY <1>1, ChainsStay
<1>5. Home(c)'
  <2>1. Out(c)' <=> Out(c)
    BY <1>4 DEF Out
  <2>2. Home(c) /\ ~Leaving(c) /\ ~Entering(c)
    BY <1>1 DEF AllInv, Leaving, Entering
  <2> HIDE DEF Out, Leaving, Entering
  <2> QED BY <1>1, <1>3, <1>4, <2>1, <2>2 DEF Home
<1>6. ASSUME NEW d \in Threads PROVE Turn(d)'
  <2>1. Turn(c) /\ Turn(d)
    BY DEF AllInv
  <2>2. c # NULL /\ d # NULL /\ mutex = c
    BY <1>1, <2>1, Apart DEF Turn
  <2> QED BY <1>1, <1>3, <2>1, <2>2 DEF Turn, Others, Same
<1>7. Place(c)' /\ Calm(c) /\ OnlyReadersOverrun'
  BY <1>1, <1>3 DEF Place, Calm, Busy, OnlyReadersOverrun
<1> QED BY <1>1, <1>3, <1>4, <1>5, <1>6, <1>7, QuietStep

\* A thread in no list function, and with no session of its own, is in none.
LEMMA Absent ==
    ASSUME AllInv, NEW c \in Threads, joined[c] = <<>>, ~Leaving(c)
    PROVE  Out(c) /\ (pc[c] # "cut" => nxt[c] = NULL)
<1>1. Home(c)
  BY DEF AllInv
<1>2. \A x : <<x>> # <<>>
  OBVIOUS
<1>3. Out(c)
  BY <1>1, <1>2 DEF Home, Out
<1> HIDE DEF Out
<1> QED BY <1>1, <1>3 DEF Home

LEMMA EnterStep ==
    ASSUME AllInv, Races, Strays, NEW c \in Threads, fault = "none", Enter(c)
    PROVE  AllInv' /\ Chains' = Chains
<1>0. PICK s : s = Nth(List, loc[c].i)
  OBVIOUS
<1> DEFINE L == Chains[List]
           l == [loc[c] EXCEPT !.own = s, !.node = c]
           j == <<id[s]>>
<1>1. /\ pc[c] = "enter" /\ op[c] \in {"JOIN", "NEW_SESS"} /\ joined[c] = <<>>
      /\ Found(loc[c]) /\ loc[c] \in Locals /\ TypeInv
  BY DEF Enter, AllInv, TypeInv, Place
<1>2. s = L[loc[c].i + 1] /\ In(s, L) /\ loc[c].i + 1 \in 1..Len(L) /\ loc[c].i \in Nat
  <2>1. loc[c].i < Len(L)
    BY <1>1 DEF Found
  <2>2. loc[c].i \in Nat /\ Len(L) \in Nat /\ L \in Seq(Nodes)
    BY <1>1, Apart, ListFacts DEF Locals, AllInv
  <2>3. s = Item(L, loc[c].i + 1)
    BY <1>0, <2>2, Apart, ListFacts DEF AllInv
  <2>4. loc[c].i + 1 \in 1..Len(L)
    BY <2>1, <2>2
  <2> QED BY <2>2, <2>3, <2>4 DEF In, Item
<1>3. s \in Sessions /\ s \in Owners /\ s # NULL /\ s \notin freed
  <2>1. s \in Sessions
    BY <1>2, ListFacts DEF In, AllInv
  <2> QED BY <1>2, <2>1, Live, Apart
<1>4. id[s] = loc[c].name /\ id[s] \in Ids /\ Passed(id[s], loc[c].i)
  BY <1>1, <1>2 DEF Found
<1>5. /\ joined' = [joined EXCEPT ![c] = Append(@, id[s])]
      /\ loc' = [loc EXCEPT ![c] = l] /\ Goes(c, "append")
      /\ UNCHANGED <<mutex, op, ops, history>> /\ fault' = fault /\ UNCHANGED heap
  BY <1>0, <1>3 DEF Enter, Reads
<1>6. l \in Locals /\ l.own = s /\ l.node = c
  BY <1>1, <1>3, Apart DEF Locals, Cells
<1>7. Append(joined[c], id[s]) = <<id[s]>> /\ <<id[s]>> \in Seq(Ids)
  BY <1>1, <1>4
<1> HIDE DEF l
<1>8. joined' = [joined EXCEPT ![c] = <<id[s]>>]
  BY <1>5, <1>7
<1>9. UNCHANGED <<first, size, nxt, id, freed>> /\ Chains' = Chains
  BY <1>5, ChainsStay DEF heap
<1>10. Private(c, "append", op[c], l, <<id[s]>>, owed[c]) /\ HeapTypes'
  BY <1>1, <1>5, <1>8, <1>9, Kept DEF Goes, Private, history, HeapTypes, Kinds
<1>11. /\ TypeInv' /\ Others(c) /\ pc'[c] = "append" /\ op'[c] = op[c] /\ loc'[c] = l
       /\ joined'[c] = <<id[s]>>
  <2>1. "append" \in Places /\ op[c] \in Ops /\ owed[c] \in SUBSET Threads
    BY <1>1, Kept DEF Places
  <2>2. j \in Seq(Ids) /\ l \in Locals /\ TypeInv
    BY <1>1, <1>6, <1>7
  <2>3. Private(c, "append", op[c], l, j, owed[c])
    BY <1>10
  <2> HIDE DEF j
  <2>4. /\ TypeInv' /\ Others(c) /\ pc'[c] = "append" /\ op'[c] = op[c] /\ loc'[c] = l
        /\ joined'[c] = j
    BY <1>10, <2>1, <2>2, <2>3, PrivateTypes
  <2> QED BY <2>4 DEF j
<1>12. Out(c)' /\ Out(c) /\ Home(c)
  <2>1. Out(c)
    BY <1>1, Absent DEF Leaving
  <2> QED BY <1>9, <2>1 DEF Out, AllInv
<1>13. Home(c)'
  <2>1. Entering(c)'
    BY <1>6, <1>11 DEF Entering
  <2> HIDE DEF Entering
  <2> QED BY <1>1, <1>9, <1>11, <1>12, <2>1 DEF Home, Out
<1>14. Named(s)'
  <2>1. Named(s)
    <3>1. (loc[c].i + 1) - 1 = loc[c].i
      BY <1>2
    <3>2. Passed(id[s], (loc[c].i + 1) - 1)
      BY <1>4, <3>1
    <3> QED BY <1>2, <3>2 DEF Named
  <2> QED BY <1>9, <2>1 DEF Named, Passed
<1>15. Appending(c, loc[c])'
  BY <1>1, <1>3, <1>6, <1>9, <1>11, <1>12, <1>14 DEF Appending
<1>16. Place(c)' /\ Calm(c) /\ OnlyReadersOverrun'
  BY <1>1, <1>5, <1>11, <1>15 DEF Place, Calm, Busy, OnlyReadersOverrun
<1>17. \A d \in Threads : Turn(d)'
  BY <1>1, <1>5, <1>11, TurnStays DEF AllInv
<1> QED BY <1>9, <1>11, <1>13, <1>16, <1>17, QuietStep

\* A reader is done.
LEMMA ReturnStep ==
    ASSUME AllInv, Races, Strays, NEW c \in Threads, fault = "none",
           pc[c] \in {"search", "sessions"}, op[c] \in {"check", "READ"},
           Goes(c, "idle"), UNCHANGED <<mutex, fault, joined, op, loc, ops, history>>,
           UNCHANGED heap
    PROVE  AllInv' /\ Chains' = Chains
<1>1. UNCHANGED <<first, size, nxt, id, freed>> /\ Chains' = Chains /\ TypeInv
  BY ChainsStay DEF heap, AllInv
<1>2. Private(c, "idle", op[c], loc[c], joined[c], owed[c]) /\ HeapTypes'
  BY <1>1, Kept DEF Goes, Private, history, HeapTypes, Kinds
<1>3. TypeInv' /\ Others(c) /\ pc'[c] = "idle" /\ op'[c] = op[c] /\ joined'[c] = joined[c]
  BY <1>1, <1>2, Kept, PrivateTypes DEF Places
<1>4. Home(c)'
  <2>1. Out(c)' <=> Out(c)
    BY <1>1 DEF Out
  <2>2. Home(c) /\ ~Leaving(c) /\ ~Entering(c)
    BY DEF AllInv, Leaving, Entering
  <2> HIDE DEF Out, Leaving, Entering
  <2> QED BY <1>1, <1>3, <2>1, <2>2 DEF Home
<1>5. Place(c)' /\ Calm(c) /\ OnlyReadersOverrun'
  BY <1>3 DEF Place, Calm, Busy, OnlyReadersOverrun
<1>6. \A d \in Threads : Turn(d)'
  BY <1>3, TurnStays DEF AllInv
<1> QED BY <1>1, <1>3, <1>4, <1>5, <1>6, QuietStep

\* A stale reader follows a pointer to nothing, or to freed memory.
LEMMA StaleFaultStep ==
    ASSUME AllInv, Races, Strays, NEW c \in Threads, c \in stale, fault' # "none",
           pc[c] \in {"search", "sessions", "members"},
           UNCHANGED heap, UNCHANGED <<mutex, joined, pc, op, loc, ops, history>>
    PROVE  AllInv' /\ Chains' = Chains
<1>1. /\ UNCHANGED <<first, size, nxt, id, freed>> /\ Chains' = Chains
      /\ UNCHANGED <<mutex, joined, pc, op, loc, ops, seen, owed>>
  BY ChainsStay DEF heap, history
<1>2. Others(c) /\ Same(c) /\ TypeInv'
  BY <1>1 DEF AllInv, TypeInv, Kinds, Others, Same
<1>3. OnlyReadersOverrun'
  <2>1. c \in stale'
    BY <1>2, StaleStays
  <2> QED BY <2>1 DEF OnlyReadersOverrun
<1>4. Home(c)' /\ Place(c)'
  <2>1. Home(c) /\ Place(c) /\ owed[c] \subseteq Threads /\ (c \in stale => c \in stale')
    BY <1>2, StaleStays DEF AllInv, TypeInv
  <2> QED BY <1>1, <1>2, <2>1, HomeStays, PlaceStays
<1>5. Calm(c) /\ \A d \in Threads : Turn(d)'
  BY <1>1 DEF AllInv, Calm, Busy, Turn
<1> QED BY <1>1, <1>2, <1>3, <1>4, <1>5, QuietStep

LEMMA SearchStep ==
    ASSUME AllInv, Races, Strays, NEW c \in Threads, fault = "none", Search(c), c \notin stale
    PROVE  AllInv' /\ Chains' = Chains
<1> DEFINE l == loc[c]
           L == Chains[List]
<1>1. pc[c] = "search" /\ Searching(c, l) /\ l \in Locals /\ TypeInv /\ ListInv
  BY DEF Search, AllInv, TypeInv, Place
<1>2. size[List] = Len(L)
  BY <1>1, ListCount
<1>3. l.i \in Nat /\ l.i <= Len(L) /\ Len(L) \in Nat /\ L \in Seq(Nodes)
  BY <1>1, Apart, ListFacts DEF Searching, Locals
\* The session a client is in is the first of its name.
<1>4. ASSUME NEW s \in Sessions, Chains[s] # <<>>, id[s] = l.name
      PROVE  l.i < Len(L) /\ (id[L[l.i + 1]] = l.name => L[l.i + 1] = s)
  <2>1. In(s, L)
    BY <1>1, <1>4 DEF ListInv
  <2>2. PICK j \in 1..Len(L) : L[j] = s
    BY <2>1 DEF In
  <2>3. Passed(l.name, l.i)
    BY <1>1 DEF Searching
  <2>4. ~(j \in 1..l.i)
    BY <1>4, <2>2, <2>3 DEF Passed
  <2>5. j \in Nat /\ j > l.i /\ l.i < Len(L) /\ l.i + 1 \in 1..Len(L)
    BY <1>3, <2>2, <2>4
  <2>6. l.i + 1 < j => id[L[l.i + 1]] # id[L[j]]
    BY <1>1, <1>4, <2>2, <2>5 DEF ListInv
  <2>7. j = l.i + 1 \/ l.i + 1 < j
    BY <1>3, <2>5
  <2> QED BY <1>4, <2>2, <2>5, <2>6, <2>7
<1>5. op[c] \in {"LEAVE", "destroy"} =>
         \E s \in Sessions :
            /\ Chains[s] # <<>> /\ id[s] = l.name /\ In(c, Chains[s])
            /\ op[c] = "destroy" => s = l.node /\ Chains[s] = <<c>>
  <2>1. \A s \in Sessions : In(c, Chains[s]) => Chains[s] # <<>>
    BY DEF In
  <2>2. \A s \in Sessions : Chains[s] = <<c>> => In(c, Chains[s])
    BY DEF In
  <2> QED BY <1>1, <2>1, <2>2 DEF Searching
<1>6. CASE l.i >= size[List]
  <2>1. op[c] \in {"check", "JOIN", "NEW_SESS"}
    BY <1>1, <1>2, <1>3, <1>4, <1>5, <1>6 DEF Searching
  <2> DEFINE to == IF op[c] = "JOIN" THEN "unlock" ELSE "idle"
  <2>2. Goes(c, to) /\ UNCHANGED <<mutex, fault, joined, op, loc, ops, history>> /\ UNCHANGED heap
    BY <1>6 DEF Search, Returns
  <2>3. UNCHANGED <<first, size, nxt, id, freed>> /\ Chains' = Chains
    BY <2>2, ChainsStay DEF heap
  <2>4. Private(c, to, op[c], l, joined[c], owed[c]) /\ HeapTypes'
    BY <1>1, <2>2, <2>3, Kept DEF Goes, Private, history, HeapTypes, Kinds
  <2>5. to \in Places
    BY DEF Places
  <2>6. TypeInv' /\ Others(c) /\ pc'[c] = to /\ op'[c] = op[c] /\ joined'[c] = joined[c]
    BY <1>1, <2>4, <2>5, Kept, PrivateTypes
  <2>7. Home(c)'
    <3>1. Out(c)' <=> Out(c)
      BY <2>3 DEF Out
    <3>2. Home(c) /\ ~Leaving(c) /\ ~Entering(c) /\ joined[c] = <<>>
      BY <1>1, <2>1 DEF AllInv, Leaving, Entering, Searching
    <3> HIDE DEF Out, Leaving, Entering
    <3> QED BY <1>1, <2>1, <2>3, <2>6, <3>1, <3>2 DEF Home
  <2>8. Place(c)' /\ Calm(c) /\ OnlyReadersOverrun'
    BY <1>1, <2>2, <2>6 DEF Place, Calm, Busy, OnlyReadersOverrun
  <2>9. \A d \in Threads : Turn(d)'
    BY <1>1, <2>1, <2>2, <2>6, TurnStays DEF AllInv
  <2> QED BY <2>3, <2>6, <2>7, <2>8, <2>9, QuietStep
<1>7. CASE ~(l.i >= size[List])
  <2>1. l.i + 1 \in 1..Len(L) /\ l.i < Len(L) /\ l.at = L[l.i + 1]
    BY <1>1, <1>2, <1>3, <1>7 DEF Searching, Item
  <2>2. In(l.at, L) /\ nxt[l.at] = Item(L, (l.i + 1) + 1)
    BY <1>1, <2>1, Apart, ListFacts DEF In
  <2> DEFINE next == CASE op[c] = "check" -> "lock"
                  [] op[c] \in {"JOIN", "NEW_SESS"} -> "enter"
                  [] op[c] = "LEAVE" -> "look"
                  [] op[c] = "destroy" -> "destroy"
             m == [l EXCEPT !.at = nxt[l.at], !.i = @ + 1]
  <2>3. /\ id[l.at] = l.name => Moves(c, next, l)
        /\ id[l.at] # l.name => Moves(c, "search", m)
        /\ fault' = fault /\ UNCHANGED heap
    BY <1>7, <2>2, Live, Apart DEF Search, Reads
  <2>4. op[c] \in {"check", "JOIN", "NEW_SESS", "LEAVE", "destroy"} /\ joined[c] = <<>>
        /\ l.name \in Ids /\ Passed(l.name, l.i) /\ ~Entering(c)
    BY <1>1 DEF Searching, Entering
  <2>5. CASE id[l.at] = l.name
    <3>1. /\ next \in Places /\ next # "idle" /\ next \notin Busy
          /\ op[c] = "check" => next = "lock"
          /\ op[c] \in {"JOIN", "NEW_SESS"} => next = "enter"
          /\ op[c] = "LEAVE" => next = "look"
          /\ op[c] = "destroy" => next = "destroy"
      BY <2>4 DEF Places, Busy
    <3> HIDE DEF next
    <3>2. Moves(c, next, l)
      BY <2>3, <2>5
    <3>3. pc'[c] = next /\ loc'[c] = l /\ Chains' = Chains /\ UNCHANGED <<op, joined, id>>
      BY <2>3, <3>2, MoveFacts
    <3>4. Found(l)'
      BY <2>1, <2>4, <2>5, <3>3 DEF Found, Passed
    <3>5. op[c] = "LEAVE" => Removing(c, loc[c])'
      BY <1>4, <1>5, <2>1, <2>4, <2>5, <3>1, <3>3 DEF Removing
    <3>6. op[c] = "destroy" => Dropping(c, loc[c])'
      BY <1>1, <1>4, <1>5, <2>1, <2>4, <2>5, <3>1, <3>3 DEF Dropping, Searching
    <3>7. Place(c)' /\ Calm(c) /\ (Leaving(c) => Leaving(c)')
      BY <1>1, <2>4, <3>1, <3>3, <3>4, <3>5, <3>6 DEF Place, Calm, Busy, Leaving
    <3> QED BY <1>1, <2>3, <2>4, <3>1, <3>2, <3>7, MoveStep
  <2>6. CASE id[l.at] # l.name
    <3>1. nxt[l.at] \in Cells
      BY <1>1, <2>2, Apart, Live DEF TypeInv
    <3>2. /\ m \in Locals /\ m.at = Item(L, m.i + 1) /\ m.i = l.i + 1 /\ m.name = l.name
          /\ m.own = l.own /\ m.node = l.node
      <4>1. m \in Locals /\ m.at = nxt[l.at] /\ m.i = l.i + 1 /\ m.name = l.name
            /\ m.own = l.own /\ m.node = l.node
        <5>1. l.i + 1 \in Nat
          BY <1>3
        <5>2. m = [[l EXCEPT !.at = nxt[l.at]] EXCEPT !.i = l.i + 1]
          BY <1>1 DEF Locals
        <5> QED BY <1>1, <3>1, <5>1, <5>2 DEF Locals
      <4> HIDE DEF m
      <4> QED BY <2>2, <4>1
    <3> HIDE DEF m
    <3>3. Moves(c, "search", m)
      BY <2>3, <2>6
    <3>4. pc'[c] = "search" /\ loc'[c] = m /\ Chains' = Chains /\ UNCHANGED <<op, joined, id>>
      BY <2>3, <3>3, MoveFacts
    <3>5. Passed(m.name, m.i) /\ m.i <= Len(L)
      <4>1. \A j \in 1..m.i : j \in 1..l.i \/ j = l.i + 1
        BY <1>3, <3>2
      <4> QED BY <1>3, <2>1, <2>4, <2>6, <3>2, <4>1 DEF Passed
    <3>6. Searching(c, loc[c])'
      BY <1>1, <2>4, <3>2, <3>4, <3>5 DEF Searching, Passed
    <3>7. Place(c)' /\ Calm(c) /\ (Leaving(c) => Leaving(c)')
      BY <1>1, <3>4, <3>6 DEF Place, Calm, Busy, Leaving
    <3> QED BY <1>1, <2>3, <2>4, <3>2, <3>3, <3>7, MoveStep DEF Places
  <2> QED BY <2>5, <2>6
<1> QED BY <1>6, <1>7

\* A search that is stale may end anywhere; it changes nothing.
LEMMA StaleSearchStep ==
    ASSUME AllInv, Races, Strays, NEW c \in Threads, fault = "none", Search(c), c \in stale
    PROVE  AllInv' /\ Chains' = Chains
<1> DEFINE l == loc[c]
<1>1. /\ pc[c] = "search" /\ op[c] = "check" /\ l.name \in Ids /\ joined[c] = <<>>
      /\ l \in Locals /\ TypeInv /\ ListInv
  BY DEF Search, Searching, AllInv, TypeInv, Place, Races, Looking
<1>2. ~Leaving(c) /\ ~Entering(c)
  BY <1>1 DEF Leaving, Entering
<1>3. CASE l.i >= size[List]
  <2>1. Goes(c, "idle") /\ UNCHANGED <<mutex, fault, joined, op, loc, ops, history>> /\ UNCHANGED heap
    BY <1>1, <1>3 DEF Search, Returns
  <2> QED BY <1>1, <1>2, <2>1, ReturnStep
<1>4. CASE ~(l.i >= size[List])
  <2> DEFINE m == [l EXCEPT !.at = nxt[l.at], !.i = @ + 1]
  <2>1. UNCHANGED heap
    BY DEF Search
  <2>2. CASE l.at = NULL \/ l.at \in freed
    <3>1. fault' # "none" /\ UNCHANGED <<mutex, joined, pc, op, loc, ops, history>>
      BY <1>4, <2>2 DEF Search, Reads
    <3> QED BY <1>1, <2>1, <3>1, StaleFaultStep
  <2>3. CASE l.at # NULL /\ l.at \notin freed
    <3>1. /\ id[l.at] = l.name => Moves(c, "lock", l)
          /\ id[l.at] # l.name => Moves(c, "search", m)
          /\ fault' = fault
      BY <1>1, <1>4, <2>3 DEF Search, Reads
    <3>2. m \in Locals /\ m.name = l.name
      <4>1. nxt[l.at] \in Cells /\ l.i + 1 \in Nat
        BY <1>1 DEF TypeInv, Locals
      <4>2. m = [[l EXCEPT !.at = nxt[l.at]] EXCEPT !.i = l.i + 1]
        BY <1>1 DEF Locals
      <4> QED BY <1>1, <4>1, <4>2 DEF Locals
    <3> HIDE DEF m
    <3>3. CASE id[l.at] = l.name
      <4>1. pc'[c] = "lock" /\ loc'[c] = l /\ UNCHANGED <<op, joined>>
        BY <2>1, <3>1, <3>3, MoveFacts
      <4>2. Place(c)' /\ Calm(c)
        BY <1>1, <4>1 DEF Place, Calm, Busy
      <4> QED BY <1>1, <1>2, <2>1, <3>1, <3>3, <4>2, MoveStep DEF Places
    <3>4. CASE id[l.at] # l.name
      <4>1. pc'[c] = "search" /\ loc'[c] = m /\ UNCHANGED <<op, joined>>
        BY <2>1, <3>1, <3>4, MoveFacts
      <4>2. c \in stale'
        BY <1>1, <4>1 DEF Strays, Looking
      <4>3. Searching(c, loc[c])'
        BY <1>1, <3>2, <4>1, <4>2 DEF Searching
      <4>4. Place(c)' /\ Calm(c)
        BY <1>1, <4>1, <4>3 DEF Place, Calm, Busy
      <4> QED BY <1>1, <1>2, <2>1, <3>1, <3>2, <3>4, <4>4, MoveStep DEF Places
    <3> QED BY <3>3, <3>4
  <2> QED BY <2>2, <2>3
<1> QED BY <1>3, <1>4

\* What the lists hold.
LEMMA ItemKinds ==
    ASSUME ListInv, NEW i \in Nat
    PROVE  /\ Item(Chains[List], i) \in Sessions \cup {NULL}
           /\ \A x \in Sessions : Item(Chains[x], i) \in Threads \cup {NULL}
<1>1. Chains[List] \in Seq(Sessions) /\ \A x \in Sessions : Chains[x] \in Seq(Threads)
  BY DEF ListInv
<1> QED BY <1>1 DEF Item

LEMMA NextSessionStep ==
    ASSUME AllInv, Races, Strays, NEW c \in Threads, fault = "none", NextSession(c), c \notin stale
    PROVE  AllInv' /\ Chains' = Chains
<1> DEFINE l == loc[c]
           L == Chains[List]
<1>1. pc[c] = "sessions" /\ Reading(c, l) /\ l \in Locals /\ TypeInv /\ ListInv
  BY DEF NextSession, AllInv, TypeInv, Place
<1>2. size[List] = Len(L)
  BY <1>1, ListCount
<1>3. l.i \in Nat /\ l.i <= Len(L) /\ Len(L) \in Nat /\ L \in Seq(Nodes) /\ l.at = Item(L, l.i + 1)
  BY <1>1, Apart, ListFacts DEF Reading, Locals, Tracking
<1>4. ~Leaving(c) /\ ~Entering(c) /\ op[c] = "READ"
  BY <1>1 DEF Leaving, Entering, Reading
<1>5. CASE l.i >= size[List]
  <2>1. Goes(c, "idle") /\ UNCHANGED <<mutex, fault, joined, op, loc, ops, history>> /\ UNCHANGED heap
    BY <1>5 DEF NextSession
  <2>2. UNCHANGED <<first, size, nxt, id, freed>> /\ Chains' = Chains
    BY <2>1, ChainsStay DEF heap
  <2>3. Private(c, "idle", op[c], l, joined[c], owed[c]) /\ HeapTypes'
    BY <1>1, <2>1, <2>2, Kept DEF Goes, Private, history, HeapTypes, Kinds
  <2>4. TypeInv' /\ Others(c) /\ pc'[c] = "idle" /\ op'[c] = op[c] /\ joined'[c] = joined[c]
    BY <1>1, <2>3, Kept, PrivateTypes DEF Places
  <2>5. Home(c)'
    <3>1. Out(c)' <=> Out(c)
      BY <2>2 DEF Out
    <3>2. Home(c)
      BY DEF AllInv
    <3> HIDE DEF Out, Leaving, Entering
    <3> QED BY <1>1, <1>4, <2>2, <2>4, <3>1, <3>2 DEF Home
  <2>6. Place(c)' /\ Calm(c) /\ OnlyReadersOverrun'
    BY <1>1, <2>1, <2>4 DEF Place, Calm, Busy, OnlyReadersOverrun
  <2>7. \A d \in Threads : Turn(d)'
    BY <1>1, <1>4, <2>1, <2>4, TurnStays DEF AllInv
  <2> QED BY <2>2, <2>4, <2>5, <2>6, <2>7, QuietStep
<1>6. CASE ~(l.i >= size[List])
  <2> DEFINE m == [l EXCEPT !.own = l.at, !.node = first[l.at], !.n = 0]
  <2>1. l.i + 1 \in 1..Len(L) /\ l.i < Len(L) /\ l.at = L[l.i + 1] /\ In(l.at, L)
    BY <1>2, <1>3, <1>6 DEF Item, In
  <2>2. l.at \in Sessions /\ l.at \in Owners
    BY <1>1, <2>1, ListFacts, Apart
  <2>3. Moves(c, "members", m) /\ fault' = fault /\ UNCHANGED heap
    BY <1>6, <2>1, Live, Apart DEF NextSession, Reads
  <2> DEFINE q == Chains[l.at]
  <2>4. q \in Seq(Nodes) /\ Len(q) \in Nat /\ first[l.at] = Item(q, 1) /\ first[l.at] \in Cells
    BY <1>1, <2>2, ListFacts DEF TypeInv
  <2>5. m \in Locals /\ m.own = l.at /\ m.node = Item(q, 1) /\ m.n = 0 /\ m.i = l.i
    BY <1>1, <2>2, <2>4 DEF Locals
  <2> HIDE DEF m
  <2>6. /\ pc'[c] = "members" /\ loc'[c] = m /\ Chains' = Chains /\ UNCHANGED <<op, owed>>
        /\ \A d : Out(d)' <=> Out(d)
        /\ \A d \in Threads : d # c => pc'[d] = pc[d]
    BY <2>3, MoveFacts
  <2>7. \/ m.n < Len(q) /\ m.node = q[m.n + 1]
        \/ m.n <= Len(q) /\ m.node = NULL /\ \A k \in (m.n + 1)..Len(q) : q[k] \notin owed[c]
    <3>1. CASE Len(q) = 0
      BY <2>5, <3>1 DEF Item
    <3>2. CASE Len(q) # 0
      <4>1. 1 \in 1..Len(q) /\ 0 < Len(q) /\ 0 + 1 = 1
        BY <2>4, <3>2
      <4> QED BY <2>5, <4>1 DEF Item
    <3> QED BY <3>1, <3>2
  <2>8. \A d \in owed[c] : d \in Threads
    BY <1>1, Kept
  <2>9. Reading(c, loc[c])'
    <3>1. op'[c] = "READ" /\ \A d \in owed'[c] : ~Out(d)' /\ pc'[d] \notin {"load", "store"}
      BY <1>1, <2>6, <2>8 DEF Reading, Tracking
    <3>2. m.own \in Sessions /\ m.node \in Threads \cup {NULL}
      BY <1>1, <2>2, <2>5, ItemKinds
    <3> HIDE DEF Out
    <3> QED BY <2>1, <2>5, <2>6, <2>7, <3>1, <3>2 DEF Reading, Tracking
  <2>10. Place(c)' /\ Calm(c)
    BY <1>1, <2>6, <2>9 DEF Place, Calm, Busy
  <2> QED BY <1>1, <1>4, <2>3, <2>5, <2>10, MoveStep DEF Places
<1> QED BY <1>5, <1>6

\* A reader that is stale goes through whatever the pointers lead to.
LEMMA StaleSessionStep ==
    ASSUME AllInv, Races, Strays, NEW c \in Threads, fault = "none", NextSession(c), c \in stale
    PROVE  AllInv' /\ Chains' = Chains
<1> DEFINE l == loc[c]
<1>1. /\ pc[c] = "sessions" /\ op[c] = "READ" /\ l.at \in Sessions \cup {NULL}
      /\ l \in Locals /\ TypeInv /\ ListInv
  BY DEF NextSession, Reading, AllInv, TypeInv, Place
<1>2. UNCHANGED heap /\ ~Leaving(c) /\ ~Entering(c)
  BY <1>1 DEF NextSession, Leaving, Entering
<1>3. CASE l.i >= size[List]
  <2>1. Goes(c, "idle") /\ UNCHANGED <<mutex, fault, joined, op, loc, ops, history>>
    BY <1>3 DEF NextSession
  <2> QED BY <1>1, <1>2, <2>1, ReturnStep
<1>4. CASE ~(l.i >= size[List]) /\ (l.at = NULL \/ l.at \in freed)
  <2>1. fault' # "none" /\ UNCHANGED <<mutex, joined, pc, op, loc, ops, history>>
    BY <1>4 DEF NextSession, Reads
  <2> QED BY <1>1, <1>2, <2>1, StaleFaultStep
<1>5. CASE ~(l.i >= size[List]) /\ l.at # NULL /\ l.at \notin freed
  <2> DEFINE m == [l EXCEPT !.own = l.at, !.node = first[l.at], !.n = 0]
  <2>1. Moves(c, "members", m) /\ fault' = fault
    BY <1>5 DEF NextSession, Reads
  <2>2. l.at \in Sessions /\ l.at \in Owners
    BY <1>1, <1>5, Apart
  <2>3. first[l.at] \in Threads \cup {NULL} /\ first[l.at] \in Cells
    <3> DEFINE q == Chains[l.at]
    <3>1. q \in Seq(Threads) /\ Len(q) \in Nat /\ first[l.at] = Item(q, 1)
      BY <1>1, <2>2, ListFacts DEF ListInv, Path
    <3>2. 1 \in 1..Len(q) => q[1] \in Threads
      BY <3>1
    <3> HIDE DEF q
    <3> QED BY <1>1, <2>2, <3>1, <3>2 DEF TypeInv, Item
  <2>4. m \in Locals /\ m.own = l.at /\ m.node = first[l.at]
    BY <1>1, <2>2, <2>3 DEF Locals
  <2> HIDE DEF m
  <2>5. pc'[c] = "members" /\ loc'[c] = m /\ op' = op
    BY <1>2, <2>1, MoveFacts
  <2>6. c \in stale'
    BY <1>1, <2>5 DEF Strays, Looking
  <2>7. Reading(c, loc[c])'
    BY <1>1, <2>2, <2>3, <2>4, <2>5, <2>6 DEF Reading
  <2>8. Place(c)' /\ Calm(c)
    BY <1>1, <2>5, <2>7 DEF Place, Calm, Busy
  <2> QED BY <1>1, <1>2, <2>1, <2>4, <2>8, MoveStep DEF Places
<1> QED BY <1>3, <1>4, <1>5

LEMMA StaleMemberStep ==
    ASSUME AllInv, Races, Strays, NEW c \in Threads, fault = "none", NextMember(c), c \in stale
    PROVE  AllInv' /\ Chains' = Chains
<1> DEFINE l == loc[c]
           more == l.n < size[l.own]
           y == IF more /\ l.own \notin freed THEN l.node ELSE l.own
<1>1. /\ pc[c] = "members" /\ op[c] = "READ" /\ l.own \in Sessions
      /\ l.node \in Threads \cup {NULL} /\ l \in Locals /\ TypeInv
  BY DEF NextMember, Visits, Reading, AllInv, TypeInv, Place
<1>2. UNCHANGED heap /\ ~Leaving(c) /\ ~Entering(c)
  BY <1>1 DEF NextMember, Visits, Leaving, Entering
<1>3. CASE y = NULL \/ y \in freed
  <2>1. fault' # "none" /\ UNCHANGED <<mutex, joined, pc, op, loc, ops, history>>
    BY <1>3 DEF NextMember, Visits, Reads
  <2> QED BY <1>1, <1>2, <2>1, StaleFaultStep
<1>4. CASE y # NULL /\ y \notin freed /\ ~more
  <2> DEFINE m == [l EXCEPT !.at = nxt[l.own], !.i = @ + 1]
  <2>1. Moves(c, "sessions", m) /\ fault' = fault
    BY <1>4 DEF NextMember, Visits, Reads
  <2>2. nxt[l.own] \in Sessions \cup {NULL} /\ nxt[l.own] \in Cells /\ l.i + 1 \in Nat
    BY <1>1, Apart DEF TypeInv, Kinds, Cells, Locals
  <2>3. m \in Locals /\ m.at = nxt[l.own]
    <3>1. m = [[l EXCEPT !.at = nxt[l.own]] EXCEPT !.i = l.i + 1]
      BY <1>1 DEF Locals
    <3> QED BY <1>1, <2>2, <3>1 DEF Locals
  <2> HIDE DEF m
  <2>4. pc'[c] = "sessions" /\ loc'[c] = m /\ op' = op
    BY <1>2, <2>1, MoveFacts
  <2>5. c \in stale'
    BY <1>1, <2>4 DEF Strays, Looking
  <2>6. Reading(c, loc[c])'
    BY <1>1, <2>2, <2>3, <2>4, <2>5 DEF Reading
  <2>7. Place(c)' /\ Calm(c)
    BY <1>1, <2>4, <2>6 DEF Place, Calm, Busy
  <2> QED BY <1>1, <1>2, <2>1, <2>3, <2>7, MoveStep DEF Places
<1>5. CASE y # NULL /\ y \notin freed /\ more
  <2> DEFINE m == [l EXCEPT !.node = nxt[l.node], !.n = @ + 1]
  <2>1. l.own \notin freed /\ l.node \in Threads
    <3>1. l.own \in freed => y \in freed
      OBVIOUS
    <3>2. l.own \notin freed => y = l.node
      BY <1>5
    <3> HIDE DEF y
    <3> QED BY <1>1, <1>5, <3>1, <3>2
  <2>2. /\ seen' = [seen EXCEPT ![c] = Append(@, l.node)] /\ loc' = [loc EXCEPT ![c] = m]
        /\ UNCHANGED <<pc, mutex, joined, op, ops, owed>> /\ fault' = fault
    BY <1>5 DEF NextMember, Visits, Reads
  <2>3. nxt[l.node] \in Threads \cup {NULL} /\ nxt[l.node] \in Cells /\ l.n + 1 \in Nat
    <3>1. nxt[l.node] \in Threads \cup {NULL}
      BY <1>1, <2>1 DEF TypeInv, Kinds
    <3>2. l.n + 1 \in Nat
      BY <1>1 DEF Locals
    <3> QED BY <3>1, <3>2 DEF Cells, Nodes
  <2>4. m \in Locals /\ m.own = l.own /\ m.node = nxt[l.node]
    <3>1. m = [[l EXCEPT !.node = nxt[l.node]] EXCEPT !.n = l.n + 1]
      BY <1>1 DEF Locals
    <3> QED BY <1>1, <2>3, <3>1 DEF Locals
  <2> HIDE DEF m
  <2>5. seen' \in [Threads -> Seq(Threads)]
    <3>1. seen \in [Threads -> Seq(Threads)]
      BY <1>1, Kept
    <3>2. Append(seen[c], l.node) \in Seq(Threads)
      BY <2>1, <3>1
    <3> QED BY <2>2, <3>1, <3>2
  <2>6. UNCHANGED <<first, size, nxt, id, freed>> /\ Chains' = Chains
    BY <1>2, ChainsStay DEF heap
  <2>7. Private(c, pc[c], op[c], m, joined[c], owed[c]) /\ HeapTypes'
    BY <1>1, <2>2, <2>5, <2>6, Kept DEF Private, HeapTypes, Kinds
  <2>8. TypeInv' /\ Others(c) /\ pc'[c] = pc[c] /\ op'[c] = op[c] /\ loc'[c] = m
        /\ joined'[c] = joined[c] /\ owed'[c] = owed[c]
    BY <1>1, <2>4, <2>7, Kept, PrivateTypes
  <2>9. Home(c)'
    <3>1. Home(c) /\ (Out(c)' <=> Out(c))
      BY <2>6 DEF AllInv, Out
    <3>2. ~Leaving(c)' /\ ~Entering(c)'
      BY <1>1, <2>8 DEF Leaving, Entering
    <3> HIDE DEF Out, Leaving, Entering
    <3> QED BY <1>1, <1>2, <2>6, <2>8, <3>1, <3>2 DEF Home
  <2>10. c \in stale'
    BY <1>1, <2>8 DEF Strays, Looking
  <2>11. Reading(c, loc[c])'
    BY <1>1, <2>3, <2>4, <2>8, <2>10 DEF Reading
  <2>12. Place(c)' /\ Calm(c) /\ OnlyReadersOverrun'
    BY <1>1, <2>2, <2>8, <2>11 DEF Place, Calm, Busy, OnlyReadersOverrun
  <2>13. \A d \in Threads : Turn(d)'
    BY <1>1, <2>2, <2>8, TurnStays DEF AllInv
  <2> QED BY <2>6, <2>8, <2>9, <2>12, <2>13, QuietStep
<1> QED BY <1>3, <1>4, <1>5

\* A client of a session a reader looks at is being counted at most.
LEMMA ReaderCount ==
    ASSUME AllInv, Races, NEW c \in Threads, pc[c] = "members", c \notin stale
    PROVE  LET x == loc[c].own IN size[x] <= Len(Chains[x]) /\ size[x] \in Nat
<1> DEFINE x == loc[c].own
           L == Chains[List]
<1>1. Reading(c, loc[c]) /\ loc[c] \in Locals /\ TypeInv /\ ListInv
  BY DEF AllInv, TypeInv, Place
<1>2. loc[c].i + 1 \in 1..Len(L) /\ x = L[loc[c].i + 1]
  <2>1. Len(L) \in Nat /\ loc[c].i \in Nat
    BY <1>1, Apart, ListFacts DEF Locals
  <2>2. loc[c].i < Len(L) /\ x = L[loc[c].i + 1]
    BY <1>1 DEF Reading, Tracking
  <2> QED BY <2>1, <2>2
<1>3. x \in Sessions /\ x \in Owners /\ x \notin freed /\ x # List
  BY <1>1, <1>2, ListFacts, Apart
<1>4. size[x] \in Nat /\ Len(Chains[x]) \in Nat
  BY <1>1, <1>3, ListFacts DEF TypeInv
<1>5. ASSUME NEW d \in Threads PROVE ~Unlocked(d)
  <2>1. ~Unlocked(c)
    BY <1>1 DEF Unlocked, Reading
  <2> QED BY <2>1, Meets
<1>6. CASE ~Changing(x)
  <2>1. size[x] = Len(Chains[x])
    BY <1>3, <1>6 DEF AllInv, CountInv
  <2> QED BY <1>4, <2>1
<1>7. CASE Changing(x)
  <2>1. PICK d \in Threads :
           \/ pc[d] \in {"cut", "load", "store"} /\ loc[d].own = x
           \/ pc[d] \in {"drop", "cut", "load", "store"} /\ loc[d].node = x
    BY <1>7 DEF Changing
  <2>2. op[d] \notin {"NEW_SESS", "LEAVE", "destroy"} /\ Place(d)
    BY <1>5, <2>1 DEF AllInv, Unlocked
  <2>3. pc[d] # "drop"
    BY <2>2 DEF Place, Dropping
  <2>4. Counting(d, loc[d])
    BY <2>1, <2>2, <2>3 DEF Place
  <2>5. loc[d].own \in Sessions /\ loc[d].node = d /\ size[loc[d].own] = Len(Chains[loc[d].own]) - 1
    BY <2>2, <2>4 DEF Counting
  <2>6. loc[d].own = x
    BY <1>3, <2>1, <2>5, Apart
  <2> QED BY <1>4, <2>5, <2>6
<1> QED BY <1>6, <1>7

LEMMA ChainAfter == \A y : Chain(y)' = ChainOf(first'[y], nxt')
BY DEF Nth, NthOf, Chain, ChainOf

LEMMA ChainNow == \A y \in Owners : Chain(y) = Chains[y] /\ Chain(y) = ChainOf(first[y], nxt)
BY DEF Nth, NthOf, Chain, ChainOf, Chains

Overrun(c) ==
    /\ pc[c] = "members" /\ loc[c].node = NULL
    /\ ToSet(ChainOf(first[loc[c].own], nxt)) \ owed[c] # {}

LEMMA OverrunAfter ==
    ASSUME NEW c \in Threads, Overrun(c), fault' = "segv",
           UNCHANGED <<pc, loc, owed, first, nxt>>
    PROVE  OnlyReadersOverrun'
<1>1. Overrun(c)'
  BY DEF Overrun
<1>2. (\E d \in Threads : Overrun(d)') => OnlyReadersOverrun'
  BY DEF OnlyReadersOverrun, Overrun, Chain, Nth, ChainOf, NthOf
<1> QED BY <1>1, <1>2

LEMMA NextMemberStep ==
    ASSUME AllInv, Races, Strays, NEW c \in Threads, fault = "none", NextMember(c), c \notin stale
    PROVE  AllInv' /\ Chains' = Chains
<1> DEFINE l == loc[c]
           L == Chains[List]
           q == Chains[l.own]
           more == l.n < size[l.own]
<1>1. pc[c] = "members" /\ Reading(c, l) /\ l \in Locals /\ TypeInv /\ ListInv /\ op[c] = "READ"
  BY DEF NextMember, Visits, AllInv, TypeInv, Place, Reading
<1>2. l.i \in Nat /\ l.n \in Nat /\ Len(L) \in Nat /\ L \in Seq(Nodes) /\ l.own \in Owners
  BY <1>1, Apart, ListFacts DEF Locals
<1>3. /\ l.i < Len(L) /\ l.own = L[l.i + 1]
      /\ \/ l.n < Len(q) /\ l.node = q[l.n + 1]
         \/ /\ l.n <= Len(q) /\ l.node = NULL
            /\ \A k \in (l.n + 1)..Len(q) : q[k] \notin owed[c]
  BY <1>1 DEF Reading, Tracking
<1>4. l.i + 1 \in 1..Len(L) /\ In(l.own, L)
  BY <1>2, <1>3 DEF In
<1>5. l.own \in Sessions /\ l.own # NULL /\ l.own \notin freed
  BY <1>1, <1>3, <1>4, ListFacts, Live, Apart
<1>6. q \in Seq(Nodes) /\ Len(q) \in Nat /\ size[l.own] \in Nat /\ size[l.own] <= Len(q)
  BY <1>1, <1>2, ListFacts, ReaderCount
<1>7. ~Leaving(c) /\ ~Entering(c) /\ Home(c)
  BY <1>1 DEF Leaving, Entering, AllInv
<1>8. \A d \in owed[c] : d \in Threads /\ ~Out(d) /\ pc[d] \notin {"load", "store"}
  <2>1. \A d \in owed[c] : d \in Threads
    BY <1>1, Kept
  <2> HIDE DEF Out
  <2> QED BY <1>1, <2>1 DEF Reading, Tracking
<1>9. UNCHANGED <<first, size, nxt, id, freed>> /\ Chains' = Chains
  <2>1. UNCHANGED heap
    BY DEF NextMember, Visits
  <2> QED BY <2>1, ChainsStay DEF heap
\* The loop ends: on to the next session.
<1>10. CASE ~more
  <2> DEFINE m == [l EXCEPT !.at = nxt[l.own], !.i = @ + 1]
  <2>1. Moves(c, "sessions", m) /\ fault' = fault /\ UNCHANGED heap
    BY <1>5, <1>10 DEF NextMember, Visits, Reads
  <2>2. nxt[l.own] = Item(L, (l.i + 1) + 1) /\ nxt[l.own] \in Cells
    <3>1. \A i \in 1..Len(L) : nxt[L[i]] = Item(L, i + 1)
      BY <1>1, Apart, ListFacts
    <3>2. l.own \in Nodes
      BY <1>5, Apart
    <3>3. nxt[l.own] \in Cells
      <4> HIDE DEF l
      <4> QED BY <1>1, <3>2 DEF TypeInv, Cells
    <3> QED BY <1>3, <1>4, <3>1, <3>3
  <2>3. m \in Locals /\ m.at = Item(L, m.i + 1) /\ m.i = l.i + 1 /\ m.i <= Len(L)
    <3>1. l.i + 1 \in Nat
      BY <1>2
    <3>2. m = [[l EXCEPT !.at = nxt[l.own]] EXCEPT !.i = l.i + 1]
      BY <1>1 DEF Locals
    <3>3. m \in Locals /\ m.at = nxt[l.own] /\ m.i = l.i + 1
      BY <1>1, <2>2, <3>1, <3>2 DEF Locals
    <3> HIDE DEF m
    <3> QED BY <1>4, <2>2, <3>3
  <2> HIDE DEF m
  <2>4. /\ pc'[c] = "sessions" /\ loc'[c] = m /\ UNCHANGED <<op, owed>>
        /\ \A d : Out(d)' <=> Out(d)
        /\ \A d \in Threads : d # c => pc'[d] = pc[d]
    BY <2>1, MoveFacts
  <2>5. Reading(c, loc[c])'
    <3>1. \A d \in owed'[c] : ~Out(d)' /\ pc'[d] \notin {"load", "store"}
      BY <1>8, <2>4
    <3>2. m.at \in Sessions \cup {NULL}
      BY <1>1, <1>2, <2>3, ItemKinds
    <3> HIDE DEF Out
    <3> QED BY <1>1, <1>9, <2>3, <2>4, <3>1, <3>2 DEF Reading, Tracking
  <2>6. Place(c)' /\ Calm(c)
    BY <1>1, <2>4, <2>5 DEF Place, Calm, Busy
  <2> QED BY <1>1, <1>7, <2>1, <2>3, <2>6, MoveStep DEF Places
\* A client is visited.
<1>11. CASE more /\ l.node # NULL
  <2> DEFINE m == [l EXCEPT !.node = nxt[l.node], !.n = @ + 1]
  <2>1. l.n + 1 \in 1..Len(q) /\ l.node = q[l.n + 1] /\ In(l.node, q)
    <3> HIDE DEF l, q, more
    <3>1. l.n < Len(q) /\ l.node = q[l.n + 1]
      BY <1>3, <1>11
    <3>2. l.n + 1 \in 1..Len(q)
      BY <1>2, <1>6, <3>1
    <3> QED BY <3>1, <3>2 DEF In
  <2>2. l.node \in Threads /\ nxt[l.node] = Item(q, (l.n + 1) + 1) /\ nxt[l.node] \in Cells
    BY SMTT(30), <1>1, <1>2, <1>5, <2>1, Live, ListFacts DEF TypeInv
  <2>3. /\ seen' = [seen EXCEPT ![c] = Append(@, l.node)] /\ loc' = [loc EXCEPT ![c] = m]
        /\ UNCHANGED <<pc, mutex, joined, op, ops, owed>> /\ fault' = fault
    <3>1. l.node # NULL /\ l.node \notin freed
      BY <1>2, <2>1, Live
    <3>2. more /\ l.own \notin freed
      BY <1>5, <1>11
    <3> HIDE DEF more
    <3>3. /\ seen' = [seen EXCEPT ![c] = Append(@, l.node)]
          /\ loc' = [loc EXCEPT ![c] = m]
          /\ UNCHANGED <<pc, mutex, joined, op, ops, owed>> /\ fault' = fault
      BY <3>1, <3>2 DEF NextMember, Visits, Reads, more
    <3> QED BY <3>3
  <2>4. m \in Locals /\ m.node = Item(q, m.n + 1) /\ m.n = l.n + 1 /\ m.own = l.own /\ m.i = l.i
    <3>1. l.n + 1 \in Nat
      BY <1>2
    <3>2. m = [[l EXCEPT !.node = nxt[l.node]] EXCEPT !.n = l.n + 1]
      BY <1>1 DEF Locals
    <3>3. m \in Locals /\ m.node = nxt[l.node] /\ m.n = l.n + 1 /\ m.own = l.own /\ m.i = l.i
      BY <1>1, <2>2, <3>1, <3>2 DEF Locals
    <3> HIDE DEF m
    <3> QED BY <2>2, <3>3
  <2> HIDE DEF m
  <2>5. seen' \in [Threads -> Seq(Threads)]
    <3>1. seen \in [Threads -> Seq(Threads)]
      BY <1>1, Kept
    <3>2. Append(seen[c], l.node) \in Seq(Threads)
      BY <2>2, <3>1
    <3> QED BY <2>3, <3>1, <3>2
  <2>6. Private(c, pc[c], op[c], m, joined[c], owed[c]) /\ HeapTypes'
    BY <1>1, <1>9, <2>3, <2>5, Kept DEF Private, HeapTypes, Kinds
  <2>7. TypeInv' /\ Others(c) /\ pc'[c] = pc[c] /\ op'[c] = op[c] /\ loc'[c] = m
        /\ joined'[c] = joined[c] /\ owed'[c] = owed[c]
    BY <1>1, <2>4, <2>6, Kept, PrivateTypes
  <2>8. Home(c)' /\ \A d : Out(d)' <=> Out(d)
    <3>1. \A d : Out(d)' <=> Out(d)
      BY <1>9 DEF Out
    <3> HIDE DEF Out, Leaving, Entering
    <3> QED BY <1>1, <1>7, <1>9, <2>7, <3>1 DEF Home, Leaving, Entering
  <2>9. \/ m.n < Len(q) /\ m.node = q[m.n + 1]
        \/ m.n <= Len(q) /\ m.node = NULL /\ \A k \in (m.n + 1)..Len(q) : q[k] \notin owed[c]
    <3>1. CASE m.n = Len(q)
      BY <1>6, <2>4, <3>1 DEF Item
    <3>2. CASE m.n # Len(q)
      <4>1. m.n + 1 \in 1..Len(q) /\ m.n < Len(q)
        BY <1>6, <2>1, <2>4, <3>2
      <4> QED BY <2>4, <4>1 DEF Item
    <3> QED BY <3>1, <3>2
  <2>10. Reading(c, loc[c])'
    <3>1. \A d \in owed'[c] : ~Out(d)' /\ pc'[d] \notin {"load", "store"}
      BY <1>8, <2>3, <2>8
    <3>2. m.own \in Sessions /\ m.node \in Threads \cup {NULL}
      BY <1>1, <1>2, <1>5, <2>4, ItemKinds
    <3> HIDE DEF Out
    <3> QED BY <1>1, <1>3, <1>9, <2>4, <2>7, <2>9, <3>1, <3>2 DEF Reading, Tracking
  <2>11. Place(c)' /\ Calm(c) /\ OnlyReadersOverrun'
    BY <1>1, <2>3, <2>7, <2>10 DEF Place, Calm, Busy, OnlyReadersOverrun
  <2>12. \A d \in Threads : Turn(d)'
    BY <1>1, <2>3, <2>7, TurnStays DEF AllInv
  <2> QED BY <1>9, <2>7, <2>8, <2>11, <2>12, QuietStep
\* The NULL behind the last client is followed.
<1>12. CASE more /\ l.node = NULL
  <2>1. fault' = "segv" /\ UNCHANGED <<mutex, joined, pc, op, loc, ops, seen, owed>>
    BY <1>5, <1>12 DEF NextMember, Visits, Reads, history
  <2>2. l.n + 1 \in 1..Len(q) /\ q[l.n + 1] \notin owed[c]
    <3>1. l.n < Len(q)
      BY <1>2, <1>6, <1>12
    <3>2. l.n + 1 \in (l.n + 1)..Len(q) /\ l.n + 1 \in 1..Len(q)
      BY <1>2, <1>6, <3>1
    <3>3. l.node # q[l.n + 1]
      BY <1>1, <1>2, <1>12, <3>2, ListFacts
    <3> QED BY <1>3, <3>2, <3>3
  <2>3. ToSet(Chain(l.own)) \ owed[c] # {}
    <3>1. Chain(l.own) = q
      BY <1>2, ChainNow
    <3>2. q[l.n + 1] \in ToSet(q)
      BY <1>6, <2>2 DEF ToSet
    <3> QED BY <2>2, <3>1, <3>2
  <2>4. OnlyReadersOverrun'
    <3>1. Overrun(c)
      BY <1>1, <1>2, <1>12, <2>3, ChainNow DEF Overrun
    <3> QED BY <1>9, <2>1, <3>1, OverrunAfter
  <2>5. TypeInv' /\ Others(c) /\ Same(c)
    <3>1. UNCHANGED <<first, size, nxt, id, freed, mutex, joined, pc, op, loc, ops, seen, owed>>
      BY <1>9, <2>1
    <3> QED BY <1>1, <3>1 DEF TypeInv, Others, Same, Kinds
  <2>6. Home(c)' /\ Place(c)'
    <3>1. Home(c) /\ Place(c) /\ owed[c] \subseteq Threads
      BY <1>1, Kept DEF AllInv
    <3> QED BY <1>9, <2>1, <2>5, <3>1, HomeStays, PlaceStays
  <2>7. Calm(c) /\ \A d \in Threads : Turn(d)'
    BY <1>1, <2>1 DEF AllInv, Calm, Busy, Turn
  <2> QED BY <1>9, <2>4, <2>5, <2>6, <2>7, QuietStep
<1> QED BY <1>10, <1>11, <1>12

-----------------------------------------------------------------------------
(***************************************************************************)
(* A packet is begun; JOIN takes the lock.                                 *)
(***************************************************************************)
LEMMA BeginTurn ==
    ASSUME AllInv, NEW c \in Threads, Begins(c), Others(c), op'[c] # "JOIN", mutex' = mutex
    PROVE  \A d \in Threads : Turn(d)'
<1>1. ASSUME NEW d \in Threads PROVE Turn(d)'
  <2>1. Turn(d) /\ pc[c] = "idle"
    BY DEF AllInv, Begins
  <2>2. CASE d = c
    BY <2>1, <2>2 DEF Turn, Others, Same
  <2>3. CASE d # c
    BY <2>1, <2>3 DEF Turn, Others, Same
  <2> QED BY <2>2, <2>3
<1> QED BY <1>1

LEMMA SearchesMeans ==
    ASSUME TypeInv, ListInv, NEW c \in Threads, NEW what \in Ops, NEW l \in Locals,
           Searches(c, what, l)
    PROVE  \E m \in Locals :
           /\ pc' = [pc EXCEPT ![c] = "search"] /\ op' = [op EXCEPT ![c] = what]
           /\ loc' = [loc EXCEPT ![c] = m]
           /\ m.name = l.name /\ m.own = l.own /\ m.node = l.node
           /\ m.i = 0 /\ m.at = Item(Chains[List], m.i + 1) /\ m.i <= Len(Chains[List])
           /\ Passed(m.name, m.i)
<1> DEFINE m == [l EXCEPT !.at = first[List], !.i = 0]
<1>1. first[List] \in Cells /\ first[List] = Item(Chains[List], 1) /\ Len(Chains[List]) \in Nat
  BY Apart, ListFacts DEF TypeInv
<1>2. /\ m \in Locals /\ m.name = l.name /\ m.own = l.own /\ m.node = l.node
      /\ m.i = 0 /\ m.at = first[List]
  BY <1>1 DEF Locals
<1>3. /\ pc' = [pc EXCEPT ![c] = "search"] /\ op' = [op EXCEPT ![c] = what]
      /\ loc' = [loc EXCEPT ![c] = m]
  BY DEF Searches, Goes
<1> HIDE DEF m
<1>4. Passed(m.name, m.i)
  BY <1>2 DEF Passed
<1>5. m.at = Item(Chains[List], m.i + 1) /\ m.i <= Len(Chains[List])
  BY <1>1, <1>2
<1> QED BY <1>2, <1>3, <1>4, <1>5

LEMMA BeginJoinStep ==
    ASSUME AllInv, Races, Strays, NEW c \in Threads, fault = "none", BeginJoin(c)
    PROVE  AllInv' /\ Chains' = Chains
<1>1. /\ pc[c] = "idle" /\ joined[c] = <<>> /\ Begins(c) /\ TypeInv /\ ListInv
      /\ UNCHANGED heap /\ UNCHANGED <<mutex, fault, joined, history>>
  BY DEF BeginJoin, Begins, AllInv
<1>2. PICK s \in Ids : Searches(c, "check", [loc[c] EXCEPT !.name = s])
  BY DEF BeginJoin
<1>3. PICK l \in Locals : l = [loc[c] EXCEPT !.name = s] /\ l.name = s
  <2>1. [loc[c] EXCEPT !.name = s] \in Locals /\ [loc[c] EXCEPT !.name = s].name = s
    BY <1>1, Kept DEF Locals
  <2> QED BY <2>1
<1>4. PICK m \in Locals :
      /\ pc' = [pc EXCEPT ![c] = "search"] /\ op' = [op EXCEPT ![c] = "check"]
      /\ loc' = [loc EXCEPT ![c] = m] /\ m.name = s
      /\ m.i = 0 /\ m.at = Item(Chains[List], m.i + 1) /\ m.i <= Len(Chains[List])
      /\ Passed(m.name, m.i)
  <2>1. Searches(c, "check", l) /\ "check" \in Ops
    BY <1>2, <1>3 DEF Ops
  <2>2. TypeInv /\ ListInv /\ l.name = s
    BY <1>1, <1>3
  <2> QED BY <2>1, <2>2, SearchesMeans
<1>5. UNCHANGED <<first, size, nxt, id, freed>> /\ Chains' = Chains
  BY <1>1, ChainsStay DEF heap
<1>6. ops' \in Nat
  BY <1>1, Kept DEF BeginJoin, Begins
<1>7. Private(c, "search", "check", m, joined[c], owed[c]) /\ HeapTypes'
  BY <1>1, <1>4, <1>5, <1>6, Kept DEF Private, history, HeapTypes, Kinds
<1>8. /\ TypeInv' /\ Others(c) /\ pc'[c] = "search" /\ op'[c] = "check" /\ loc'[c] = m
      /\ joined'[c] = joined[c]
  BY <1>1, <1>4, <1>7, Kept, PrivateTypes DEF Places, Ops
<1>9. Home(c)'
  <2>1. Out(c)' /\ Out(c) /\ nxt[c] = NULL
    <3>1. Out(c) /\ nxt[c] = NULL
      BY <1>1, Absent DEF Leaving
    <3> QED BY <1>5, <3>1 DEF Out
  <2>2. c \notin freed
    BY <1>1 DEF Begins
  <2> QED BY <1>1, <1>5, <1>8, <2>1, <2>2 DEF Home, Out
<1>10. Searching(c, loc[c])'
  BY <1>1, <1>4, <1>5, <1>8 DEF Searching, Passed
<1>11. Place(c)' /\ Calm(c) /\ OnlyReadersOverrun'
  BY <1>1, <1>8, <1>10 DEF Place, Calm, Busy, OnlyReadersOverrun
<1>12. \A d \in Threads : Turn(d)'
  BY <1>1, <1>8, BeginTurn
<1> QED BY <1>5, <1>8, <1>9, <1>11, <1>12, QuietStep

LEMMA BeginLeaveStep ==
    ASSUME AllInv, Races, Strays, NEW c \in Threads, fault = "none", BeginLeave(c)
    PROVE  AllInv' /\ Chains' = Chains
<1>1. /\ pc[c] = "idle" /\ joined[c] # <<>> /\ Begins(c) /\ TypeInv /\ ListInv
      /\ UNCHANGED heap /\ UNCHANGED <<mutex, fault, history>> /\ c \notin freed /\ Home(c)
      /\ joined' = [joined EXCEPT ![c] = Front(@)]
  BY DEF BeginLeave, Begins, AllInv
<1>2. PICK s \in Sessions : In(c, Chains[s]) /\ joined[c] = <<id[s]>>
  BY <1>1 DEF Home, Entering
<1>3. id[s] \in Ids
  <2>1. Chains[s] # <<>>
    BY <1>2 DEF In
  <2>2. id[s] # NULL
    BY <1>1, <2>1 DEF ListInv
  <2> QED BY <1>1, <2>2 DEF TypeInv
<1>4. Last(joined[c]) = id[s] /\ Front(joined[c]) = <<>>
  <2>1. ASSUME NEW x PROVE Last(<<x>>) = x /\ Front(<<x>>) = <<>>
    BY DEF Last, Front
  <2> QED BY <1>2, <2>1
<1>5. PICK l \in Locals : l = [loc[c] EXCEPT !.name = id[s]] /\ l.name = id[s]
  <2>1. /\ [loc[c] EXCEPT !.name = id[s]] \in Locals
        /\ [loc[c] EXCEPT !.name = id[s]].name = id[s]
    BY <1>1, <1>3, Kept DEF Locals
  <2> QED BY <2>1
<1> DEFINE j == <<>>
<1>6. Searches(c, "LEAVE", l)
  BY <1>4, <1>5 DEF BeginLeave
<1>7. PICK m \in Locals :
      /\ pc' = [pc EXCEPT ![c] = "search"] /\ op' = [op EXCEPT ![c] = "LEAVE"]
      /\ loc' = [loc EXCEPT ![c] = m] /\ m.name = id[s]
      /\ m.i = 0 /\ m.at = Item(Chains[List], m.i + 1) /\ m.i <= Len(Chains[List])
      /\ Passed(m.name, m.i)
  <2>1. "LEAVE" \in Ops /\ TypeInv /\ ListInv /\ l.name = id[s]
    BY <1>1, <1>5 DEF Ops
  <2> QED BY <1>6, <2>1, SearchesMeans
<1>8. UNCHANGED <<first, size, nxt, id, freed>> /\ Chains' = Chains
  BY <1>1, ChainsStay DEF heap
<1>9. ops' \in Nat /\ joined' = [joined EXCEPT ![c] = <<>>]
  BY <1>1, <1>4, Kept DEF BeginLeave, Begins
<1>10. Private(c, "search", "LEAVE", m, <<>>, owed[c]) /\ HeapTypes'
  BY <1>1, <1>7, <1>8, <1>9, Kept DEF Private, history, HeapTypes, Kinds
<1>11. /\ TypeInv' /\ Others(c) /\ pc'[c] = "search" /\ op'[c] = "LEAVE" /\ loc'[c] = m
       /\ joined'[c] = <<>>
  <2>1. "search" \in Places /\ "LEAVE" \in Ops /\ j \in Seq(Ids)
    BY DEF Places, Ops
  <2>2. Private(c, "search", "LEAVE", m, j, owed[c]) /\ owed[c] \in SUBSET Threads
    BY <1>1, <1>10, Kept
  <2> HIDE DEF j
  <2>3. /\ TypeInv' /\ Others(c) /\ pc'[c] = "search" /\ op'[c] = "LEAVE" /\ loc'[c] = m
        /\ joined'[c] = j
    BY <1>1, <1>7, <1>10, <2>1, <2>2, PrivateTypes
  <2> QED BY <2>3 DEF j
<1>12. Home(c)'
  <2>1. ~Out(c)' /\ Leaving(c)'
    BY <1>2, <1>8, <1>11 DEF Out, Leaving
  <2> HIDE DEF Leaving, Out
  <2> QED BY <1>1, <1>8, <1>11, <2>1 DEF Home
<1>13. Searching(c, loc[c])'
  BY <1>2, <1>3, <1>7, <1>8, <1>11 DEF Searching, Passed
<1>14. Place(c)' /\ Calm(c) /\ OnlyReadersOverrun'
  BY <1>1, <1>11, <1>13 DEF Place, Calm, Busy, OnlyReadersOverrun
<1>15. \A d \in Threads : Turn(d)'
  BY <1>1, <1>11, BeginTurn
<1> QED BY <1>8, <1>11, <1>12, <1>14, <1>15, QuietStep

LEMMA SettledMeans ==
    ASSUME AllInv
    PROVE  /\ Settled \in SUBSET Threads
           /\ \A d \in Settled : ~Out(d) /\ pc[d] \notin {"load", "store"}
<1>1. ASSUME NEW s \in Sessions, NEW d \in ToSet(Chain(s)) PROVE d \in Threads /\ ~Out(d)
  <2>1. Chain(s) = Chains[s] /\ TypeInv /\ ListInv
    BY Apart, ChainNow DEF AllInv
  <2>2. Chains[s] \in Seq(Threads) /\ d \in ToSet(Chains[s])
    BY <1>1, <2>1 DEF ListInv
  <2>3. \E i \in 1..Len(Chains[s]) : Chains[s][i] = d
    BY <2>2 DEF ToSet
  <2> QED BY <2>1, <2>3, ListFacts DEF Out, In
<1>2. \A d \in Settled : /\ \E s \in Sessions : d \in ToSet(Chain(s))
                         /\ pc[d] \notin {"load", "store"}
  BY DEF Settled
<1> HIDE DEF Settled, Out
<1> QED BY <1>1, <1>2

LEMMA BeginReadStep ==
    ASSUME AllInv, Races, Strays, NEW c \in Threads, fault = "none", BeginRead(c)
    PROVE  AllInv' /\ Chains' = Chains
<1>1. /\ pc[c] = "idle" /\ Begins(c) /\ TypeInv /\ ListInv /\ c \notin freed
      /\ UNCHANGED heap /\ UNCHANGED <<mutex, fault, joined>> /\ Home(c)
  BY DEF BeginRead, Begins, AllInv
<1> DEFINE m == [loc[c] EXCEPT !.at = first[List], !.i = 0]
<1>2. /\ pc' = [pc EXCEPT ![c] = "sessions"] /\ op' = [op EXCEPT ![c] = "READ"]
      /\ loc' = [loc EXCEPT ![c] = m]
      /\ seen' = [seen EXCEPT ![c] = <<>>] /\ owed' = [owed EXCEPT ![c] = Settled]
  BY DEF BeginRead, Goes
<1>3. /\ first[List] \in Cells /\ first[List] = Item(Chains[List], 0 + 1)
      /\ Len(Chains[List]) \in Nat
  BY <1>1, Apart, ListFacts DEF TypeInv
<1>4. m \in Locals /\ m.at = first[List] /\ m.i = 0
  BY <1>1, <1>3, Kept DEF Locals
<1> HIDE DEF m
<1>5. UNCHANGED <<first, size, nxt, id, freed>> /\ Chains' = Chains
  BY <1>1, ChainsStay DEF heap
<1>6. ops' \in Nat
  BY <1>1, Kept DEF BeginRead, Begins
<1>7. seen' \in [Threads -> Seq(Threads)]
  <2>1. seen \in [Threads -> Seq(Threads)]
    BY <1>1, Kept
  <2> QED BY <1>2, <2>1
<1> DEFINE w == Settled
<1>8. Private(c, "sessions", "READ", m, joined[c], w) /\ HeapTypes'
  BY <1>1, <1>2, <1>5, <1>6, <1>7, Kept DEF Private, HeapTypes, Kinds
<1>9. w \in SUBSET Threads /\ \A d \in w : d \in Threads /\ ~Out(d) /\ pc[d] \notin {"load", "store"}
  BY SettledMeans
<1>10. "sessions" \in Places /\ "READ" \in Ops /\ joined[c] \in Seq(Ids) /\ HeapTypes'
  BY <1>1, <1>8, Kept DEF Places, Ops
<1> HIDE DEF w
<1>11. /\ TypeInv' /\ Others(c) /\ pc'[c] = "sessions" /\ op'[c] = "READ" /\ loc'[c] = m
       /\ joined'[c] = joined[c] /\ owed'[c] = w
  BY <1>1, <1>4, <1>8, <1>9, <1>10, PrivateTypes
<1>12. \A d : Out(d)' <=> Out(d)
  BY <1>5 DEF Out
<1>13. Home(c)'
  <2>1. ~Leaving(c) /\ ~Entering(c)
    BY <1>1 DEF Leaving, Entering
  <2> HIDE DEF Out, Leaving, Entering
  <2> QED BY <1>1, <1>5, <1>11, <1>12, <2>1 DEF Home
<1>14. Reading(c, loc[c])'
  <2>1. \A d \in owed'[c] : ~Out(d)' /\ pc'[d] \notin {"load", "store"}
    <3> HIDE DEF Out
    <3> QED BY <1>9, <1>11, <1>12 DEF Others, Same
  <2>2. op'[c] = "READ" /\ loc'[c].i <= Len(Chains'[List])
        /\ loc'[c].at = Item(Chains'[List], loc'[c].i + 1)
    BY <1>3, <1>4, <1>5, <1>11
  <2>3. loc'[c].at \in Sessions \cup {NULL}
    BY <1>1, <1>3, <1>4, <1>11, ItemKinds
  <2> HIDE DEF Out
  <2> QED BY <1>11, <2>1, <2>2, <2>3 DEF Reading, Tracking
<1>15. Place(c)' /\ Calm(c) /\ OnlyReadersOverrun'
  BY <1>1, <1>11, <1>14 DEF Place, Calm, Busy, OnlyReadersOverrun
<1>16. \A d \in Threads : Turn(d)'
  BY <1>1, <1>11, BeginTurn
<1> QED BY <1>5, <1>11, <1>13, <1>15, <1>16, QuietStep

LEMMA LockStep ==
    ASSUME AllInv, Races, Strays, NEW c \in Threads, fault = "none", Lock(c)
    PROVE  AllInv' /\ Chains' = Chains
<1>1. /\ pc[c] = "lock" /\ op[c] = "check" /\ loc[c].name \in Ids /\ joined[c] = <<>>
      /\ TypeInv /\ ListInv /\ mutex = NULL /\ mutex' = c /\ Home(c)
      /\ nxt' = [nxt EXCEPT ![c] = NULL] /\ joined' = [joined EXCEPT ![c] = <<>>]
      /\ UNCHANGED <<first, size, id, freed, fault, ops, history>>
  BY DEF Lock, AllInv, Place
<1>2. Out(c) /\ nxt[c] = NULL
  BY <1>1, Absent DEF Leaving
<1>3. c \in Cells /\ nxt \in [Cells -> Cells]
  BY <1>1, Apart DEF TypeInv, Cells
<1>4. nxt' = nxt
  BY <1>1, <1>2, <1>3
<1>5. UNCHANGED <<first, size, nxt, id, freed>> /\ Chains' = Chains
  BY <1>1, <1>4, ChainsStay
<1>6. PICK m \in Locals :
      /\ pc' = [pc EXCEPT ![c] = "search"] /\ op' = [op EXCEPT ![c] = "JOIN"]
      /\ loc' = [loc EXCEPT ![c] = m] /\ m.name = loc[c].name
      /\ m.i = 0 /\ m.at = Item(Chains[List], m.i + 1) /\ m.i <= Len(Chains[List])
      /\ Passed(m.name, m.i)
  <2>1. Searches(c, "JOIN", loc[c]) /\ "JOIN" \in Ops
    BY DEF Ops, Lock
  <2>2. TypeInv /\ ListInv /\ loc[c] \in Locals
    BY <1>1, Kept
  <2> QED BY <2>1, <2>2, SearchesMeans
<1>7. joined' = [joined EXCEPT ![c] = joined[c]] /\ "JOIN" \in Ops /\ "search" \in Places
  BY <1>1 DEF Ops, Places
<1>8. Private(c, "search", "JOIN", m, joined[c], owed[c]) /\ HeapTypes'
  BY <1>1, <1>5, <1>6, <1>7, Kept DEF Private, history, HeapTypes, Kinds
<1>9. /\ TypeInv' /\ Others(c) /\ pc'[c] = "search" /\ op'[c] = "JOIN" /\ loc'[c] = m
      /\ joined'[c] = joined[c]
  BY <1>1, <1>6, <1>7, <1>8, Kept, PrivateTypes
<1>10. Home(c)'
  <2>1. Out(c)'
    BY <1>2, <1>5 DEF Out
  <2>2. c \notin freed
    BY <1>1 DEF Home
  <2> QED BY <1>1, <1>2, <1>5, <1>9, <2>1, <2>2 DEF Home, Out
<1>11. Searching(c, loc[c])'
  BY <1>1, <1>5, <1>6, <1>9 DEF Searching, Passed
<1>12. Place(c)' /\ Calm(c) /\ OnlyReadersOverrun'
  BY <1>1, <1>9, <1>11 DEF Place, Calm, Busy, OnlyReadersOverrun
<1>13. ASSUME NEW d \in Threads PROVE Turn(d)'
  <2>1. Turn(d) /\ Turn(c) /\ d # NULL
    BY Apart DEF AllInv
  <2>2. CASE d = c
    BY <1>1, <1>9, <2>1, <2>2 DEF Turn
  <2>3. CASE d # c
    BY <1>1, <1>9, <2>1, <2>3 DEF Turn, Others, Same
  <2> QED BY <2>2, <2>3
<1> QED BY <1>5, <1>9, <1>10, <1>12, <1>13, QuietStep

-----------------------------------------------------------------------------
(***************************************************************************)
(* The store that appends a node.                                          *)
(***************************************************************************)
LEMMA NewNode ==
    ASSUME AllInv, NEW c \in Threads, Appending(c, loc[c]), pc[c] # "cut"
    PROVE  /\ loc[c].own \in Owners /\ loc[c].node \in Nodes /\ nxt[loc[c].node] = NULL
           /\ \A x \in Owners : ~In(loc[c].node, Chains[x])
           /\ loc[c].own = List => loc[c].node \in Sessions
           /\ loc[c].own # List => loc[c].own \in Sessions /\ loc[c].node = c
<1> DEFINE l == loc[c]
<1>1. TypeInv /\ ListInv /\ Home(c) /\ l.own \in Owners
  BY OwnerLive DEF AllInv
<1>2. \A x \in Owners : x = List \/ x \in Sessions
  BY DEF Owners
<1>3. CASE l.own = List
  <2>1. l.node \in Sessions /\ ~In(l.node, Chains[List]) /\ nxt[l.node] = NULL
    BY <1>3, Apart DEF Appending
  <2>2. \A s \in Sessions : ~In(l.node, Chains[s])
    BY <1>1, <2>1, ListFacts, Apart DEF In
  <2> QED BY <1>1, <1>2, <1>3, <2>1, <2>2, Apart
<1>4. CASE l.own # List
  <2>1. l.own \in Sessions /\ l.node = c /\ Out(c)
    BY <1>4 DEF Appending
  <2>3. ~In(c, Chains[List])
    BY <1>1, ListFacts, Apart DEF In
  <2>4. \A x \in Owners : ~In(c, Chains[x])
    BY <1>2, <2>1, <2>3 DEF Out
  <2>5. nxt[c] = NULL
    <3> HIDE DEF Out
    <3>1. nxt[c] = NULL \/ pc[c] = "cut"
      BY <1>1, <2>1 DEF Home
    <3> QED BY <3>1
  <2> QED BY <1>1, <1>4, <2>1, <2>4, <2>5, Apart
<1> QED BY <1>3, <1>4

\* c has linked its node, which is to be counted next.
Linked(c) ==
    /\ pc[c] \in {"head", "link"} /\ Appending(c, loc[c])
    /\ Chains' = [Chains EXCEPT ![loc[c].own] = Append(@, loc[c].node)]
    /\ \A x \in Owners : Path(Chains'[x], first'[x], nxt')
    /\ \A y \in Cells : nxt'[y] = nxt[y] \/ In(y, Chains[loc[c].own])
    /\ UNCHANGED <<size, id, freed>> /\ fault' = "none"
    /\ Moves(c, "load", loc[c]) /\ HeapTypes'

\* A list after y has been appended to own's.
Grown(c, own, y) ==
    /\ own \in Owners /\ y \in Nodes
    /\ \A x \in Owners : ~In(y, Chains[x])
    /\ own = List => y \in Sessions
    /\ own # List => own \in Sessions /\ y = c
    /\ \A x \in Owners : x # own => Chains'[x] = Chains[x]
    /\ Len(Chains'[own]) = Len(Chains[own]) + 1 /\ Len(Chains[own]) \in Nat
    /\ Chains'[own][Len(Chains[own]) + 1] = y
    /\ \A i \in 1..Len(Chains[own]) : Chains'[own][i] = Chains[own][i]
    /\ Chains'[own] = Append(Chains[own], y)
    /\ \A x \in Owners : \A z : In(z, Chains'[x]) <=> In(z, Chains[x]) \/ (x = own /\ z = y)
    /\ \A z \in Cells : nxt'[z] = nxt[z] \/ In(z, Chains[own])

LEMMA LinkedMeans ==
    ASSUME AllInv, NEW c \in Threads, Linked(c),
           NEW own, own = loc[c].own, NEW y, y = loc[c].node
    PROVE  Grown(c, own, y)
<1>1. /\ own \in Owners /\ y \in Nodes /\ \A x \in Owners : ~In(y, Chains[x])
      /\ own = List => y \in Sessions
      /\ own # List => own \in Sessions /\ y = c
  BY NewNode DEF Linked
<1>2. Chains = [x \in Owners |-> Chains[x]] /\ Chains[own] \in Seq(Nodes)
  BY <1>1, ListFacts DEF AllInv
<1>3. Chains' = [Chains EXCEPT ![own] = Append(Chains[own], y)]
  BY DEF Linked
<1>4. Chains'[own] = Append(Chains[own], y) /\ \A x \in Owners : x # own => Chains'[x] = Chains[x]
  BY <1>1, <1>2, <1>3
<1>5. /\ Len(Chains'[own]) = Len(Chains[own]) + 1 /\ Len(Chains[own]) \in Nat
      /\ Chains'[own][Len(Chains[own]) + 1] = y
      /\ \A i \in 1..Len(Chains[own]) : Chains'[own][i] = Chains[own][i]
      /\ \A z : In(z, Chains'[own]) <=> In(z, Chains[own]) \/ z = y
  BY <1>1, <1>2, <1>4, AppendMeans
<1>6. \A z \in Cells : nxt'[z] = nxt[z] \/ In(z, Chains[own])
  BY DEF Linked
<1> QED BY <1>1, <1>4, <1>5, <1>6 DEF Grown

LEMMA LinkedLists ==
    ASSUME AllInv, NEW c \in Threads, Linked(c)
    PROVE  ListInv'
<1>1. PICK own, y : own = loc[c].own /\ y = loc[c].node
  OBVIOUS
<1> DEFINE L == Chains[List]
           M == Chains'[List]
<1>0. Grown(c, own, y)
  BY <1>1, LinkedMeans
<1>2. /\ own \in Owners /\ y \in Nodes
      /\ own = List => y \in Sessions
      /\ own # List => own \in Sessions /\ y = c
      /\ \A x \in Owners : x # own => Chains'[x] = Chains[x]
      /\ Chains'[own] = Append(Chains[own], y)
      /\ \A x \in Owners : \A z : In(z, Chains'[x]) <=> In(z, Chains[x]) \/ (x = own /\ z = y)
      /\ \A z \in Cells : nxt'[z] = nxt[z] \/ In(z, Chains[own])
      /\ \A x \in Owners : ~In(y, Chains[x])
  BY <1>0 DEF Grown
<1>3. Len(Chains'[own]) = Len(Chains[own]) + 1 /\ Len(Chains[own]) \in Nat
      /\ Chains'[own][Len(Chains[own]) + 1] = y
      /\ \A i \in 1..Len(Chains[own]) : Chains'[own][i] = Chains[own][i]
  BY <1>0 DEF Grown
<1>4. TypeInv /\ ListInv /\ L \in Seq(Sessions) /\ \A s \in Sessions : Chains[s] \in Seq(Threads)
  BY DEF AllInv, ListInv
<1>5. Appending(c, loc[c]) /\ UNCHANGED <<size, id, freed>>
      /\ \A x \in Owners : Path(Chains'[x], first'[x], nxt')
  BY DEF Linked
<1>6. /\ own = List => y \notin freed /\ id[y] # NULL
      /\ own # List => Named(own)
  BY <1>1, <1>5, Apart DEF Appending
<1>7. M \in Seq(Sessions) /\ \A s \in Sessions : Chains'[s] \in Seq(Threads)
  <2>1. M \in Seq(Sessions)
    <3>1. CASE own = List
      <4>1. M = Append(L, y) /\ y \in Sessions /\ L \in Seq(Sessions)
        BY <1>2, <1>4, <3>1
      <4>2. \A q \in Seq(Sessions), z \in Sessions : Append(q, z) \in Seq(Sessions)
        OBVIOUS
      <4> QED BY <4>1, <4>2
    <3>2. CASE own # List
      <4>1. M = L
        BY <1>2, <3>2, Apart
      <4> QED BY <1>4, <4>1
    <3> QED BY <3>1, <3>2
  <2>2. ASSUME NEW s \in Sessions PROVE Chains'[s] \in Seq(Threads)
    <3>1. CASE own = s
      <4>1. Chains'[s] = Append(Chains[s], y) /\ y \in Threads /\ Chains[s] \in Seq(Threads)
        BY <1>2, <1>4, <3>1, Apart
      <4>2. \A q \in Seq(Threads), z \in Threads : Append(q, z) \in Seq(Threads)
        OBVIOUS
      <4> QED BY <4>1, <4>2
    <3>2. CASE own # s
      BY <1>2, <1>4, <3>2, Apart
    <3> QED BY <3>1, <3>2
  <2> QED BY <2>1, <2>2
<1>8. ASSUME NEW s \in Sessions, NEW t \in Sessions, NEW d \in Threads,
             In(d, Chains'[s]), In(d, Chains'[t])
      PROVE  s = t
  <2>1. s \in Owners /\ t \in Owners
    BY Apart
  <2>2. In(d, Chains[s]) /\ In(d, Chains[t]) => s = t
    BY <1>4 DEF ListInv
  <2> QED BY <1>2, <1>8, <2>1, <2>2
<1>9. ASSUME NEW s \in Sessions
      PROVE  /\ In(s, M) => s \notin freed' /\ id'[s] # NULL
             /\ ~In(s, M) => Chains'[s] = <<>>
             /\ id'[s] = NULL => s \notin freed' /\ nxt'[s] = NULL
  <2>1. /\ In(s, L) => s \notin freed /\ id[s] # NULL
        /\ ~In(s, L) => Chains[s] = <<>>
        /\ id[s] = NULL => s \notin freed /\ nxt[s] = NULL
    BY <1>4 DEF ListInv
  <2>2. s \in Owners /\ s # List /\ s \in Cells /\ List \in Owners
    BY Apart DEF Cells
  <2>3. In(s, M) <=> In(s, L) \/ (own = List /\ s = y)
    BY <1>2, <2>2
  <2>4. In(s, M) => s \notin freed' /\ id'[s] # NULL
    BY <1>5, <1>6, <2>1, <2>3
  <2>5. ~In(s, M) => Chains'[s] = <<>>
    <3>1. own = s => In(s, L)
      BY <1>6, <2>2 DEF Named, In
    <3> QED BY <1>2, <2>1, <2>2, <2>3, <3>1
  <2>6. id'[s] = NULL => s \notin freed' /\ nxt'[s] = NULL
    <3>1. In(s, Chains[own]) => own = List
      BY <1>2, <1>4, ListFacts, Apart DEF In
    <3>2. In(s, Chains[own]) => id[s] # NULL
      BY <2>1, <3>1
    <3> QED BY <1>2, <1>5, <2>1, <2>2, <3>2
  <2> QED BY <2>4, <2>5, <2>6
<1>10. ASSUME NEW i \in 1..Len(M), NEW j \in 1..Len(M), i < j, Chains'[M[j]] # <<>>
       PROVE  id'[M[i]] # id'[M[j]]
  <2>1. CASE own = List
    <3>1. Chains[y] = <<>> /\ y # List
      BY <1>2, <1>4, <2>1, Apart DEF ListInv
    <3>2. j # Len(L) + 1
      BY <1>2, <1>3, <1>10, <2>1, <3>1, Apart
    <3>3. i \in 1..Len(L) /\ j \in 1..Len(L) /\ M[i] = L[i] /\ M[j] = L[j]
      BY <1>3, <1>10, <2>1, <3>2
    <3>4. L[j] \in Sessions /\ L[j] # List
      BY <1>4, <3>3, Apart
    <3>5. Chains[L[j]] # <<>>
      BY <1>2, <1>10, <2>1, <3>3, <3>4, Apart
    <3>6. id[L[i]] # id[L[j]]
      BY <1>4, <1>10, <3>3, <3>5 DEF ListInv
    <3> QED BY <1>5, <3>3, <3>6
  <2>2. CASE own # List
    <3>1. M = L
      BY <1>2, <2>2, Apart
    <3>2. L[j] \in Sessions /\ L[j] \in Owners
      BY <1>4, <3>1, Apart
    <3>3. CASE L[j] = own
      <4>1. PICK k \in 1..Len(L) : L[k] = own /\ Passed(id[own], k - 1)
        BY <1>6, <2>2 DEF Named
      <4>2. k = j
        <5>1. \A a, b \in 1..Len(L) : L[a] = L[b] => a = b
          BY <1>4, Apart DEF ListInv, Path
        <5> QED BY <3>1, <3>3, <4>1, <5>1
      <4>3. i \in 1..(k - 1)
        BY <1>10, <3>1, <4>2
      <4> QED BY <1>5, <3>1, <3>3, <4>1, <4>3 DEF Passed
    <3>4. CASE L[j] # own
      <4>1. Chains[L[j]] # <<>>
        BY <1>2, <1>10, <3>1, <3>2, <3>4
      <4>2. id[L[i]] # id[L[j]]
        BY <1>4, <1>10, <3>1, <4>1 DEF ListInv
      <4> QED BY <1>5, <3>1, <4>2
    <3> QED BY <3>3, <3>4
  <2> QED BY <2>1, <2>2
<1> HIDE DEF M, L
<1> QED BY <1>5, <1>7, <1>8, <1>9, <1>10 DEF ListInv, M

\* Where a thread is that has no part in a change.
LEMMA LookerPlace ==
    ASSUME AllInv, NEW d \in Threads, pc[d] # "idle", op[d] \in {"none", "check", "READ"}
    PROVE  /\ pc[d] \in {"search", "lock", "sessions", "members"}
           /\ op[d] \in {"check", "READ"}
<1>1. Place(d) /\ pc[d] \in Places
  BY Kept DEF AllInv
<1>2. pc[d] \notin {"unlock", "enter", "append", "head", "walk", "link", "load", "store",
                    "look", "behead", "find", "unlink", "cut", "destroy", "drop"}
  BY <1>1 DEF Place, Appending, Counting, Removing, Dropping
<1>3. pc[d] \in {"search", "lock", "sessions", "members"}
  BY <1>1, <1>2 DEF Places
<1>4. op[d] # "none"
  BY <1>1, <1>3 DEF Place, Searching, Reading
<1> QED BY <1>3, <1>4

\* Whatever happens to the lists, a stale reader is where it was.
LEMMA StrayPlace ==
    ASSUME NEW d \in Threads, Place(d), Same(d), pc[d] # "idle" => d \in stale',
           pc[d] \in {"idle", "search", "lock", "sessions", "members"},
           pc[d] # "idle" => op[d] \in {"check", "READ"}
    PROVE  Place(d)'
<1>1. pc[d] = "search" => Searching(d, loc[d])'
  BY DEF Place, Same, Searching
<1>2. pc[d] \in {"sessions", "members"} => Reading(d, loc[d])'
  BY DEF Place, Same, Reading
<1> HIDE DEF Searching, Reading
<1> QED BY <1>1, <1>2 DEF Place, Same

\* Whom a thread that changes the lists finds at work.
LEMMA Alone ==
    ASSUME AllInv, Races, NEW c \in Threads, pc[c] # "idle", op[c] \notin {"none", "check", "READ"},
           NEW d \in Threads \ {c}
    PROVE  /\ pc[d] \in {"idle", "search", "lock", "sessions", "members"}
           /\ pc[d] # "idle" => /\ op[d] \in {"check", "READ"}
                                /\ op[c] = "JOIN" \/ d \in stale
<1>1. CASE pc[d] = "idle"
  BY <1>1
<1>2. CASE pc[d] # "idle"
  <2>1. Turn(c) /\ Turn(d) /\ op[c] \in Ops
    BY Kept DEF AllInv
  <2>2. op[c] = "JOIN" \/ d \in stale
    <3>1. op[c] = "JOIN" \/ Unlocked(c)
      BY <2>1 DEF Unlocked, Ops
    <3> QED BY <1>2, <3>1, Meets
  <2>3. op[d] # "JOIN"
    <3>1. CASE op[c] = "JOIN"
      BY <1>2, <2>1, <3>1 DEF Turn
    <3>2. CASE d \in stale
      BY <3>2 DEF Races, Looking
    <3> QED BY <2>2, <3>1, <3>2
  <2>4. op[d] \notin {"NEW_SESS", "LEAVE", "destroy"}
    <3>1. Unlocked(d) => c \in stale
      BY Meets
    <3>2. c \notin stale
      BY <2>1 DEF Races, Looking
    <3> QED BY <1>2, <3>1, <3>2 DEF Unlocked
  <2>5. op[d] \in {"none", "check", "READ"} /\ pc[d] # "idle" /\ pc[d] \in Places
    BY <1>2, <2>1, <2>3, <2>4, Kept DEF Ops, AllInv
  <2> QED BY <2>2, <2>5, LookerPlace
<1> QED BY <1>1, <1>2

\* Nobody else changes the list c appends to.
LEMMA LinkerAlone ==
    ASSUME AllInv, Races, NEW c \in Threads, Appending(c, loc[c]),
           pc[c] \in {"append", "head", "walk", "link"}
    PROVE  /\ \A x \in Owners \ freed : size[x] = Len(Chains[x])
           /\ size[loc[c].own] = Len(Chains[loc[c].own])
           /\ \A d \in Threads \ {c} :
                 /\ pc[d] \in {"idle", "search", "lock", "sessions", "members"}
                 /\ pc[d] # "idle" => /\ op[d] \in {"check", "READ"}
                                      /\ loc[c].own # List \/ d \in stale
<1> DEFINE l == loc[c]
<1>1. l.own \in Owners /\ l.own \notin freed /\ op[c] \in {"JOIN", "NEW_SESS"}
  BY OwnerLive DEF Appending
<1>2. ASSUME NEW d \in Threads \ {c}
      PROVE  /\ pc[d] \in {"idle", "search", "lock", "sessions", "members"}
             /\ pc[d] # "idle" => op[d] \in {"check", "READ"} /\ (l.own # List \/ d \in stale)
  <2>1. l.own = List => op[c] # "JOIN"
    BY Apart DEF Appending
  <2> QED BY <1>1, <2>1, Alone
<1>3. \A x : ~Changing(x)
  <2>1. ASSUME NEW d \in Threads PROVE pc[d] \notin {"drop", "cut", "load", "store"}
    BY <1>2
  <2> QED BY <2>1 DEF Changing
<1>4. \A x \in Owners \ freed : size[x] = Len(Chains[x])
  BY <1>3 DEF AllInv, CountInv
<1> QED BY <1>1, <1>2, <1>4

LEMMA LinkedCount ==
    ASSUME AllInv, Races, NEW c \in Threads, Linked(c)
    PROVE  CountInv' /\ Counting(c, loc[c])'
<1>1. PICK own, y : own = loc[c].own /\ y = loc[c].node
  OBVIOUS
<1>2. Grown(c, own, y) /\ size[own] = Len(Chains[own]) /\ Appending(c, loc[c])
  BY <1>1, LinkedMeans, LinkerAlone DEF Linked
<1>3. /\ pc[c] \in {"head", "link"} /\ UNCHANGED <<size, id, freed, op, joined>>
      /\ pc' = [pc EXCEPT ![c] = "load"] /\ loc' = [loc EXCEPT ![c] = loc[c]]
  BY DEF Linked, Moves, Goes
<1>4. pc'[c] = "load" /\ loc'[c] = loc[c] /\ \A d \in Threads : d # c => pc'[d] = pc[d] /\ loc'[d] = loc[d]
  BY <1>3 DEF AllInv, TypeInv
<1>5. CountInv'
  <2>1. ASSUME NEW x \in Owners \ freed', ~Changing(x)' PROVE size'[x] = Len(Chains'[x])
    <3>1. x # own
      BY <1>1, <1>4, <2>1 DEF Changing
    <3>2. ~Changing(x)
      BY <1>3, <1>4, <2>1 DEF Changing
    <3>3. size[x] = Len(Chains[x]) /\ Chains'[x] = Chains[x]
      BY <1>2, <1>3, <2>1, <3>1, <3>2 DEF AllInv, CountInv, Grown
    <3> QED BY <1>3, <3>3
  <2> QED BY <2>1 DEF CountInv
<1>6. Counting(c, loc[c])'
  <2>1. In(y, Chains'[own]) /\ size[own] = Len(Chains'[own]) - 1
    <3>1. own \in Owners /\ \A z : In(z, Chains'[own]) <=> In(z, Chains[own]) \/ z = y
      BY <1>2 DEF Grown
    <3>2. Len(Chains'[own]) = Len(Chains[own]) + 1 /\ Len(Chains[own]) \in Nat
      BY <1>2 DEF Grown
    <3>3. size[own] = Len(Chains'[own]) - 1
      BY <1>2, <3>2
    <3> QED BY <3>1, <3>3
  <2>2. own = List => size[y] = Len(Chains'[y])
    <3>1. own = List => y \in Sessions \ freed /\ y \in Owners /\ y # own
      BY <1>1, <1>2, Apart DEF Appending
    <3>2. own = List => size[y] = Len(Chains[y])
      BY <1>2, <1>3, <3>1, LinkerAlone
    <3> QED BY <1>2, <3>1, <3>2 DEF Grown
  <2>3. own # List => own \in Sessions /\ y = c /\ Chains'[own][Len(Chains'[own])] = c
    BY <1>2 DEF Grown
  <2>4. /\ loc'[c].own = own /\ loc'[c].node = y /\ op'[c] = op[c] /\ joined'[c] = joined[c]
        /\ loc'[c].name = loc[c].name /\ pc'[c] = "load" /\ size' = size /\ id' = id
    BY <1>1, <1>3, <1>4
  <2>5. /\ op[c] \in {"JOIN", "NEW_SESS"}
        /\ own = List => op[c] = "NEW_SESS" /\ joined[c] = <<>> /\ loc[c].name \in Ids
    BY <1>1, <1>2, Apart DEF Appending
  <2> QED BY <2>1, <2>2, <2>3, <2>4, <2>5 DEF Counting
<1> QED BY <1>5, <1>6

LEMMA LinkedHome ==
    ASSUME AllInv, NEW c \in Threads, Linked(c), NEW d \in Threads
    PROVE  Home(d)' /\ (~Out(d) => ~Out(d)')
<1>1. PICK own, y : own = loc[c].own /\ y = loc[c].node
  OBVIOUS
<1>2. /\ Grown(c, own, y) /\ Appending(c, loc[c]) /\ TypeInv /\ ListInv
      /\ Home(d) /\ \A s \in Sessions : s \in Owners
  BY <1>1, LinkedMeans, Apart DEF Linked, AllInv
<1>3. /\ pc[c] \in {"head", "link"} /\ UNCHANGED <<size, id, freed, op, joined>>
      /\ pc' = [pc EXCEPT ![c] = "load"] /\ loc' = [loc EXCEPT ![c] = loc[c]]
  BY DEF Linked, Moves, Goes
<1>4. pc'[c] = "load" /\ loc'[c] = loc[c] /\ \A e \in Threads : e # c => pc'[e] = pc[e] /\ loc'[e] = loc[e]
  BY <1>3 DEF AllInv, TypeInv
<1>5. \A s \in Sessions : In(d, Chains'[s]) <=> In(d, Chains[s]) \/ (s = own /\ d = y)
  BY <1>2 DEF Grown
<1>6. ~Out(d) => ~Out(d)'
  BY <1>5 DEF Out
<1>7. Out(d) => nxt'[d] = nxt[d]
  <2>1. d \in Cells /\ \A x \in Owners : x = List \/ x \in Sessions
    BY Apart DEF Cells, Owners
  <2>2. In(d, Chains[own]) => ~Out(d)
    <3>1. own = List => ~In(d, Chains[own])
      BY <1>2, ListFacts, Apart DEF In
    <3> QED BY <1>2, <2>1, <3>1 DEF Out, Grown
  <2> HIDE DEF Out
  <2> QED BY <1>2, <2>1, <2>2 DEF Grown
<1>8. d # y => (Out(d)' <=> Out(d))
  BY <1>5 DEF Out
<1>9. CASE d # c
  <2>1. Leaving(d)' <=> Leaving(d)
    BY <1>3, <1>4, <1>9 DEF Leaving
  <2>2. Entering(d)' <=> Entering(d)
    BY <1>3, <1>4, <1>9 DEF Entering
  <2>3. d # y
    BY <1>2, <1>9, Apart DEF Grown
  <2> HIDE DEF Leaving, Entering, Out
  <2>4. Home(d)'
    BY <1>2, <1>3, <1>4, <1>5, <1>7, <1>8, <1>9, <2>1, <2>2, <2>3 DEF Home
  <2> QED BY <1>6, <2>4
<1>10. CASE d = c /\ own = List
  <2>1. joined[c] = <<>> /\ ~Leaving(c) /\ op[c] = "NEW_SESS" /\ d # y
    BY <1>1, <1>2, <1>3, <1>10, Apart DEF Appending, Leaving, Grown
  <2>2. Out(c) /\ nxt[c] = NULL
    BY <1>3, <2>1, Absent
  <2>3. c \notin freed
    BY <1>2, <1>3, <1>10, <2>1 DEF Home
  <2> HIDE DEF Out
  <2>4. Out(c)'
    BY <1>8, <1>10, <2>1, <2>2
  <2>5. \A s \in Sessions : ~In(c, Chains'[s])
    BY <2>4 DEF Out
  <2>6. Home(d)'
    BY <1>3, <1>7, <1>10, <2>1, <2>2, <2>3, <2>5 DEF Home
  <2> QED BY <1>6, <2>6
<1>11. CASE d = c /\ own # List
  <2>1. own \in Sessions /\ y = c /\ joined[c] = <<id[own]>> /\ Out(c) /\ op[c] \in {"JOIN", "NEW_SESS"}
    BY <1>1, <1>2, <1>11, Apart DEF Appending, Grown
  <2>2. \A s \in Sessions : In(c, Chains'[s]) <=> s = own
    BY <1>5, <1>11, <2>1 DEF Out
  <2>3. c \notin freed /\ ~Out(c)'
    <3>1. c \notin freed
      BY <1>2, <1>3, <1>11, <2>1 DEF Home
    <3> QED BY <2>1, <2>2, <3>1 DEF Out
  <2> HIDE DEF Out
  <2>4. Home(d)'
    BY <1>3, <1>11, <2>1, <2>2, <2>3 DEF Home
  <2> QED BY <1>6, <2>4
<1> QED BY <1>9, <1>10, <1>11

LEMMA LinkedPlace ==
    ASSUME AllInv, Races, Strays, NEW c \in Threads, Linked(c), NEW d \in Threads \ {c}
    PROVE  Place(d)'
<1>1. PICK own, y : own = loc[c].own /\ y = loc[c].node
  OBVIOUS
<1>2. /\ Grown(c, own, y) /\ Appending(c, loc[c]) /\ TypeInv /\ ListInv /\ Place(d)
      /\ \A s \in Sessions : s \in Owners
  BY <1>1, LinkedMeans, Apart DEF Linked, AllInv
<1>3. /\ pc[c] \in {"head", "link"} /\ UNCHANGED <<size, id, freed, op, joined, owed>>
      /\ pc' = [pc EXCEPT ![c] = "load"] /\ loc' = [loc EXCEPT ![c] = loc[c]]
  BY DEF Linked, Moves, Goes, history
<1>4. pc'[d] = pc[d] /\ loc'[d] = loc[d] /\ pc'[c] = "load"
      /\ \A e \in Threads : e # c => pc'[e] = pc[e]
  BY <1>3 DEF AllInv, TypeInv
<1>5. /\ pc[d] \in {"idle", "search", "lock", "sessions", "members"}
      /\ pc[d] # "idle" => op[d] \in {"check", "READ"} /\ (own # List \/ d \in stale)
  BY <1>1, <1>2, <1>3, LinkerAlone
<1>6. CASE pc[d] = "idle" \/ d \in stale
  <2>1. Same(d)
    BY <1>3, <1>4 DEF Same
  <2> QED BY <1>2, <1>5, <1>6, <2>1, StaleStays, StrayPlace
<1>7. CASE pc[d] # "idle" /\ d \notin stale
  <2>1. own \in Sessions /\ y = c /\ Chains'[List] = Chains[List] /\ Out(c)
    BY <1>1, <1>2, <1>5, <1>7, Apart DEF Grown, Appending
  <2>2. CASE pc[d] = "search"
    <3>1. Searching(d, loc[d])'
      BY <1>2, <1>3, <1>4, <1>5, <1>7, <2>1, <2>2 DEF Place, Searching, Passed
    <3> QED BY <1>4, <2>2, <3>1 DEF Place
  <2>3. CASE pc[d] = "lock"
    BY <1>2, <1>3, <1>4, <2>3 DEF Place
  <2>4. CASE pc[d] \in {"sessions", "members"}
    <3>1. /\ Reading(d, loc[d]) /\ Tracking(d, loc[d])
          /\ loc[d] \in Locals /\ owed[d] \subseteq Threads
      BY <1>2, <1>7, <2>4, Kept DEF Place, Reading
    <3>2. c \notin owed[d] /\ \A e \in owed[d] : ~Out(e)' /\ pc'[e] \notin {"load", "store"}
      <4>1. \A e \in owed[d] : e \in Threads /\ ~Out(e) /\ pc[e] \notin {"load", "store"}
        <5> HIDE DEF Out
        <5> QED BY <3>1 DEF Tracking
      <4>2. \A e \in owed[d] : ~Out(e)'
        <5> HIDE DEF Out
        <5> QED BY <4>1, LinkedHome
      <4> HIDE DEF Out
      <4> QED BY <1>4, <2>1, <4>1, <4>2
    <3>3. CASE pc[d] = "sessions"
      <4>1. Reading(d, loc[d])'
        <5> HIDE DEF Out
        <5> QED BY <1>3, <1>4, <2>1, <3>1, <3>2, <3>3 DEF Reading, Tracking
      <4> QED BY <1>4, <3>3, <4>1 DEF Place
    <3>4. CASE pc[d] = "members"
      <4> DEFINE l == loc[d]
                 q == Chains[l.own]
                 r == Chains'[l.own]
      <4>1. l.n \in Nat /\ l.own \in Owners
        BY <3>1 DEF Locals
      <4>2. \/ l.n < Len(q) /\ l.node = q[l.n + 1]
            \/ /\ l.n <= Len(q) /\ l.node = NULL
               /\ \A k \in (l.n + 1)..Len(q) : q[k] \notin owed[d]
        BY <3>1, <3>4 DEF Tracking
      <4>3. \/ l.n < Len(r) /\ l.node = r[l.n + 1]
            \/ /\ l.n <= Len(r) /\ l.node = NULL
               /\ \A k \in (l.n + 1)..Len(r) : r[k] \notin owed[d]
        <5>1. CASE l.own # own
          <6>1. r = q
            BY <1>2, <4>1, <5>1 DEF Grown
          <6> QED BY <4>2, <6>1
        <5>2. CASE l.own = own
          <6>1. Len(r) = Len(q) + 1 /\ Len(q) \in Nat /\ r[Len(q) + 1] = c
                /\ \A i \in 1..Len(q) : r[i] = q[i]
            BY <1>2, <2>1, <5>2 DEF Grown
          <6>2. CASE l.n < Len(q) /\ l.node = q[l.n + 1]
            <7>1. l.n + 1 \in 1..Len(q) /\ l.n < Len(r)
              BY <4>1, <6>1, <6>2
            <7> QED BY <6>1, <6>2, <7>1
          <6>3. CASE /\ l.n <= Len(q) /\ l.node = NULL
                     /\ \A k \in (l.n + 1)..Len(q) : q[k] \notin owed[d]
            <7>1. l.n <= Len(r)
              BY <4>1, <6>1, <6>3
            <7>2. ASSUME NEW k \in (l.n + 1)..Len(r) PROVE r[k] \notin owed[d]
              <8>1. k = Len(q) + 1 \/ (k \in (l.n + 1)..Len(q) /\ k \in 1..Len(q))
                BY <4>1, <6>1
              <8> QED BY <3>2, <6>1, <6>3, <8>1
            <7> QED BY <6>3, <7>1, <7>2
          <6> QED BY <4>2, <6>2, <6>3
        <5> QED BY <5>1, <5>2
      <4>4. Reading(d, loc[d])'
        <5>1. l.i < Len(Chains[List]) /\ l.own = Chains[List][l.i + 1] /\ op[d] = "READ"
          BY <3>1, <3>4 DEF Reading, Tracking
        <5> HIDE DEF Out
        <5> QED BY <1>3, <1>4, <2>1, <3>1, <3>2, <3>4, <4>3, <5>1 DEF Reading, Tracking
      <4> QED BY <1>4, <3>4, <4>4 DEF Place
    <3> QED BY <2>4, <3>3, <3>4
  <2> QED BY <1>5, <1>7, <2>2, <2>3, <2>4
<1> QED BY <1>6, <1>7

\* The members of the sessions: unchanged, or one client more, or one less.
RosterStep ==
    \/ \A s \in Sessions : Chains'[s] = Chains[s]
    \/ \E s \in Sessions, d \in Threads :
          /\ Out(d) /\ Chains'[s] = Append(Chains[s], d)
          /\ \A t \in Sessions : t # s => Chains'[t] = Chains[t]
    \/ \E s \in Sessions : \E m \in 1..Len(Chains[s]) :
          /\ Chains'[s] = RemoveAt(Chains[s], m)
          /\ \A t \in Sessions : t # s => Chains'[t] = Chains[t]

LEMMA LinkedStep ==
    ASSUME AllInv, Races, Strays, NEW c \in Threads, Linked(c)
    PROVE  AllInv' /\ RosterStep
<1>1. PICK own, y : own = loc[c].own /\ y = loc[c].node
  OBVIOUS
<1>2. Grown(c, own, y) /\ TypeInv /\ Appending(c, loc[c])
  BY <1>1, LinkedMeans DEF AllInv, Linked
<1>3. /\ pc[c] \in {"head", "link"} /\ UNCHANGED <<mutex, joined, op, ops, history>>
      /\ pc' = [pc EXCEPT ![c] = "load"] /\ loc' = [loc EXCEPT ![c] = loc[c]] /\ HeapTypes'
  BY DEF Linked, Moves, Goes
<1>4. Private(c, "load", op[c], loc[c], joined[c], owed[c])
  BY <1>2, <1>3, Kept DEF Private, history
<1>5. TypeInv' /\ Others(c) /\ pc'[c] = "load" /\ op'[c] = op[c] /\ loc'[c] = loc[c]
  BY <1>2, <1>3, <1>4, Kept, PrivateTypes DEF Places
<1>6. ListInv' /\ CountInv' /\ OnlyReadersOverrun' /\ \A d \in Threads : Home(d)'
  BY LinkedLists, LinkedCount, LinkedHome DEF Linked, OnlyReadersOverrun
<1>7. \A d \in Threads : Turn(d)'
  BY <1>3, <1>5, TurnStays DEF AllInv
<1>8. \A d \in Threads : Place(d)'
  <2>1. Place(c)'
    BY <1>5, LinkedCount DEF Place
  <2> QED BY <2>1, LinkedPlace
<1>9. RosterStep
  <2>1. CASE own = List
    <3>1. \A s \in Sessions : Chains'[s] = Chains[s]
      BY <1>2, <2>1, Apart DEF Grown
    <3> QED BY <3>1 DEF RosterStep
  <2>2. CASE own # List
    <3>1. own \in Sessions /\ y = c /\ Out(c)
      BY <1>1, <1>2, <2>2, Apart DEF Grown, Appending
    <3>2. Chains'[own] = Append(Chains[own], c) /\ \A t \in Sessions : t # own => Chains'[t] = Chains[t]
      BY <1>2, <3>1, Apart DEF Grown
    <3> HIDE DEF Out
    <3> QED BY <3>1, <3>2 DEF RosterStep
  <2> QED BY <2>1, <2>2
<1> QED BY <1>5, <1>6, <1>7, <1>8, <1>9 DEF AllInv

LEMMA SetHeadLinks ==
    ASSUME AllInv, NEW c \in Threads, fault = "none", SetHead(c)
    PROVE  Linked(c)
<1> DEFINE l == loc[c]
<1>1. pc[c] = "head" /\ Appending(c, l) /\ Chains[l.own] = <<>> /\ TypeInv /\ ListInv
  BY DEF SetHead, AllInv, Place, Appending
<1>2. l.own # NULL /\ l.own \notin freed
  BY <1>1, OwnerLive
<1>3. /\ first' = [first EXCEPT ![l.own] = l.node] /\ Moves(c, "load", l)
      /\ fault' = fault /\ UNCHANGED <<size, nxt, id, freed>>
  BY <1>2 DEF SetHead, Reads
<1>4. PICK own, y : own = l.own /\ y = l.node
  OBVIOUS
<1>5. own \in Owners /\ y \in Nodes /\ nxt[y] = NULL /\ \A x \in Owners : ~In(y, Chains[x])
  BY <1>1, <1>4, NewNode
<1>6. Chains[own] = <<>> /\ first' = [first EXCEPT ![own] = y] /\ nxt' = nxt
  BY <1>1, <1>3, <1>4
<1>7. /\ Chains' = [Chains EXCEPT ![own] = Append(@, y)]
      /\ \A x \in Owners : Path(Chains'[x], first'[x], nxt')
  BY <1>1, <1>5, <1>6, ChainsAppend
<1>8. HeapTypes'
  BY <1>1, <1>3, <1>5, <1>6, Kept DEF HeapTypes, Cells, Kinds
<1> QED BY <1>1, <1>3, <1>4, <1>7, <1>8 DEF Linked

LEMMA LinkLinks ==
    ASSUME AllInv, NEW c \in Threads, fault = "none", Link(c)
    PROVE  Linked(c)
<1> DEFINE l == loc[c]
<1>1. /\ pc[c] = "link" /\ Appending(c, l) /\ TypeInv /\ ListInv
      /\ Chains[l.own] # <<>> /\ l.at = Chains[l.own][Len(Chains[l.own])]
  BY DEF Link, AllInv, Place, Appending
<1>2. PICK own, y, z : own = l.own /\ y = l.node /\ z = l.at
  OBVIOUS
<1>3. own \in Owners /\ y \in Nodes /\ nxt[y] = NULL /\ \A x \in Owners : ~In(y, Chains[x])
  BY <1>1, <1>2, NewNode
<1>4. In(z, Chains[own])
  <2>1. Chains[own] \in Seq(Nodes) /\ Chains[own] # <<>>
    BY <1>1, <1>2, <1>3, ListFacts
  <2>2. Len(Chains[own]) \in 1..Len(Chains[own])
    BY <2>1, ItemMeans
  <2> QED BY <1>1, <1>2, <2>2 DEF In
<1>5. /\ nxt' = [nxt EXCEPT ![l.at] = l.node] /\ Moves(c, "load", l)
      /\ fault' = fault /\ UNCHANGED <<first, size, id, freed>>
  BY <1>2, <1>3, <1>4, Live DEF Link, Reads
<1>6. Chains[own] # <<>> /\ first' = first /\ nxt' = [nxt EXCEPT ![Chains[own][Len(Chains[own])]] = y]
  BY <1>1, <1>2, <1>5
<1>7. /\ Chains' = [Chains EXCEPT ![own] = Append(@, y)]
      /\ \A x \in Owners : Path(Chains'[x], first'[x], nxt')
      /\ nxt'[NULL] = NULL
  BY <1>1, <1>3, <1>6, ChainsAppend
<1>8. nxt' = [nxt EXCEPT ![z] = y] /\ nxt \in [Cells -> Cells]
  BY <1>1, <1>2, <1>5 DEF TypeInv
<1>9. HeapTypes' /\ \A x \in Cells : nxt'[x] = nxt[x] \/ In(x, Chains[own])
  <2>1. y \in Cells
    BY <1>3 DEF Cells
  <2>2. nxt' \in [Cells -> Cells]
    BY <1>8, <2>1
  <2>3. \A x \in Cells : nxt'[x] = nxt[x] \/ x = z
    BY <1>8
  <2>4. Kinds /\ \A x \in Owners : x = List \/ x \in Sessions
    BY <1>1 DEF TypeInv, Owners
  <2>5. Kinds'
    <3>1. CASE own = List
      <4>1. y \in Sessions /\ z \in Sessions
        BY <1>1, <1>2, <1>4, <3>1, ListFacts, Apart DEF Appending, In
      <4> QED BY <1>8, <2>3, <2>4, <4>1, Apart, SharedAssumption DEF Kinds, Cells
    <3>2. CASE own \in Sessions
      <4>1. y \in Threads /\ z \in Threads
        BY <1>1, <1>2, <1>4, <3>2, ListFacts, Apart DEF Appending, In
      <4> QED BY <1>8, <2>3, <2>4, <4>1, Apart, SharedAssumption DEF Kinds, Cells
    <3> QED BY <1>3, <2>4, <3>1, <3>2
  <2> QED BY <1>1, <1>4, <1>5, <1>7, <2>2, <2>3, <2>5, Kept DEF HeapTypes
<1> QED BY <1>1, <1>2, <1>5, <1>7, <1>9 DEF Linked

-----------------------------------------------------------------------------
(***************************************************************************)
(* CreateSess begins; the counter is stored; a pointer is cut.             *)
(***************************************************************************)
\* What others may be doing while the counters change.
LEMMA LightStays ==
    ASSUME Chains' = Chains, id' = id, NEW d \in Threads, Place(d), Same(d),
           pc[d] \in {"idle", "search", "lock", "sessions", "members"},
           pc[d] # "idle" => op[d] \in {"check", "READ"},
           \A e \in Threads : pc'[e] \in {"load", "store"} => pc[e] \in {"load", "store"},
           owed[d] \subseteq Threads, d \in stale => d \in stale'
    PROVE  Place(d)'
<1>1. pc[d] = "search" => Searching(d, loc[d])'
  BY DEF Place, Same, Searching, Passed
<1>2. pc[d] \in {"sessions", "members"} => Reading(d, loc[d])'
  <2>1. \A e : Out(e)' <=> Out(e)
    BY DEF Out
  <2> HIDE DEF Out
  <2> QED BY <2>1 DEF Place, Same, Reading, Tracking
<1> HIDE DEF Searching, Reading
<1> QED BY <1>1, <1>2 DEF Place, Same

LEMMA BeginNewStep ==
    ASSUME AllInv, Races, Strays, Races', NEW c \in Threads, fault = "none", BeginNew(c)
    PROVE  AllInv' /\ Chains' = Chains
<1> DEFINE unused == {s \in Sessions : id[s] = NULL}
           L == Chains[List]
<1>1. PICK cell : cell = CHOOSE s \in unused : TRUE
  OBVIOUS
<1>2. /\ pc[c] = "idle" /\ joined[c] = <<>> /\ Begins(c) /\ c \notin freed
      /\ TypeInv /\ ListInv /\ unused # {}
      /\ UNCHANGED <<first, size, nxt, freed, mutex, fault, joined, history>>
  BY DEF BeginNew, Begins, AllInv
<1>3. cell \in Sessions /\ id[cell] = NULL
  BY <1>1, <1>2
<1>4. PICK s \in Ids : /\ id' = [id EXCEPT ![cell] = s]
                       /\ loc' = [loc EXCEPT ![c] =
                             [loc[c] EXCEPT !.name = s, !.own = List, !.node = cell]]
  BY <1>1 DEF BeginNew
<1> DEFINE m == [loc[c] EXCEPT !.name = s, !.own = List, !.node = cell]
<1>5. m \in Locals /\ m.name = s /\ m.own = List /\ m.node = cell
  <2>1. loc[c] \in Locals /\ cell \in Cells /\ List \in Owners
    BY <1>2, <1>3, Apart, Kept DEF Cells
  <2> QED BY <2>1 DEF Locals
<1>6. loc' = [loc EXCEPT ![c] = m]
  BY <1>4
<1> HIDE DEF m
<1>7. Chains' = Chains
  BY <1>2, ChainsStay
<1>8. HeapTypes' /\ id' \in [Sessions -> Ids \cup {NULL}]
  <2>1. id' \in [Sessions -> Ids \cup {NULL}]
    BY <1>2, <1>4 DEF TypeInv
  <2> QED BY <1>2, <2>1, Kept DEF HeapTypes, Kinds
<1>9. ops' \in Nat /\ pc' = [pc EXCEPT ![c] = "append"]
      /\ op' = [op EXCEPT ![c] = "NEW_SESS"]
  BY <1>2, Kept DEF BeginNew, Begins, Goes
<1>10. Private(c, "append", "NEW_SESS", m, joined[c], owed[c])
  BY <1>2, <1>6, <1>9, Kept DEF Private, history
<1>11. "append" \in Places /\ "NEW_SESS" \in Ops /\ joined[c] \in Seq(Ids)
       /\ owed[c] \in SUBSET Threads
  BY <1>2, Kept DEF Places, Ops
<1>12. /\ TypeInv' /\ Others(c) /\ pc'[c] = "append" /\ op'[c] = "NEW_SESS" /\ loc'[c] = m
       /\ joined'[c] = joined[c]
  BY <1>2, <1>5, <1>8, <1>10, <1>11, PrivateTypes
<1>13. ASSUME NEW d \in Threads
       PROVE  /\ pc[d] \in {"idle", "search", "lock", "sessions", "members"}
              /\ pc[d] # "idle" => d # c /\ d \in stale' /\ op[d] \in {"check", "READ"}
  <2>1. CASE pc[d] = "idle"
    BY <2>1
  <2>2. CASE pc[d] # "idle"
    <3>1. d # c /\ Same(d)
      BY <1>2, <1>12, <2>2 DEF Others
    <3>2. Unlocked(c)'
      BY <1>12 DEF Unlocked
    <3>3. op[d] \notin {"NEW_SESS", "LEAVE", "destroy", "JOIN"}
      BY <2>2, <3>1, <3>2 DEF Races, Unlocked, Locked, Same
    <3>4. op[d] \in {"none", "check", "READ"}
      BY <1>2, <3>3, Kept DEF Ops
    <3>5. op[d] \in {"check", "READ"}
      BY <2>2, <3>4, LookerPlace
    <3>6. d \in stale'
      BY <2>2, <3>1, <3>2, <3>5 DEF Races, Looking, Same
    <3> QED BY <2>2, <3>1, <3>4, <3>6, LookerPlace
  <2> QED BY <2>1, <2>2
<1>14. ~In(cell, L) /\ Chains[cell] = <<>> /\ cell \notin freed /\ nxt[cell] = NULL
  BY <1>2, <1>3 DEF ListInv
<1>15. /\ id'[cell] = s /\ s # NULL /\ \A t \in Sessions : t # cell => id'[t] = id[t]
  BY <1>2, <1>3, <1>4, Apart DEF TypeInv
<1>16. ListInv'
  <2>1. \A i \in 1..Len(L) : L[i] # cell /\ L[i] \in Sessions
    BY <1>2, <1>14, ListFacts DEF In
  <2>2. \A t \in Sessions :
           /\ In(t, L) => t \notin freed' /\ id'[t] # NULL
           /\ id'[t] = NULL => t \notin freed' /\ nxt'[t] = NULL
    BY <1>2, <1>14, <1>15 DEF ListInv
  <2>3. \A i, j \in 1..Len(L) : i < j /\ Chains[L[j]] # <<>> => id'[L[i]] # id'[L[j]]
    <3>1. \A i, j \in 1..Len(L) : i < j /\ Chains[L[j]] # <<>> => id[L[i]] # id[L[j]]
      BY <1>2 DEF ListInv
    <3> QED BY <1>15, <2>1, <3>1
  <2> HIDE DEF L
  <2> QED BY <1>2, <1>7, <2>2, <2>3 DEF ListInv, L
<1>17. CountInv'
  <2>1. \A x : ~Changing(x)
    BY <1>13 DEF Changing
  <2>2. \A x \in Owners \ freed : size[x] = Len(Chains[x])
    BY <2>1 DEF AllInv, CountInv
  <2> QED BY <1>2, <1>7, <2>2 DEF CountInv
<1>18. ASSUME NEW d \in Threads PROVE Home(d)'
  <2>1. /\ Home(d) /\ ~Leaving(d) /\ ~Entering(d) /\ pc[d] # "cut"
        /\ pc[d] = "idle" \/ op[d] # "destroy"
    BY <1>13 DEF AllInv, Leaving, Entering
  <2>2. Out(d)' <=> Out(d)
    BY <1>7 DEF Out
  <2>3. \A t \in Sessions : In(d, Chains[t]) => id'[t] = id[t]
    BY <1>14, <1>15 DEF In
  <2>4. d = c => Out(d)
    <3>1. d = c => joined[d] = <<>>
      BY <1>2
    <3> QED BY <2>1, <3>1, Absent
  <2>5. joined' = joined /\ nxt' = nxt /\ freed' = freed
    BY <1>2
  <2>6. d # c => Same(d)
    BY <1>12 DEF Others
  <2> HIDE DEF Out, Leaving, Entering
  <2>7. CASE d = c
    <3> HIDE DEF Out, Leaving, Entering
    <3> QED BY <1>2, <1>7, <1>12, <2>1, <2>2, <2>3, <2>4, <2>5, <2>7 DEF Home
  <2>8. CASE d # c
    <3>1. (Leaving(d)' <=> Leaving(d)) /\ (Entering(d)' <=> Entering(d))
      BY <2>6, <2>8 DEF Same, Leaving, Entering
    <3> HIDE DEF Out, Leaving, Entering
    <3> QED BY <1>7, <2>1, <2>2, <2>3, <2>5, <2>6, <2>8, <3>1 DEF Home, Same
  <2> QED BY <2>7, <2>8
<1>19. Place(c)'
  <2>1. Appending(c, loc[c])'
    <3>1. loc'[c].own = List /\ loc'[c].node = cell /\ loc'[c].name = s
      BY <1>5, <1>12
    <3>2. joined'[c] = <<>> /\ op'[c] = "NEW_SESS" /\ pc'[c] = "append"
      BY <1>2, <1>12
    <3>3. cell \in Sessions \ freed' /\ ~In(cell, Chains'[List]) /\ nxt'[cell] = NULL
      BY <1>2, <1>3, <1>7, <1>14
    <3> QED BY <1>15, <3>1, <3>2, <3>3 DEF Appending
  <2> QED BY <1>12, <2>1 DEF Place
<1>20. ASSUME NEW d \in Threads PROVE Place(d)'
  <2>1. CASE d = c
    BY <1>19, <2>1
  <2>2. CASE d # c
    <3>1. Place(d) /\ Same(d)
      BY <1>12, <2>2 DEF AllInv, Others
    <3> QED BY <1>13, <3>1, StrayPlace
  <2> QED BY <2>1, <2>2
<1>21. \A d \in Threads : Turn(d)'
  BY <1>2, <1>12, BeginTurn
<1>22. OnlyReadersOverrun'
  BY <1>2 DEF OnlyReadersOverrun
<1> QED BY <1>7, <1>12, <1>16, <1>17, <1>18, <1>20, <1>21, <1>22 DEF AllInv

LEMMA StoreStep ==
    ASSUME AllInv, Races, Strays, NEW c \in Threads, fault = "none", Store(c)
    PROVE  AllInv' /\ Chains' = Chains
<1> DEFINE change == IF op[c] \in {"LEAVE", "destroy"} THEN -1 ELSE 1
           again == op[c] = "NEW_SESS" /\ loc[c].own = List
<1>1. pc[c] = "store" /\ Counting(c, loc[c]) /\ loc[c] \in Locals /\ TypeInv /\ ListInv
  BY DEF Store, AllInv, TypeInv, Place
<1>2. PICK own, y : own = loc[c].own /\ y = loc[c].node
  OBVIOUS
<1>3. own \in Owners /\ own # NULL /\ own \notin freed /\ Len(Chains[own]) \in Nat
  BY <1>1, <1>2, OwnerLive, ListFacts
<1>4. /\ size' = [size EXCEPT ![own] = loc[c].n + change]
      /\ freed' = IF op[c] = "destroy" THEN freed \cup {y} ELSE freed
      /\ IF again THEN Searches(c, "NEW_SESS", loc[c])
                  ELSE Returns(c) /\ UNCHANGED <<op, loc>>
      /\ UNCHANGED <<mutex, joined, ops, history>>
      /\ fault' = fault /\ UNCHANGED <<first, nxt, id>>
  BY <1>2, <1>3 DEF Store, Reads
<1>5. loc[c].n + change = Len(Chains[own])
  BY <1>1, <1>2, <1>3 DEF Counting
<1>6. size' = [size EXCEPT ![own] = Len(Chains[own])] /\ size' \in [Owners -> Nat]
  BY <1>1, <1>3, <1>4, <1>5 DEF TypeInv
<1>7. /\ op[c] \in {"JOIN", "NEW_SESS", "LEAVE", "destroy"} /\ op[c] \in Ops
      /\ op[c] = "destroy" =>
            /\ joined[c] = <<>> /\ own = List /\ y \in Sessions \ freed
            /\ ~In(y, Chains[List]) /\ id[y] # NULL
      /\ op[c] # "destroy" => freed' = freed
      /\ again => joined[c] = <<>> /\ loc[c].name \in Ids
  BY <1>1, <1>2, <1>4, Apart DEF Counting, Ops
<1>8. freed' \subseteq Nodes /\ \A d \in Threads : d \in freed' <=> d \in freed
  BY <1>1, <1>4, <1>7, Apart DEF TypeInv
<1>9. Chains' = Chains
  BY <1>4, ChainsStay
\* Where the thread goes.
<1>10. \E to \in Places, m \in Locals :
          /\ Private(c, to, op[c], m, joined[c], owed[c])
          /\ to \in {"search", "unlock", "idle"} /\ (to = "idle" => op[c] # "JOIN")
          /\ to = "unlock" => op[c] = "JOIN"
          /\ to = "search" =>
                /\ again /\ m.name = loc[c].name /\ m.own = List
                /\ m.i <= Len(Chains[List]) /\ m.at = Item(Chains[List], m.i + 1)
                /\ Passed(m.name, m.i)
  <2>1. CASE again
    <3>1. Searches(c, "NEW_SESS", loc[c]) /\ "NEW_SESS" \in Ops
      BY <1>4, <2>1 DEF Ops
    <3>2. PICK m \in Locals :
             /\ pc' = [pc EXCEPT ![c] = "search"] /\ op' = [op EXCEPT ![c] = "NEW_SESS"]
             /\ loc' = [loc EXCEPT ![c] = m]
             /\ m.name = loc[c].name /\ m.own = loc[c].own /\ m.node = loc[c].node
             /\ m.i = 0 /\ m.at = Item(Chains[List], m.i + 1) /\ m.i <= Len(Chains[List])
             /\ Passed(m.name, m.i)
      <4>1. TypeInv /\ ListInv /\ loc[c] \in Locals
        BY <1>1
      <4> QED BY <3>1, <4>1, SearchesMeans
    <3>3. Private(c, "search", op[c], m, joined[c], owed[c])
      BY <1>1, <1>4, <2>1, <3>2, Kept DEF Private, history
    <3> QED BY <2>1, <3>2, <3>3 DEF Places
  <2>2. CASE ~again
    <3> DEFINE to == IF op[c] = "JOIN" THEN "unlock" ELSE "idle"
    <3>1. pc' = [pc EXCEPT ![c] = to] /\ UNCHANGED <<op, loc>>
      BY <1>4, <2>2 DEF Returns, Goes
    <3>2. Private(c, to, op[c], loc[c], joined[c], owed[c])
      BY <1>1, <1>4, <3>1, Kept DEF Private, history
    <3>3. /\ to \in Places /\ to \in {"unlock", "idle"} /\ (to = "idle" => op[c] # "JOIN")
          /\ to = "unlock" => op[c] = "JOIN"
      BY DEF Places
    <3> HIDE DEF to
    <3> QED BY <1>1, <3>2, <3>3
  <2> QED BY <2>1, <2>2
<1>11. PICK to \in Places, m \in Locals :
          /\ Private(c, to, op[c], m, joined[c], owed[c])
          /\ to \in {"search", "unlock", "idle"} /\ (to = "idle" => op[c] # "JOIN")
          /\ to = "unlock" => op[c] = "JOIN"
          /\ to = "search" =>
                /\ again /\ m.name = loc[c].name /\ m.own = List
                /\ m.i <= Len(Chains[List]) /\ m.at = Item(Chains[List], m.i + 1)
                /\ Passed(m.name, m.i)
  BY <1>10
<1>12. HeapTypes'
  BY <1>1, <1>4, <1>6, <1>8, Kept DEF HeapTypes, Kinds
<1>13. /\ TypeInv' /\ Others(c) /\ pc'[c] = to /\ op'[c] = op[c] /\ loc'[c] = m
       /\ joined'[c] = joined[c]
  BY <1>1, <1>7, <1>11, <1>12, Kept, PrivateTypes
<1>14. ListInv'
  <2>1. \A s \in Sessions :
           /\ In(s, Chains[List]) => s \notin freed'
           /\ id[s] = NULL => s \notin freed'
    BY <1>1, <1>4, <1>7 DEF ListInv
  <2> QED BY <1>1, <1>4, <1>9, <2>1 DEF ListInv
<1>15. CountInv'
  <2>1. ASSUME NEW x \in Owners \ freed' PROVE Changing(x)' \/ size'[x] = Len(Chains[x])
    <3>1. CASE x = own
      BY <1>1, <1>3, <1>6, <3>1 DEF TypeInv
    <3>2. CASE x # own /\ x = y
      <4>1. op[c] = "NEW_SESS" /\ size[y] = Len(Chains[y])
        <5>1. x \in Sessions \/ x = List
          BY <2>1 DEF Owners
        <5>2. y # c
          BY <2>1, <3>2, <5>1, Apart
        <5> QED BY <1>1, <1>2, <1>3, <1>4, <2>1, <3>2, <5>2, Apart DEF Counting
      <4> QED BY <1>1, <1>3, <1>6, <2>1, <3>2, <4>1 DEF TypeInv
    <3>3. CASE x # own /\ x # y
      <4>1. Changing(x) => Changing(x)'
        BY <1>2, <1>13, <3>3 DEF Changing, Others, Same
      <4>2. x \in Owners \ freed
        BY <1>4, <1>7, <2>1
      <4>3. Changing(x) \/ size[x] = Len(Chains[x])
        BY <4>2 DEF AllInv, CountInv
      <4> HIDE DEF Changing
      <4> QED BY <1>1, <1>3, <1>6, <3>3, <4>1, <4>2, <4>3 DEF TypeInv
    <3> QED BY <3>1, <3>2, <3>3
  <2> QED BY <1>9, <2>1 DEF CountInv
<1>16. ASSUME NEW d \in Threads PROVE Home(d)'
  <2>1. Home(d) /\ (Out(d)' <=> Out(d))
    BY <1>9 DEF AllInv, Out
  <2>2. joined' = joined /\ nxt' = nxt /\ id' = id
    BY <1>4
  <2>3. CASE d = c
    <3>1. ~Leaving(c) /\ ~Entering(c)
      BY <1>1 DEF Leaving, Entering
    <3> HIDE DEF Out, Leaving, Entering
    <3> QED BY <1>1, <1>8, <1>9, <1>13, <2>1, <2>2, <2>3, <3>1 DEF Home
  <2>4. CASE d # c
    <3>1. Same(d) /\ (Leaving(d)' <=> Leaving(d)) /\ (Entering(d)' <=> Entering(d))
      BY <1>13, <2>4 DEF Others, Same, Leaving, Entering
    <3> HIDE DEF Out, Leaving, Entering
    <3> QED BY <1>8, <1>9, <2>1, <2>2, <3>1 DEF Home, Same
  <2> QED BY <2>3, <2>4
<1>17. ASSUME NEW d \in Threads PROVE Place(d)'
  <2>1. CASE d = c
    <3>1. to = "search" => Searching(c, loc[c])'
      BY <1>4, <1>7, <1>9, <1>11, <1>13 DEF Searching, Passed
    <3> QED BY <1>11, <1>13, <2>1, <3>1 DEF Place
  <2>2. CASE d # c
    <3>1. /\ pc[d] \in {"idle", "search", "lock", "sessions", "members"}
          /\ pc[d] # "idle" => op[d] \in {"check", "READ"}
      BY <1>1, <1>7, <2>2, Alone
    <3>2. Place(d) /\ Same(d) /\ owed[d] \subseteq Threads
      BY <1>1, <1>13, <2>2, Kept DEF AllInv, Others
    <3>3. \A e \in Threads : pc'[e] \in {"load", "store"} => pc[e] \in {"load", "store"}
      BY <1>11, <1>13 DEF Others, Same
    <3> QED BY <1>4, <1>9, <3>1, <3>2, <3>3, StaleStays, LightStays
  <2> QED BY <2>1, <2>2
<1>18. \A d \in Threads : Turn(d)'
  BY <1>1, <1>4, <1>11, <1>13, TurnStays DEF AllInv
<1>19. OnlyReadersOverrun'
  BY <1>4 DEF OnlyReadersOverrun
<1> QED BY <1>9, <1>13, <1>14, <1>15, <1>16, <1>17, <1>18, <1>19 DEF AllInv

LEMMA CutStep ==
    ASSUME AllInv, Races, Strays, NEW c \in Threads, fault = "none", Cut(c)
    PROVE  AllInv' /\ Chains' = Chains
<1>1. pc[c] = "cut" /\ Counting(c, loc[c]) /\ loc[c] \in Locals /\ TypeInv /\ ListInv /\ Home(c)
  BY DEF Cut, AllInv, TypeInv, Place
<1>2. PICK y : y = loc[c].node
  OBVIOUS
<1>3. /\ joined[c] = <<>> /\ ~Leaving(c) /\ ~Entering(c) /\ op[c] \in {"LEAVE", "destroy"}
      /\ op[c] = "LEAVE" => y = c
      /\ op[c] = "destroy" => y \in Sessions \ freed /\ ~In(y, Chains[List])
  BY <1>1, <1>2 DEF Counting, Leaving, Entering
<1>4. Out(c)
  BY <1>3, Absent
<1>5. y \in Nodes /\ y # NULL /\ y \notin freed /\ y \in Cells /\ (y \in Threads => y = c)
  <2>1. op[c] = "LEAVE" => c \notin freed
    BY <1>1 DEF Home
  <2> QED BY <1>3, <2>1, Apart DEF Cells
<1>6. \A x \in Owners : ~In(y, Chains[x])
  <2>1. \A x \in Owners : x = List \/ x \in Sessions
    BY DEF Owners
  <2>2. CASE op[c] = "LEAVE"
    <3>1. ~In(c, Chains[List])
      BY <1>1, ListFacts, Apart DEF In
    <3> QED BY <1>3, <1>4, <2>1, <2>2, <3>1 DEF Out
  <2>3. CASE op[c] = "destroy"
    <3>1. \A s \in Sessions : ~In(y, Chains[s])
      BY <1>1, <1>3, <2>3, ListFacts, Apart DEF In
    <3> QED BY <1>3, <2>1, <2>3, <3>1
  <2> QED BY <1>3, <2>2, <2>3
<1>7. /\ nxt' = [nxt EXCEPT ![y] = NULL] /\ Moves(c, "load", loc[c])
      /\ fault' = fault /\ UNCHANGED <<first, size, id, freed>>
  BY <1>2, <1>5 DEF Cut, Reads
<1>8. nxt' \in [Cells -> Cells] /\ nxt'[NULL] = NULL /\ \A z \in Cells : nxt'[z] = IF z = y THEN NULL ELSE nxt[z]
  BY <1>1, <1>5, <1>7 DEF TypeInv, Cells
<1>9. \A x \in Owners : Path(Chains[x], first'[x], nxt')
  <2>1. ASSUME NEW x \in Owners PROVE Path(Chains[x], first'[x], nxt')
    <3>1. Path(Chains[x], first[x], nxt)
      BY <1>1 DEF ListInv
    <3>2. \A z : In(z, Chains[x]) => nxt'[z] = nxt[z]
      BY <1>6, <1>8, Live
    <3> QED BY <1>7, <3>1, <3>2, PathStays
  <2> QED BY <2>1
<1>10. Chains' = Chains
  <2>1. Chains = [x \in Owners |-> Chains[x]]
    BY <1>1, ListFacts
  <2> QED BY <1>8, <1>9, <2>1, ChainsBecome
<1>11. UNCHANGED <<mutex, joined, op, ops, history>>
       /\ pc' = [pc EXCEPT ![c] = "load"] /\ loc' = [loc EXCEPT ![c] = loc[c]]
  BY <1>7 DEF Moves, Goes
<1>12. Private(c, "load", op[c], loc[c], joined[c], owed[c]) /\ HeapTypes'
  BY <1>1, <1>7, <1>8, <1>11, Kept DEF Private, history, HeapTypes, Kinds
<1>13. /\ TypeInv' /\ Others(c) /\ pc'[c] = "load" /\ op'[c] = op[c] /\ loc'[c] = loc[c]
       /\ joined'[c] = joined[c]
  BY <1>1, <1>12, Kept, PrivateTypes DEF Places
<1>14. \A d \in Threads \ {c} :
          /\ pc[d] \in {"idle", "search", "lock", "sessions", "members"}
          /\ pc[d] # "idle" => d \in stale /\ op[d] \in {"check", "READ"}
  BY <1>1, <1>3, Alone
<1>15. ListInv'
  <2>1. \A s \in Sessions : nxt[s] = NULL => nxt'[s] = NULL
    BY <1>8, Apart DEF Cells
  <2> QED BY <1>1, <1>7, <1>9, <1>10, <2>1 DEF ListInv
<1>16. CountInv'
  <2>1. \A x : Changing(x) => Changing(x)'
    BY <1>1, <1>13 DEF Changing, Others, Same
  <2> HIDE DEF Changing
  <2> QED BY <1>7, <1>10, <2>1 DEF AllInv, CountInv
<1>17. ASSUME NEW d \in Threads PROVE Home(d)'
  <2>1. Home(d) /\ (Out(d)' <=> Out(d)) /\ d \in Cells
    BY <1>10, Apart DEF AllInv, Out, Cells
  <2>2. joined' = joined /\ id' = id /\ freed' = freed
    BY <1>7, <1>11
  <2>3. CASE d = c
    <3>1. Out(c) => nxt'[c] = NULL
      <4>1. nxt[c] = NULL \/ y = c
        BY <1>1, <1>2, <1>4 DEF Home
      <4> QED BY <1>8, <2>1, <2>3, <4>1
    <3> HIDE DEF Out, Leaving, Entering
    <3> QED BY <1>1, <1>3, <1>4, <1>10, <1>13, <2>1, <2>2, <2>3, <3>1 DEF Home, Out
  <2>4. CASE d # c
    <3>1. Same(d) /\ (Leaving(d)' <=> Leaving(d)) /\ (Entering(d)' <=> Entering(d))
      BY <1>13, <2>4 DEF Others, Same, Leaving, Entering
    <3>2. nxt'[d] = nxt[d]
      BY <1>5, <1>8, <2>1, <2>4
    <3> HIDE DEF Out, Leaving, Entering
    <3> QED BY <1>10, <2>1, <2>2, <3>1, <3>2 DEF Home, Same
  <2> QED BY <2>3, <2>4
<1>18. Place(c)'
  <2>1. Counting(c, loc[c])'
    BY <1>1, <1>3, <1>7, <1>10, <1>13 DEF Counting
  <2> QED BY <1>13, <2>1 DEF Place
<1>19. \A d \in Threads : Place(d)'
  <2>1. ASSUME NEW d \in Threads \ {c} PROVE Place(d)'
    <3>1. Place(d) /\ Same(d)
      BY <1>13 DEF AllInv, Others
    <3> QED BY <1>14, <3>1, StaleStays, StrayPlace
  <2> QED BY <1>18, <2>1
<1>20. \A d \in Threads : Turn(d)'
  BY <1>1, <1>11, <1>13, TurnStays DEF AllInv
<1>21. OnlyReadersOverrun'
  BY <1>7 DEF OnlyReadersOverrun
<1> QED BY <1>10, <1>13, <1>15, <1>16, <1>17, <1>19, <1>20, <1>21 DEF AllInv

-----------------------------------------------------------------------------
(***************************************************************************)
(* A node leaves its list.                                                 *)
(***************************************************************************)
\* The lists after the m-th node of own's has been taken out.
Shrunk(own, m) ==
    /\ own \in Owners /\ m \in 1..Len(Chains[own]) /\ Len(Chains[own]) \in Nat
    /\ \A x \in Owners : x # own => Chains'[x] = Chains[x]
    /\ Chains'[own] = RemoveAt(Chains[own], m) /\ Chains'[own] \in Seq(Nodes)
    /\ Len(Chains'[own]) = Len(Chains[own]) - 1 /\ Len(Chains'[own]) \in Nat
    /\ \A i \in 1..Len(Chains'[own]) :
          Chains'[own][i] = IF i < m THEN Chains[own][i] ELSE Chains[own][i + 1]
    /\ \A x \in Owners : \A z :
          In(z, Chains'[x]) <=> In(z, Chains[x]) /\ ~(x = own /\ z = Chains[own][m])

\* c, beside whom nobody changes the lists, has taken it out: itself from its
\* session's clients, or from the sessions one without clients.
Removed(c, own, m, to, l) ==
    /\ pc[c] \in {"behead", "unlink", "destroy", "drop"} /\ op[c] \in {"LEAVE", "destroy"}
    /\ joined[c] = <<>>
    /\ Shrunk(own, m) /\ \A x \in Owners : Path(Chains'[x], first'[x], nxt')
    /\ \A y \in Cells : nxt'[y] = nxt[y] \/ In(y, Chains[own])
    /\ own # List => Chains[own][m] = c
    /\ own = List => Chains[Chains[List][m]] = <<>> /\ Out(c)
    /\ \/ freed' = freed
       \/ op[c] = "destroy" /\ freed' = freed \cup {c}
    /\ nxt'[c] = NULL \/ (to = "cut" /\ l.node = c)
    /\ UNCHANGED <<size, id>> /\ fault' = "none" /\ HeapTypes'
    /\ Moves(c, to, l) /\ to \in {"cut", "drop"} /\ l \in Locals
    /\ (to = "cut" /\ l.own = own) \/ l.node = own
    /\ pc[c] = "drop" => l.node = loc[c].node

LEMMA ShrunkMeans ==
    ASSUME TypeInv, ListInv, NEW own \in Owners, NEW m \in 1..Len(Chains[own]),
           Chains' = [Chains EXCEPT ![own] = RemoveAt(@, m)]
    PROVE  Shrunk(own, m)
<1>1. Chains = [x \in Owners |-> Chains[x]] /\ Chains[own] \in Seq(Nodes)
  BY ListFacts
<1>2. Chains' = [Chains EXCEPT ![own] = RemoveAt(Chains[own], m)]
  OBVIOUS
<1>3. /\ Chains'[own] = RemoveAt(Chains[own], m)
      /\ \A x \in Owners : x # own => Chains'[x] = Chains[x]
  BY <1>1, <1>2
<1>4. \A i, j \in 1..Len(Chains[own]) : Chains[own][i] = Chains[own][j] => i = j
  BY DEF ListInv, Path
<1>5. /\ Chains'[own] \in Seq(Nodes) /\ Len(Chains'[own]) = Len(Chains[own]) - 1
      /\ Len(Chains[own]) \in Nat /\ Len(Chains'[own]) \in Nat
      /\ \A i \in 1..Len(Chains'[own]) :
            Chains'[own][i] = IF i < m THEN Chains[own][i] ELSE Chains[own][i + 1]
      /\ \A z : In(z, Chains'[own]) <=> In(z, Chains[own]) /\ z # Chains[own][m]
  BY SMTT(30), <1>1, <1>3, <1>4, RemoveMeans
<1> QED BY <1>3, <1>5 DEF Shrunk

LEMMA RemovedLists ==
    ASSUME AllInv, NEW c \in Threads, NEW own, NEW m, NEW to, NEW l, Removed(c, own, m, to, l)
    PROVE  ListInv'
<1> DEFINE L == Chains[List]
           M == Chains'[List]
<1>1. /\ own \in Owners /\ m \in 1..Len(Chains[own]) /\ Len(Chains[own]) \in Nat
      /\ \A x \in Owners : x # own => Chains'[x] = Chains[x]
      /\ \A x \in Owners : \A z :
            In(z, Chains'[x]) <=> In(z, Chains[x]) /\ ~(x = own /\ z = Chains[own][m])
  BY DEF Removed, Shrunk
<1>2. /\ Chains'[own] \in Seq(Nodes)
      /\ Len(Chains'[own]) = Len(Chains[own]) - 1 /\ Len(Chains'[own]) \in Nat
      /\ \A i \in 1..Len(Chains'[own]) :
            Chains'[own][i] = IF i < m THEN Chains[own][i] ELSE Chains[own][i + 1]
  BY DEF Removed, Shrunk
<1>3. TypeInv /\ ListInv /\ L \in Seq(Sessions) /\ \A s \in Sessions : Chains[s] \in Seq(Threads)
  BY DEF AllInv, ListInv
<1>4. /\ id' = id /\ (freed' = freed \/ freed' = freed \cup {c})
      /\ own = List => Chains[Chains[List][m]] = <<>>
      /\ \A x \in Owners : Path(Chains'[x], first'[x], nxt')
      /\ \A y \in Cells : nxt'[y] = nxt[y] \/ In(y, Chains[own])
  BY DEF Removed
<1>5. ASSUME NEW S, Chains[own] \in Seq(S) PROVE Chains'[own] \in Seq(S)
  <2>1. \A i \in 1..Len(Chains'[own]) : Chains'[own][i] \in S
    <3>1. \A i \in 1..Len(Chains[own]) : Chains[own][i] \in S
      BY <1>5
    <3>2. \A i \in 1..Len(Chains'[own]) :
             (i < m => i \in 1..Len(Chains[own])) /\ i + 1 \in 1..Len(Chains[own])
      BY <1>1, <1>2
    <3> QED BY <1>2, <3>1, <3>2
  <2> QED BY <1>2, <2>1
<1>6. M \in Seq(Sessions) /\ \A s \in Sessions : Chains'[s] \in Seq(Threads)
  BY <1>1, <1>3, <1>5, Apart
<1>7. ASSUME NEW s \in Sessions, NEW t \in Sessions, NEW d \in Threads,
             In(d, Chains'[s]), In(d, Chains'[t])
      PROVE  s = t
  <2>1. In(d, Chains[s]) /\ In(d, Chains[t])
    BY <1>1, <1>7, Apart
  <2> QED BY <1>3, <2>1 DEF ListInv
<1>8. \A x \in Owners : Chains'[x] # <<>> => Chains[x] # <<>>
  <2>1. Chains[own] # <<>>
    BY <1>1
  <2> QED BY <1>1, <2>1
<1>9. ASSUME NEW s \in Sessions
      PROVE  /\ In(s, M) => s \notin freed' /\ id'[s] # NULL
             /\ ~In(s, M) => Chains'[s] = <<>>
             /\ id'[s] = NULL => s \notin freed' /\ nxt'[s] = NULL
  <2>1. /\ In(s, L) => s \notin freed /\ id[s] # NULL
        /\ ~In(s, L) => Chains[s] = <<>>
        /\ id[s] = NULL => s \notin freed /\ nxt[s] = NULL
    BY <1>3 DEF ListInv
  <2>2. s \in Owners /\ s # List /\ s \in Cells /\ List \in Owners /\ s # c
    BY Apart DEF Cells
  <2>3. In(s, M) <=> In(s, L) /\ ~(own = List /\ s = L[m])
    BY <1>1, <2>2
  <2>4. s \in freed' <=> s \in freed
    BY <1>4, <2>2
  <2>5. ~In(s, M) => Chains'[s] = <<>>
    BY <1>4, <1>8, <2>1, <2>2, <2>3
  <2>6. In(s, Chains[own]) => id[s] # NULL
    <3>1. In(s, Chains[own]) => own = List
      BY <1>1, <1>3, ListFacts, Apart DEF In, Owners
    <3> QED BY <2>1, <3>1
  <2> QED BY <1>4, <2>1, <2>2, <2>3, <2>4, <2>5, <2>6
<1>10. ASSUME NEW i \in 1..Len(M), NEW j \in 1..Len(M), i < j, Chains'[M[j]] # <<>>
       PROVE  id'[M[i]] # id'[M[j]]
  <2>1. PICK a, b \in 1..Len(L) : a < b /\ M[i] = L[a] /\ M[j] = L[b]
    <3>1. CASE own = List
      <4>1. i \in Nat /\ j \in Nat /\ m \in Nat /\ i >= 1 /\ j <= Len(L) - 1
        BY <1>1, <1>2, <3>1
      <4> DEFINE At(k) == IF k < m THEN k ELSE k + 1
      <4>2. At(i) \in 1..Len(L) /\ At(j) \in 1..Len(L) /\ At(i) < At(j)
        BY <1>1, <1>10, <3>1, <4>1
      <4>3. M[i] = L[At(i)] /\ M[j] = L[At(j)]
        BY <1>2, <3>1
      <4> QED BY <4>2, <4>3
    <3>2. CASE own # List
      BY <1>1, <1>10, <3>2, Apart
    <3> QED BY <3>1, <3>2
  <2>2. Chains[L[b]] # <<>>
    <3>1. L[b] \in Owners
      BY <1>3, <2>1, Apart
    <3> QED BY <1>8, <1>10, <2>1, <3>1
  <2>3. id[L[a]] # id[L[b]]
    BY <1>3, <2>1, <2>2 DEF ListInv
  <2> QED BY <1>4, <2>1, <2>3
<1> HIDE DEF M, L
<1> QED BY <1>4, <1>6, <1>7, <1>9, <1>10 DEF ListInv, M

LEMMA RemovedHome ==
    ASSUME AllInv, NEW c \in Threads, NEW own, NEW m, NEW to, NEW l, Removed(c, own, m, to, l),
           NEW d \in Threads
    PROVE  Home(d)'
<1>1. /\ TypeInv /\ ListInv /\ Home(d) /\ d \in Cells /\ op[c] \in {"LEAVE", "destroy"}
      /\ pc[c] \in {"behead", "unlink", "destroy", "drop"} /\ joined[c] = <<>>
      /\ \A s \in Sessions : s \in Owners
  BY Apart DEF AllInv, Removed, Cells
<1>2. /\ own \in Owners
      /\ \A x \in Owners : \A z :
            In(z, Chains'[x]) <=> In(z, Chains[x]) /\ ~(x = own /\ z = Chains[own][m])
  BY DEF Removed, Shrunk
<1>3. /\ id' = id /\ joined' = joined /\ op' = op
      /\ freed' = freed \/ (op[c] = "destroy" /\ freed' = freed \cup {c})
  BY DEF Removed, Moves
<1>4. /\ pc' = [pc EXCEPT ![c] = to] /\ loc' = [loc EXCEPT ![c] = l] /\ to \in {"cut", "drop"}
      /\ nxt'[c] = NULL \/ (to = "cut" /\ l.node = c)
  BY DEF Removed, Moves, Goes
<1>5. pc'[c] = to /\ loc'[c] = l /\ \A e \in Threads : e # c => pc'[e] = pc[e] /\ loc'[e] = loc[e]
  BY <1>4 DEF AllInv, TypeInv
<1>6. CASE d = c
  <2>1. \A s \in Sessions : ~In(c, Chains'[s])
    <3>1. CASE own = List
      <4>1. Out(c)
        BY <3>1 DEF Removed
      <4> QED BY <1>1, <1>2, <4>1 DEF Out
    <3>2. CASE own # List
      <4>1. Chains[own][m] = c /\ own \in Sessions
        BY <1>2, <3>2 DEF Removed, Owners
      <4>2. \A s \in Sessions : In(c, Chains[s]) => s = own
        <5>1. In(c, Chains[own])
          BY <4>1 DEF Removed, Shrunk, In
        <5> QED BY <1>1, <4>1, <5>1 DEF ListInv
      <4> QED BY <1>1, <1>2, <4>1, <4>2
    <3> QED BY <3>1, <3>2
  <2>2. c \in freed' => op[c] = "destroy"
    <3>1. c \in freed => pc[c] = "idle" \/ op[c] = "destroy"
      BY <1>1, <1>6 DEF Home
    <3> QED BY <1>1, <1>3, <3>1
  <2>3. Out(c)'
    BY <2>1 DEF Out
  <2> HIDE DEF Out
  <2> QED BY <1>1, <1>3, <1>4, <1>5, <1>6, <2>1, <2>2, <2>3 DEF Home
<1>7. CASE d # c
  <2>1. Leaving(d)' <=> Leaving(d)
    BY <1>3, <1>5, <1>7 DEF Leaving
  <2>2. Entering(d)' <=> Entering(d)
    BY <1>3, <1>5, <1>7 DEF Entering
  <2>3. \A s \in Sessions : In(d, Chains'[s]) <=> In(d, Chains[s])
    <3>1. own # List => Chains[own][m] = c
      BY DEF Removed
    <3> QED BY <1>1, <1>2, <1>7, <3>1, Apart
  <2>4. Out(d)' <=> Out(d)
    BY <2>3 DEF Out
  <2>5. Out(d) => nxt'[d] = nxt[d]
    <3>1. nxt'[d] = nxt[d] \/ In(d, Chains[own])
      BY <1>1 DEF Removed
    <3>2. In(d, Chains[own]) => own \in Sessions
      BY <1>1, <1>2, ListFacts, Apart DEF In, Owners
    <3> QED BY <3>1, <3>2 DEF Out
  <2>6. d \in freed' => d \in freed
    BY <1>3, <1>7
  <2>7. pc'[d] = pc[d] /\ loc'[d] = loc[d] /\ joined'[d] = joined[d] /\ op'[d] = op[d]
    BY <1>3, <1>5, <1>7
  <2> HIDE DEF Leaving, Entering, Out
  <2> QED BY <1>1, <1>3, <2>1, <2>2, <2>3, <2>4, <2>5, <2>6, <2>7 DEF Home
<1> QED BY <1>6, <1>7

LEMMA RemovedStep ==
    ASSUME AllInv, Races, Strays, NEW c \in Threads, NEW own, NEW m, NEW to, NEW l, Removed(c, own, m, to, l),
           Place(c)'
    PROVE  AllInv' /\ RosterStep
<1>1. /\ TypeInv /\ pc[c] \in {"behead", "unlink", "destroy", "drop"}
      /\ op[c] \in {"LEAVE", "destroy"} /\ to \in {"cut", "drop"} /\ l \in Locals
      /\ UNCHANGED <<mutex, joined, op, ops, history>>
      /\ pc' = [pc EXCEPT ![c] = to] /\ loc' = [loc EXCEPT ![c] = l]
  BY DEF AllInv, Removed, Moves, Goes
<1>2. Private(c, to, op[c], l, joined[c], owed[c])
  BY <1>1, Kept DEF Private, history
<1>3. TypeInv' /\ Others(c) /\ pc'[c] = to /\ op'[c] = op[c] /\ loc'[c] = l
  <2>1. to \in Places
    BY <1>1 DEF Places
  <2> QED BY <1>1, <1>2, <2>1, Kept, PrivateTypes DEF Removed
<1>4. \A d \in Threads \ {c} :
         /\ pc[d] \in {"idle", "search", "lock", "sessions", "members"}
         /\ pc[d] # "idle" => d \in stale /\ op[d] \in {"check", "READ"}
  BY <1>1, Alone
<1>5. ListInv' /\ OnlyReadersOverrun' /\ \A d \in Threads : Home(d)'
  BY RemovedLists, RemovedHome DEF Removed, OnlyReadersOverrun
<1>6. CountInv'
  <2>1. Changing(own)'
    BY <1>1, <1>3 DEF Removed, Changing
  <2>2. \A x : Changing(x) => Changing(x)'
    <3>1. ASSUME NEW x, Changing(x) PROVE Changing(x)'
      <4>1. pc[c] = "drop" /\ loc[c].node = x
        BY <1>1, <1>4, <3>1 DEF Changing
      <4> QED BY <1>1, <1>3, <4>1 DEF Removed, Changing
    <3> QED BY <3>1
  <2>3. \A x \in Owners \ freed' : x \in Owners \ freed /\ (x # own => Chains'[x] = Chains[x])
    BY DEF Removed, Shrunk
  <2>4. size' = size
    BY DEF Removed
  <2> HIDE DEF Changing
  <2> QED BY <2>1, <2>2, <2>3, <2>4 DEF AllInv, CountInv
<1>7. \A d \in Threads : Place(d)'
  <2>1. ASSUME NEW d \in Threads \ {c} PROVE Place(d)'
    <3>1. Place(d) /\ Same(d)
      BY <1>3 DEF AllInv, Others
    <3> QED BY <1>4, <3>1, StaleStays, StrayPlace
  <2> QED BY <2>1
<1>8. \A d \in Threads : Turn(d)'
  BY <1>1, <1>3, TurnStays DEF AllInv
<1>9. RosterStep
  <2>1. /\ own \in Owners /\ m \in 1..Len(Chains[own]) /\ Chains'[own] = RemoveAt(Chains[own], m)
        /\ \A x \in Owners : x # own => Chains'[x] = Chains[x]
    BY DEF Removed, Shrunk
  <2>2. CASE own = List
    BY <2>1, <2>2, Apart DEF RosterStep
  <2>3. CASE own # List
    <3>1. own \in Sessions /\ \A t \in Sessions : t # own => Chains'[t] = Chains[t]
      BY <2>1, <2>3, Apart DEF Owners
    <3> QED BY <2>1, <3>1 DEF RosterStep
  <2> QED BY <2>2, <2>3
<1> QED BY <1>3, <1>5, <1>6, <1>7, <1>8, <1>9 DEF AllInv

LEMMA BeheadStep ==
    ASSUME AllInv, Races, Strays, NEW c \in Threads, fault = "none", Behead(c)
    PROVE  AllInv' /\ RosterStep
<1>1. PICK own : own = loc[c].own
  OBVIOUS
<1>2. /\ pc[c] = "behead" /\ Removing(c, loc[c]) /\ loc[c] \in Locals /\ TypeInv /\ ListInv
      /\ op[c] = "LEAVE" /\ joined[c] = <<>>
  BY DEF Behead, AllInv, TypeInv, Place, Removing
<1>3. /\ own \in Sessions /\ own \in Owners /\ own # List
      /\ 1 \in 1..Len(Chains[own]) /\ Chains[own][1] = c
      /\ Len(Chains[own]) > 1 /\ loc[c].node = c
  <2>1. own \in Sessions /\ \E m \in 1..Len(Chains[own]) :
           Chains[own][m] = c /\ m = 1 /\ Len(Chains[own]) > 1 /\ loc[c].node = c
    BY <1>1, <1>2 DEF Removing
  <2> QED BY <2>1, Apart
<1>4. In(own, Chains[List])
  <2>1. Chains[own] # <<>>
    BY <1>3
  <2> QED BY <1>2, <1>3, <2>1 DEF ListInv
<1>5. own # NULL /\ own \notin freed
  BY <1>4, Live, Apart
<1>6. /\ first' = [first EXCEPT ![own] = nxt[c]] /\ Moves(c, "cut", loc[c])
      /\ fault' = fault /\ UNCHANGED <<size, nxt, id, freed>>
  BY <1>1, <1>5 DEF Behead, Reads
<1>7. /\ Chains' = [Chains EXCEPT ![own] = RemoveAt(@, 1)]
      /\ \A x \in Owners : Path(Chains'[x], first'[x], nxt')
  BY <1>2, <1>3, <1>6, ChainsRemove
<1>8. Shrunk(own, 1)
  BY <1>2, <1>3, <1>7, ShrunkMeans
<1>9. HeapTypes'
  <2>1. nxt[c] \in Cells /\ first \in [Owners -> Cells]
    BY <1>2, Apart DEF TypeInv, Cells
  <2> QED BY <1>2, <1>6, <2>1, Kept DEF HeapTypes, Kinds
<1>10. Removed(c, own, 1, "cut", loc[c])
  BY <1>1, <1>2, <1>3, <1>6, <1>7, <1>8, <1>9 DEF Removed
<1>11. Place(c)'
  <2>1. pc'[c] = "cut" /\ loc'[c] = loc[c] /\ UNCHANGED <<op, joined>>
    BY <1>2, <1>6 DEF Moves, Goes, TypeInv
  <2>2. ~Changing(own)
    <3>1. \A d \in Threads \ {c} : pc[d] \in {"idle", "search", "lock", "sessions", "members"}
      BY <1>2, Alone
    <3> QED BY <1>2, <3>1 DEF Changing
  <2>3. size[own] = Len(Chains[own])
    BY <1>3, <1>5, <2>2 DEF AllInv, CountInv
  <2>4. size'[own] = Len(Chains'[own]) + 1 /\ Chains'[own] # <<>>
    BY <1>3, <1>6, <1>8, <2>3 DEF Shrunk
  <2>5. In(own, Chains'[List])
    BY <1>3, <1>4, <1>8, Apart DEF Shrunk
  <2>6. Counting(c, loc[c])'
    BY <1>1, <1>2, <1>3, <2>1, <2>4, <2>5 DEF Counting
  <2> QED BY <2>1, <2>6 DEF Place
<1> QED BY <1>10, <1>11, RemovedStep

LEMMA UnlinkStep ==
    ASSUME AllInv, Races, Strays, NEW c \in Threads, fault = "none", Unlink(c)
    PROVE  AllInv' /\ RosterStep
<1>1. PICK own, z : own = loc[c].own /\ z = loc[c].at
  OBVIOUS
<1>2. /\ pc[c] = "unlink" /\ Removing(c, loc[c]) /\ loc[c] \in Locals /\ TypeInv /\ ListInv
      /\ op[c] = "LEAVE" /\ joined[c] = <<>>
  BY DEF Unlink, AllInv, TypeInv, Place, Removing
<1>3. PICK m \in 1..Len(Chains[own]) : Chains[own][m] = c /\ m > 1 /\ z = Chains[own][m - 1]
  BY <1>1, <1>2 DEF Removing
<1>4. own \in Sessions /\ own \in Owners /\ own # List /\ Len(Chains[own]) \in Nat
  <2>1. own \in Sessions
    BY <1>1, <1>2 DEF Removing
  <2> QED BY <1>2, <2>1, Apart, ListFacts
<1>5. m - 1 \in 1..Len(Chains[own]) /\ (m - 1) + 1 = m /\ m # 1
  BY <1>3, <1>4
<1>6. nxt[z] = c /\ In(z, Chains[own]) /\ z \in Cells /\ In(c, Chains[own])
  <2>1. nxt[z] = Item(Chains[own], m)
    BY <1>2, <1>3, <1>4, <1>5, ListFacts
  <2>2. In(z, Chains[own]) /\ In(c, Chains[own])
    BY <1>3, <1>5 DEF In
  <2> QED BY <1>3, <1>4, <2>1, <2>2, Live DEF Item
<1>7. c # NULL /\ c \notin freed /\ c \in Cells
  BY <1>4, <1>6, Live
<1> DEFINE l == [loc[c] EXCEPT !.node = c]
<1>8. /\ nxt' = [nxt EXCEPT ![z] = nxt[c]] /\ Moves(c, "cut", l)
      /\ fault' = fault /\ UNCHANGED <<first, size, id, freed>>
  BY <1>1, <1>6, <1>7 DEF Unlink, Reads
<1>9. l \in Locals /\ l.own = own /\ l.node = c
  BY <1>1, <1>2, <1>7 DEF Locals
<1> HIDE DEF l
<1>10. In(own, Chains[List])
  <2>1. Chains[own] # <<>>
    BY <1>3, <1>4
  <2> QED BY <1>2, <1>4, <2>1 DEF ListInv
<1>11. own \notin freed
  BY <1>10, Live, Apart
<1>12. /\ Chains' = [Chains EXCEPT ![own] = RemoveAt(@, m)]
       /\ \A x \in Owners : Path(Chains'[x], first'[x], nxt')
       /\ nxt'[NULL] = NULL
  <2>1. first' = first /\ nxt' = [nxt EXCEPT ![Chains[own][m - 1]] = nxt[Chains[own][m]]]
    BY <1>3, <1>8
  <2> QED BY <1>2, <1>4, <1>5, <2>1, ChainsRemove
<1>13. Shrunk(own, m)
  BY <1>2, <1>4, <1>12, ShrunkMeans
<1>14. HeapTypes' /\ \A y \in Cells : nxt'[y] = nxt[y] \/ In(y, Chains[own])
  <2>1. nxt[c] \in Cells /\ nxt \in [Cells -> Cells]
    BY <1>2, <1>7 DEF TypeInv
  <2>2. nxt' \in [Cells -> Cells] /\ \A y \in Cells : nxt'[y] = nxt[y] \/ y = z
    BY <1>8, <2>1
  <2> QED BY <1>2, <1>6, <1>8, <1>12, <2>2, Kept DEF HeapTypes, Kinds
<1>15. Removed(c, own, m, "cut", l)
  BY <1>2, <1>3, <1>4, <1>8, <1>9, <1>12, <1>13, <1>14 DEF Removed
<1>16. Place(c)'
  <2>1. pc'[c] = "cut" /\ loc'[c] = l /\ UNCHANGED <<op, joined>>
    BY <1>2, <1>8 DEF Moves, Goes, TypeInv
  <2>2. ~Changing(own)
    <3>1. \A d \in Threads \ {c} : pc[d] \in {"idle", "search", "lock", "sessions", "members"}
      BY <1>2, Alone
    <3> QED BY <1>2, <3>1 DEF Changing
  <2>3. size[own] = Len(Chains[own])
    BY <1>4, <1>11, <2>2 DEF AllInv, CountInv
  <2>4. size'[own] = Len(Chains'[own]) + 1 /\ Chains'[own] # <<>>
    <3>1. Len(Chains'[own]) = Len(Chains[own]) - 1 /\ size' = size
      BY <1>8, <1>13 DEF Shrunk
    <3>2. Len(Chains'[own]) # 0
      BY <1>3, <1>4, <3>1
    <3>3. Len(Chains'[own]) + 1 = Len(Chains[own])
      BY <1>4, <3>1
    <3>4. size'[own] = Len(Chains'[own]) + 1
      BY <2>3, <3>1, <3>3
    <3> QED BY <3>2, <3>4
  <2>5. In(own, Chains'[List])
    BY <1>4, <1>10, <1>13, Apart DEF Shrunk
  <2>6. Counting(c, loc[c])'
    BY <1>2, <1>4, <1>9, <2>1, <2>4, <2>5 DEF Counting
  <2> QED BY <2>1, <2>6 DEF Place
<1> QED BY <1>15, <1>16, RemovedStep

LEMMA DestroyStep ==
    ASSUME AllInv, Races, Strays, NEW c \in Threads, fault = "none", Destroy(c)
    PROVE  AllInv' /\ RosterStep
<1>1. PICK own : own = loc[c].node
  OBVIOUS
<1>2. /\ pc[c] = "destroy" /\ Dropping(c, loc[c]) /\ loc[c] \in Locals /\ TypeInv /\ ListInv
  BY DEF Destroy, AllInv, TypeInv, Place
<1>3. /\ op[c] = "destroy" /\ joined[c] = <<>> /\ own \in Sessions /\ Chains[own] = <<c>>
      /\ own \in Owners /\ own # List /\ loc[c].own = List
      /\ loc[c].i < Len(Chains[List]) /\ Chains[List][loc[c].i + 1] = own
  BY <1>1, <1>2, Apart DEF Dropping
<1>4. loc[c].i + 1 \in 1..Len(Chains[List]) /\ In(own, Chains[List])
  <2>1. loc[c].i \in Nat /\ Len(Chains[List]) \in Nat
    BY <1>2, Apart, ListFacts DEF Locals
  <2>2. loc[c].i + 1 \in 1..Len(Chains[List])
    BY <1>3, <2>1
  <2> QED BY <1>3, <2>2 DEF In
<1>5. own # NULL /\ own \notin freed
  BY <1>4, Live, Apart
<1>6. 1 \in 1..Len(Chains[own]) /\ Len(Chains[own]) = 1 /\ Chains[own][1] = c /\ In(c, Chains[own])
  BY <1>3 DEF In
<1>7. c # NULL /\ c \notin freed /\ c \in Nodes
  BY <1>3, <1>6, Live
<1>8. size[own] = 1
  <2>1. \A d \in Threads \ {c} : pc[d] \in {"idle", "search", "lock", "sessions", "members"}
    BY <1>2, <1>3, Alone
  <2>2. ~Changing(own)
    BY <1>2, <2>1 DEF Changing
  <2> QED BY <1>3, <1>5, <1>6, <2>2 DEF AllInv, CountInv
<1>9. {Nth(own, n) : n \in 0..(size[own] - 1)} = {c}
  <2>1. Nth(own, 0) = Item(Chains[own], 0 + 1)
    BY <1>2, <1>3, ListFacts
  <2>2. Nth(own, 0) = c
    BY <1>6, <2>1 DEF Item
  <2>3. 0..(size[own] - 1) = {0}
    BY <1>8
  <2> QED BY <2>2, <2>3
<1>10. nxt[c] = NULL
  <2>1. nxt[c] = Item(Chains[own], 1 + 1)
    BY <1>2, <1>3, <1>6, ListFacts
  <2> QED BY <1>6, <2>1 DEF Item
<1>11. /\ freed' = freed \cup {c} /\ first' = [first EXCEPT ![own] = NULL]
       /\ Moves(c, "drop", loc[c]) /\ fault' = fault /\ UNCHANGED <<size, nxt, id>>
  <2> DEFINE s == loc[c].node
             clients == {Nth(s, n) : n \in 0..(size[s] - 1)}
  <2>1. clients = {c}
    BY <1>1, <1>9
  <2>2. IF clients \cap freed # {}
        THEN /\ fault' = "abort"
             /\ UNCHANGED <<heap, mutex, joined, pc, op, loc, ops, history>>
        ELSE Reads(IF NULL \in clients THEN NULL ELSE s,
               /\ freed' = freed \cup clients
               /\ first' = [first EXCEPT ![s] = NULL]
               /\ Moves(c, "drop", loc[c])
               /\ UNCHANGED <<size, nxt, id>>)
    BY DEF Destroy
  <2> HIDE DEF clients
  <2>3. clients \cap freed = {} /\ NULL \notin clients
    BY <1>7, <2>1
  <2>4. Reads(s, /\ freed' = freed \cup clients
                 /\ first' = [first EXCEPT ![s] = NULL]
                 /\ Moves(c, "drop", loc[c])
                 /\ UNCHANGED <<size, nxt, id>>)
    BY <2>2, <2>3
  <2> QED BY <1>1, <1>5, <2>1, <2>4 DEF Reads
<1>12. /\ Chains' = [Chains EXCEPT ![own] = RemoveAt(@, 1)]
       /\ \A x \in Owners : Path(Chains'[x], first'[x], nxt')
  <2>1. first' = [first EXCEPT ![own] = nxt[Chains[own][1]]] /\ nxt' = nxt
    BY <1>6, <1>10, <1>11
  <2> QED BY <1>2, <1>3, <1>6, <2>1, ChainsRemove
<1>13. Shrunk(own, 1)
  BY <1>2, <1>3, <1>6, <1>12, ShrunkMeans
<1>14. HeapTypes'
  <2>1. NULL \in Cells /\ first \in [Owners -> Cells] /\ freed \subseteq Nodes
    BY <1>2 DEF TypeInv, Cells
  <2> QED BY <1>2, <1>7, <1>11, <2>1, Kept DEF HeapTypes, Kinds
<1>15. Removed(c, own, 1, "drop", loc[c])
  BY <1>1, <1>2, <1>3, <1>6, <1>10, <1>11, <1>12, <1>13, <1>14 DEF Removed
<1>16. Place(c)'
  <2>1. pc'[c] = "drop" /\ loc'[c] = loc[c] /\ UNCHANGED <<op, joined>>
    BY <1>2, <1>11 DEF Moves, Goes, TypeInv
  <2>2. Chains'[own] = <<>> /\ Chains'[List] = Chains[List]
    BY <1>3, <1>6, <1>13, Apart DEF Shrunk
  <2>3. Dropping(c, loc[c])'
    BY <1>1, <1>3, <2>1, <2>2 DEF Dropping
  <2> QED BY <2>1, <2>3 DEF Place
<1> QED BY <1>15, <1>16, RemovedStep

LEMMA DropStep ==
    ASSUME AllInv, Races, Strays, NEW c \in Threads, fault = "none", Drop(c)
    PROVE  AllInv' /\ RosterStep
<1> DEFINE L == Chains[List]
<1>1. PICK m, y : m = loc[c].i + 1 /\ y = loc[c].node
  OBVIOUS
<1>2. /\ pc[c] = "drop" /\ Dropping(c, loc[c]) /\ loc[c] \in Locals /\ TypeInv /\ ListInv
  BY DEF Drop, AllInv, TypeInv, Place
<1>3. /\ op[c] = "destroy" /\ joined[c] = <<>> /\ y \in Sessions /\ Chains[y] = <<>>
      /\ loc[c].own = List /\ List \in Owners /\ y # List
      /\ loc[c].i < Len(L) /\ L[m] = y
  BY <1>1, <1>2, Apart DEF Dropping
<1>4. loc[c].i \in Nat /\ Len(L) \in Nat /\ m \in 1..Len(L) /\ In(y, L)
  <2>1. loc[c].i \in Nat /\ Len(L) \in Nat
    BY <1>2, Apart, ListFacts DEF Locals
  <2>2. m \in 1..Len(L)
    BY <1>1, <1>3, <2>1
  <2> QED BY <1>3, <2>1, <2>2 DEF In
<1>5. m # 1 => /\ m - 1 \in 1..Len(L) /\ In(L[m - 1], L)
               /\ Nth(List, loc[c].i - 1) = L[m - 1]
  <2>1. CASE m # 1
    <3>1. m - 1 \in 1..Len(L) /\ loc[c].i - 1 \in Nat /\ (loc[c].i - 1) + 1 = m - 1
      BY <1>1, <1>4, <2>1
    <3>2. Nth(List, loc[c].i - 1) = Item(L, m - 1)
      BY <1>2, <1>3, <3>1, ListFacts
    <3> QED BY <3>1, <3>2 DEF Item, In
  <2> QED BY <2>1
<1>6. /\ \/ m = 1 /\ first' = [first EXCEPT ![List] = nxt[L[1]]] /\ nxt' = nxt
         \/ /\ m # 1 /\ first' = first
            /\ nxt' = [nxt EXCEPT ![L[m - 1]] = nxt[L[m]]]
      /\ Moves(c, "cut", loc[c]) /\ fault' = fault /\ UNCHANGED <<size, id, freed>>
  <2>1. CASE m = 1
    <3>1. loc[c].i = 0
      BY <1>1, <1>4, <2>1
    <3> QED BY <1>1, <1>3, <2>1, <3>1 DEF Drop
  <2>2. CASE m # 1
    <3>1. loc[c].i # 0 /\ L[m - 1] # NULL /\ L[m - 1] \notin freed
      BY <1>1, <1>3, <1>4, <1>5, <2>2, Live
    <3> QED BY <1>1, <1>3, <1>5, <2>2, <3>1 DEF Drop, Reads
  <2> QED BY <2>1, <2>2
<1>7. /\ Chains' = [Chains EXCEPT ![List] = RemoveAt(@, m)]
      /\ \A x \in Owners : Path(Chains'[x], first'[x], nxt')
      /\ nxt'[NULL] = NULL
  BY <1>2, <1>3, <1>4, <1>6, ChainsRemove
<1>8. Shrunk(List, m)
  BY <1>2, <1>3, <1>4, <1>7, ShrunkMeans
<1>9. y \in Cells /\ nxt[y] \in Cells /\ first \in [Owners -> Cells] /\ nxt \in [Cells -> Cells]
      /\ y \notin freed /\ id[y] # NULL
  BY <1>2, <1>3, <1>4, Live DEF TypeInv, ListInv
<1>10. HeapTypes' /\ \A x \in Cells : nxt'[x] = nxt[x] \/ In(x, L)
  <2> HIDE DEF L
  <2>1. CASE m = 1
    <3>1. first' = [first EXCEPT ![List] = nxt[y]] /\ nxt' = nxt
      BY <1>3, <1>6, <2>1
    <3> QED BY <1>2, <1>6, <1>9, <3>1, Kept DEF HeapTypes, Kinds
  <2>2. CASE m # 1
    <3>1. PICK z : z = L[m - 1]
      OBVIOUS
    <3>2. first' = first /\ nxt' = [nxt EXCEPT ![z] = nxt[y]] /\ In(z, L)
      BY <1>3, <1>5, <1>6, <2>2, <3>1
    <3>3. nxt' \in [Cells -> Cells] /\ \A x \in Cells : nxt'[x] = nxt[x] \/ x = z
      BY <1>9, <3>2
    <3>4. z \in Sessions /\ y \in Sessions /\ Kinds
      BY <1>2, <1>3, <3>2 DEF ListInv, TypeInv, In, L
    <3>5. Kinds'
      BY <1>9, <3>2, <3>4, Apart, SharedAssumption DEF Kinds, Cells
    <3> QED BY <1>2, <1>6, <1>7, <3>2, <3>3, <3>5, Kept DEF HeapTypes
  <2> QED BY <2>1, <2>2
<1>11. Out(c) /\ nxt'[c] = NULL
  <2>1. Out(c) /\ nxt[c] = NULL
    BY <1>2, <1>3, Absent DEF Leaving
  <2>2. c \in Cells /\ ~In(c, L)
    BY <1>2, ListFacts, Apart DEF In, Cells
  <2> QED BY <1>10, <2>1, <2>2
<1>12. Removed(c, List, m, "cut", loc[c])
  <2> HIDE DEF Out
  <2> QED BY <1>2, <1>3, <1>6, <1>7, <1>8, <1>10, <1>11 DEF Removed
<1>13. Place(c)'
  <2>1. pc'[c] = "cut" /\ loc'[c] = loc[c] /\ UNCHANGED <<op, joined>>
    BY <1>2, <1>6 DEF Moves, Goes, TypeInv
  <2>2. size[List] = Len(L)
    <3>1. \A d \in Threads \ {c} : pc[d] \in {"idle", "search", "lock", "sessions", "members"}
      BY <1>2, <1>3, Alone
    <3>2. ~Changing(List)
      BY <1>1, <1>2, <1>3, <3>1 DEF Changing
    <3>3. List \notin freed
      BY <1>2, Apart DEF TypeInv
    <3> QED BY <1>3, <3>2, <3>3 DEF AllInv, CountInv
  <2>3. size'[List] = Len(Chains'[List]) + 1 /\ ~In(y, Chains'[List])
    <3>1. Len(Chains'[List]) = Len(L) - 1 /\ ~In(y, Chains'[List])
      BY <1>3, <1>8 DEF Shrunk
    <3> QED BY <1>4, <1>6, <2>2, <3>1
  <2>4. Counting(c, loc[c])'
    BY <1>1, <1>3, <1>6, <1>9, <2>1, <2>3 DEF Counting
  <2> QED BY <2>1, <2>4 DEF Place
<1> QED BY <1>12, <1>13, RemovedStep

-----------------------------------------------------------------------------
(***************************************************************************)
(* The invariant holds.                                                    *)
(***************************************************************************)
LEMMA InitInv == Init => AllInv /\ \A x \in Owners : Chains[x] = <<>>
<1> SUFFICES ASSUME Init PROVE AllInv /\ \A x \in Owners : Chains[x] = <<>>
  OBVIOUS
<1>1. TypeInv
  <2>1. /\ first \in [Owners -> Cells] /\ size \in [Owners -> Nat] /\ nxt \in [Cells -> Cells]
        /\ nxt[NULL] = NULL /\ id \in [Sessions -> Ids \cup {NULL}] /\ freed \subseteq Nodes
        /\ mutex \in Threads \cup {NULL}
    BY DEF Init, Owners, Nodes, Cells
  <2>2. pc \in [Threads -> Places] /\ op \in [Threads -> Ops] /\ ops \in Nat
    BY DEF Init, Places, Ops
  <2>3. loc \in [Threads -> Locals]
    BY Apart DEF Init, Locals, Cells
  <2>4. joined \in [Threads -> Seq(Ids)] /\ seen \in [Threads -> Seq(Threads)]
        /\ owed \in [Threads -> SUBSET Threads]
    BY DEF Init
  <2>5. Kinds
    BY DEF Init, Kinds
  <2> QED BY <2>1, <2>2, <2>3, <2>4, <2>5 DEF TypeInv
<1>2. \A x \in Owners : Path(<<>>, first[x], nxt)
  BY DEF Init, Owners, Path, Item
<1>3. \A x \in Owners : Chains[x] = <<>>
  <2>1. \A x \in Owners : ChainOf(first[x], nxt) = <<>>
    BY <1>1, <1>2, ChainOfPath DEF TypeInv
  <2> QED BY <2>1, ChainIs
<1>4. \A x \in Owners : Len(Chains[x]) = 0 /\ \A y : ~In(y, Chains[x])
  BY <1>3 DEF In
<1>5. ListInv
  <2>1. \A s \in Sessions : s \in Owners /\ s \in Cells
    BY Apart DEF Cells
  <2>2. \A s \in Sessions : s \notin freed /\ nxt[s] = NULL /\ id[s] = NULL
    BY DEF Init
  <2>3. Chains[List] \in Seq(Sessions) /\ \A s \in Sessions : Chains[s] \in Seq(Threads)
    <3>1. \A S : <<>> \in Seq(S)
      OBVIOUS
    <3> QED BY <1>3, <2>1, <3>1, Apart
  <2>4. \A s \in Sessions :
           /\ In(s, Chains[List]) => s \notin freed /\ id[s] # NULL
           /\ ~In(s, Chains[List]) => Chains[s] = <<>>
           /\ id[s] = NULL => s \notin freed /\ nxt[s] = NULL
    BY <1>3, <1>4, <2>1, <2>2, Apart
  <2>5. /\ \A s, t \in Sessions, c \in Threads : In(c, Chains[s]) /\ In(c, Chains[t]) => s = t
        /\ \A i, j \in 1..Len(Chains[List]) :
              i < j /\ Chains[Chains[List][j]] # <<>>
              => id[Chains[List][i]] # id[Chains[List][j]]
    BY <1>4, <2>1, Apart
  <2>6. \A x \in Owners : Path(Chains[x], first[x], nxt)
    BY <1>2, <1>3
  <2> QED BY <2>3, <2>4, <2>5, <2>6 DEF ListInv
<1>6. CountInv
  BY <1>4 DEF Init, CountInv, Owners
<1>7. OnlyReadersOverrun
  BY DEF Init, OnlyReadersOverrun
<1>8. ASSUME NEW c \in Threads PROVE Home(c) /\ Turn(c) /\ Place(c)
  <2>1. /\ pc[c] = "idle" /\ joined[c] = <<>> /\ op[c] = "none" /\ mutex = NULL /\ nxt[c] = NULL
        /\ c \notin freed /\ c # NULL
    BY Apart DEF Init
  <2>2. Out(c)
    BY <1>4, Apart DEF Out
  <2>3. Home(c)
    BY <2>1, <2>2 DEF Home, Out
  <2>4. Turn(c) /\ Place(c)
    BY <2>1 DEF Turn, Place
  <2> QED BY <2>3, <2>4
<1> QED BY <1>1, <1>3, <1>5, <1>6, <1>7, <1>8 DEF AllInv

LEMMA StutterStep ==
    ASSUME AllInv, Races, UNCHANGED vars
    PROVE  AllInv' /\ Races' /\ Chains' = Chains
<1>1. /\ UNCHANGED <<first, size, nxt, id, freed>> /\ fault' = fault /\ mutex' = mutex
      /\ UNCHANGED <<joined, pc, op, loc, ops, seen, owed, stale, clashed>>
  BY DEF vars, heap, history, races
<1>2. Chains' = Chains
  BY <1>1, ChainsStay
<1>3. TypeInv' /\ ListInv'
  BY <1>1, <1>2 DEF AllInv, TypeInv, Kinds, ListInv
<1>4. CountInv'
  <2>1. \A x : Changing(x)' <=> Changing(x)
    BY <1>1 DEF Changing
  <2> HIDE DEF Changing
  <2> QED BY <1>1, <1>2, <2>1 DEF AllInv, CountInv
<1>5. OnlyReadersOverrun'
  <2>1. \A x : Chain(x)' = Chain(x)
    BY <1>1 DEF Chain, Nth
  <2> QED BY <1>1, <2>1 DEF AllInv, OnlyReadersOverrun
<1>6. ASSUME NEW c \in Threads PROVE Home(c)' /\ Turn(c)' /\ Place(c)'
  <2>1. Home(c) /\ Turn(c) /\ Place(c) /\ owed[c] \subseteq Threads /\ Same(c)
    BY <1>1 DEF AllInv, TypeInv, Same
  <2>2. Home(c)'
    BY <1>1, <1>2, <2>1, HomeStays
  <2>3. Place(c)'
    BY <1>1, <1>2, <2>1, PlaceStays
  <2>4. Turn(c)'
    BY <1>1, <2>1 DEF Turn
  <2> QED BY <2>2, <2>3, <2>4
<1>7. Races'
  BY <1>1 DEF Races, Looking, Unlocked, Locked
<1> QED BY <1>2, <1>3, <1>4, <1>5, <1>6, <1>7 DEF AllInv

\* What the histories record of a step after which no changes have clashed.
LEMMA RacesKept ==
    ASSUME Recorded, ~clashed'
    PROVE  ~clashed /\ Races' /\ Strays
<1>1. ~clashed /\ ~Clash'
  BY DEF Recorded
<1>2. stale' = {c \in Threads : Looking(c)' /\ (c \in stale \/ Beside(c)')}
  BY DEF Recorded
<1>3. ASSUME NEW c \in Threads, NEW d \in Threads, c # d, Unlocked(c)'
      PROVE  Beside(d)'
  BY <1>3 DEF Beside
<1>4. ASSUME NEW c \in Threads, NEW d \in Threads, c # d, Unlocked(c)'
      PROVE  ~Unlocked(d)' /\ ~Locked(d)' /\ (Looking(d)' => d \in stale')
  <2>1. Beside(d)'
    BY <1>3, <1>4
  <2>2. ~(Unlocked(d)' \/ Locked(d)')
    BY <1>1, <2>1 DEF Clash
  <2> QED BY <1>2, <2>1, <2>2
<1>5. \A c \in stale' : c \in Threads /\ Looking(c)'
  BY <1>2
<1>6. Races'
  BY <1>4, <1>5 DEF Races
<1> QED BY <1>1, <1>2, <1>6 DEF Strays, Looking

LEMMA NextStep ==
    ASSUME AllInv, Races, [Next]_vars, ~clashed'
    PROVE  AllInv' /\ Races' /\ RosterStep
<1>1. Chains' = Chains => RosterStep
  BY DEF RosterStep
<1>2. CASE UNCHANGED vars
  BY <1>1, <1>2, StutterStep
<1>3. CASE Next
  <2>1. PICK c \in Threads :
           BeginJoin(c) \/ BeginNew(c) \/ BeginLeave(c) \/ BeginRead(c) \/ Step(c)
    BY <1>3 DEF Next
  <2>2. fault = "none" /\ Races' /\ Strays
    BY <1>3, RacesKept DEF Next
  <2>3. CASE BeginJoin(c) \/ BeginNew(c) \/ BeginLeave(c) \/ BeginRead(c)
    BY <1>1, <2>2, <2>3, BeginJoinStep, BeginNewStep, BeginLeaveStep, BeginReadStep
  <2>4. CASE \/ SetHead(c) \/ Link(c) \/ Behead(c) \/ Unlink(c) \/ Destroy(c) \/ Drop(c)
    BY <2>2, <2>4, SetHeadLinks, LinkLinks, LinkedStep, BeheadStep, UnlinkStep, DestroyStep, DropStep
  <2>5. CASE \/ Search(c) \/ Lock(c) \/ Unlock(c) \/ Enter(c) \/ AppendTo(c) \/ Walk(c)
    BY <1>1, <2>2, <2>5, SearchStep, StaleSearchStep, LockStep, UnlockStep, EnterStep, AppendToStep, WalkStep
  <2>6. CASE \/ Load(c) \/ Store(c) \/ Look(c) \/ Find(c) \/ Cut(c)
    BY <1>1, <2>2, <2>6, LoadStep, StoreStep, LookStep, FindStep, CutStep
  <2>7. CASE NextSession(c) \/ NextMember(c)
    BY <1>1, <2>2, <2>7, NextSessionStep, NextMemberStep, StaleSessionStep, StaleMemberStep
  <2> QED BY <2>1, <2>2, <2>3, <2>4, <2>5, <2>6, <2>7 DEF Step
<1> QED BY <1>2, <1>3

IInv == AllInv /\ Races

\* Until two changes of the lists clash, whatever threads do and whoever reads
\* meanwhile, the invariant holds.
THEOREM Invariance == Spec => [](clashed \/ IInv)
<1>1. Init => IInv
  <2>1. Init => Races
    BY DEF Init, Races, Unlocked
  <2> QED BY <2>1, InitInv DEF IInv
<1>2. (clashed \/ IInv) /\ [Next]_vars => (clashed \/ IInv)'
  <2> SUFFICES ASSUME clashed \/ IInv, [Next]_vars, ~clashed' PROVE IInv'
    OBVIOUS
  <2>1. ~clashed
    BY RacesKept DEF Next, vars, races
  <2> QED BY <2>1, NextStep DEF IInv
<1> QED BY <1>1, <1>2, PTL DEF Spec

\* What a step can end the server by.
Ends == {"none", "segv", "freed", "abort"}

LEMMA EndsStay == fault \in Ends /\ [Next]_vars => (fault \in Ends)'
<1> SUFFICES ASSUME fault \in Ends, [Next]_vars, fault' # fault PROVE fault' \in Ends
  OBVIOUS
<1>1. PICK c \in Threads :
         BeginJoin(c) \/ BeginNew(c) \/ BeginLeave(c) \/ BeginRead(c) \/ Step(c)
  BY DEF Next, vars
<1>2. CASE \/ BeginJoin(c) \/ BeginNew(c) \/ BeginLeave(c) \/ BeginRead(c)
           \/ Lock(c) \/ Unlock(c)
  BY <1>2 DEF BeginJoin, BeginNew, BeginLeave, BeginRead, Lock, Unlock
<1>3. CASE Search(c) \/ Enter(c) \/ AppendTo(c) \/ SetHead(c) \/ Walk(c) \/ Link(c)
  BY <1>3 DEF Search, Enter, AppendTo, SetHead, Walk, Link, Reads, Ends
<1>4. CASE Load(c) \/ Store(c) \/ Look(c) \/ Behead(c) \/ Find(c) \/ Unlink(c) \/ Cut(c)
  BY <1>4 DEF Load, Store, Look, Behead, Find, Unlink, Cut, Reads, Ends
<1>5. CASE Destroy(c) \/ Drop(c) \/ NextSession(c) \/ NextMember(c)
  BY <1>5 DEF Destroy, Drop, NextSession, NextMember, Visits, Reads, Ends
<1> QED BY <1>1, <1>2, <1>3, <1>4, <1>5 DEF Step

\* Until then a pointer of a list leads to a node or to NULL, and a MESSAGE or
\* QUERY takes nothing for a client that is none.
THEOREM TypeCorrect == Spec => [](clashed \/ TypeOK)
<1>1. IInv /\ fault \in Ends => TypeOK
  <2>1. TypeInv => /\ first \in [Sessions \cup {List} -> Sessions \cup Threads \cup {NULL}]
                   /\ size \in [Sessions \cup {List} -> Int]
                   /\ nxt \in [Sessions \cup Threads \cup {NULL} -> Sessions \cup Threads \cup {NULL}]
    BY DEF TypeInv, Owners, Nodes, Cells
  <2>2. TypeInv => TypeOK \/ fault \notin Ends
    BY <2>1 DEF TypeInv, TypeOK, Nodes, Ends
  <2> QED BY <2>2 DEF IInv, AllInv
<1>2. Init => fault \in Ends
  BY DEF Init, Ends
<1> QED BY <1>1, <1>2, EndsStay, Invariance, PTL DEF Spec

\* SessionList.h 33 and 41: until two changes clash, list_sz and every session_sz
\* say how many nodes there are, but for those of a list a thread has linked or
\* unlinked a node of and not counted yet.
THEOREM CountersRight == Spec => []CountersAgree
<1>1. clashed \/ IInv => CountersAgree
  <2>1. ASSUME AllInv, NEW x \in (Sessions \ freed) \cup {List}
        PROVE  Changing(x) \/ size[x] = Len(Chain(x))
    <3>1. x \in Owners \ freed
      <4>1. List \notin freed
        BY <2>1, Apart DEF AllInv, TypeInv
      <4> QED BY <4>1 DEF Owners
    <3>2. Chain(x) = Chains[x]
      BY <3>1, ChainNow
    <3> QED BY <2>1, <3>1, <3>2 DEF AllInv, CountInv
  <2> QED BY <2>1 DEF CountersAgree, IInv
<1> QED BY <1>1, Invariance, PTL

\* Until two changes clash nothing ends the server but a reader: one beside an
\* unlocked change, or a MESSAGE or QUERY that has read the NULL behind the last
\* client before another was linked there, and counts it.
THEOREM OverrunsAreReaders == Spec => []OnlyReadersOverrun
<1>1. clashed \/ IInv => OnlyReadersOverrun
  BY DEF IInv, AllInv, OnlyReadersOverrun
<1> QED BY <1>1, Invariance, PTL

LEMMA ChainNext == \A y \in Owners : Chain(y)' = Chains'[y]
BY DEF Chains

\* Until two changes clash, joining and leaving, spread over the stores of many
\* turns, do what Rosters says in one step: at the store that links or unlinks
\* the client.
THEOREM JoinsAndLeavesAreAtomic == Spec => ImplementsRosters
<1>1. Init => Members!Init
  <2>1. ASSUME Init PROVE \A s \in Sessions : Chain(s) = <<>>
    BY <2>1, InitInv, ChainNow, Apart
  <2> QED BY <2>1 DEF Members!Init
<1>2. ASSUME clashed \/ IInv, [Next]_vars
      PROVE  [clashed' \/ Members!Next \/ UNCHANGED [s \in Sessions |-> Chain(s)]]_vars
  <2> SUFFICES ASSUME ~clashed' PROVE [Members!Next]_([s \in Sessions |-> Chain(s)])
    OBVIOUS
  <2> DEFINE r == [s \in Sessions |-> Chain(s)]
  <2>0. AllInv /\ Races
    BY <1>2, RacesKept DEF Next, vars, races, IInv
  <2>1. RosterStep /\ TypeInv /\ ListInv
    BY <1>2, <2>0, NextStep DEF AllInv
  <2>2. \A s \in Sessions : s \in Owners /\ r[s] = Chains[s] /\ r'[s] = Chains'[s]
    BY ChainNow, ChainNext, Apart
  <2>3. CASE r' = r
    BY <2>3
  <2>4. CASE \E s \in Sessions, d \in Threads :
                /\ Out(d) /\ Chains'[s] = Append(Chains[s], d)
                /\ \A t \in Sessions : t # s => Chains'[t] = Chains[t]
    <3>1. PICK s \in Sessions, d \in Threads :
             /\ Out(d) /\ Chains'[s] = Append(Chains[s], d)
             /\ \A t \in Sessions : t # s => Chains'[t] = Chains[t]
      BY <2>4
    <3>2. r' = [r EXCEPT ![s] = Append(@, d)]
      BY <2>2, <3>1
    <3>3. \A t \in Sessions : ~Contains(r[t], d)
      BY <2>2, <3>1 DEF Out, In, Contains
    <3>4. Members!Enter(s, d)
      BY <3>2, <3>3 DEF Members!Enter, Members!Contains, Contains
    <3> QED BY <2>3, <3>4 DEF Members!Next
  <2>5. CASE \E s \in Sessions : \E m \in 1..Len(Chains[s]) :
                /\ Chains'[s] = RemoveAt(Chains[s], m)
                /\ \A t \in Sessions : t # s => Chains'[t] = Chains[t]
    <3>1. PICK s \in Sessions : \E m \in 1..Len(Chains[s]) :
             /\ Chains'[s] = RemoveAt(Chains[s], m)
             /\ \A t \in Sessions : t # s => Chains'[t] = Chains[t]
      BY <2>5
    <3>2. PICK m \in 1..Len(Chains[s]) :
             /\ Chains'[s] = RemoveAt(Chains[s], m)
             /\ \A t \in Sessions : t # s => Chains'[t] = Chains[t]
      BY <3>1
    <3>3. r' = [r EXCEPT ![s] = RemoveAt(@, m)]
      BY <2>2, <3>2
    <3>4. m \in DOMAIN r[s] /\ r[s][m] \in Threads
      BY <2>1, <2>2, <3>2, ListFacts
    <3>5. Members!Depart(s, r[s][m])
      BY <3>3, <3>4 DEF Members!Depart, Members!RemoveAt, RemoveAt
    <3> QED BY <2>3, <3>4, <3>5 DEF Members!Next
  <2>6. CASE \A s \in Sessions : Chains'[s] = Chains[s]
    <3>1. r' = r
      BY <2>2, <2>6
    <3> QED BY <3>1
  <2> QED BY <2>1, <2>4, <2>5, <2>6 DEF RosterStep
<1> QED BY <1>1, <1>2, Invariance, PTL DEF Spec, ImplementsRosters

-----------------------------------------------------------------------------
(***************************************************************************)
(* What a MESSAGE or QUERY has visited.                                    *)
(***************************************************************************)
\* The clients of the sessions passed and, of the session it is at, those up
\* to where it is: all that are owed, each once, and nobody else.
Reader(c) == pc[c] \in {"sessions", "members"}

Visited(c) ==
    LET L == Chains[List]
        l == loc[c]
    IN  /\ \A i, j \in 1..Len(seen[c]) : seen[c][i] = seen[c][j] => i = j
        /\ \A j \in 1..l.i : \A e \in owed[c] : In(e, Chains[L[j]]) => In(e, seen[c])
        /\ pc[c] = "members" => \A k \in 1..l.n : In(Chains[l.own][k], seen[c])
        /\ \A e \in Threads : In(e, seen[c]) =>
              \/ \E j \in 1..l.i : In(e, Chains[L[j]])
              \/ pc[c] = "members" /\ \E k \in 1..l.n : e = Chains[l.own][k]

SeenInv == \A c \in Threads : Reader(c) /\ c \notin stale => Visited(c)

\* No step touches what another thread has of its own.
LEMMA OnlyOwn ==
    ASSUME AllInv, AllInv', Next, NEW c \in Threads,
           ~(BeginRead(c) \/ NextSession(c) \/ NextMember(c))
    PROVE  /\ pc'[c] = pc[c] \/ ~Reader(c)'
           /\ Reader(c) => /\ pc'[c] = pc[c] /\ loc'[c] = loc[c]
                           /\ owed'[c] = owed[c] /\ seen'[c] = seen[c]
<1> DEFINE Kept1 == /\ pc'[c] = pc[c] /\ loc'[c] = loc[c]
                    /\ owed'[c] = owed[c] /\ seen'[c] = seen[c]
<1>1. /\ pc \in [Threads -> Places] /\ loc \in [Threads -> Locals]
      /\ owed \in [Threads -> SUBSET Threads] /\ seen \in [Threads -> Seq(Threads)]
  BY DEF AllInv, TypeInv
<1>2. PICK d \in Threads :
         BeginJoin(d) \/ BeginNew(d) \/ BeginLeave(d) \/ BeginRead(d) \/ Step(d)
  BY DEF Next
<1>3. CASE d # c
  <2> SUFFICES Kept1
    BY DEF Reader
  <2>1. CASE BeginJoin(d) \/ BeginNew(d) \/ BeginLeave(d) \/ BeginRead(d)
    BY <1>1, <1>3, <2>1
    DEF BeginJoin, BeginNew, BeginLeave, BeginRead, Searches, Goes, history
  <2>2. CASE Search(d) \/ Lock(d) \/ Unlock(d) \/ Enter(d) \/ AppendTo(d)
    BY <1>1, <1>3, <2>2
    DEF Search, Lock, Unlock, Enter, AppendTo, Reads, Moves, Returns, Searches, Goes, history
  <2>3. CASE SetHead(d) \/ Walk(d) \/ Link(d) \/ Load(d) \/ Store(d)
    BY <1>1, <1>3, <2>3
    DEF SetHead, Walk, Link, Load, Store, Reads, Moves, Returns, Searches, Goes, history
  <2>4. CASE Look(d) \/ Behead(d) \/ Find(d) \/ Unlink(d) \/ Cut(d)
    BY <1>1, <1>3, <2>4
    DEF Look, Behead, Find, Unlink, Cut, Reads, Moves, Returns, Searches, Goes, history
  <2>5. CASE Destroy(d) \/ Drop(d) \/ NextSession(d) \/ NextMember(d)
    BY <1>1, <1>3, <2>5
    DEF Destroy, Drop, NextSession, NextMember, Visits, Reads, Moves, Goes, history
  <2> QED BY <1>2, <2>1, <2>2, <2>3, <2>4, <2>5 DEF Step
<1>4. CASE d = c
  <2>1. CASE BeginJoin(c) \/ BeginNew(c) \/ BeginLeave(c)
    BY <1>1, <2>1
    DEF BeginJoin, BeginNew, BeginLeave, Begins, Searches, Goes, Reader
  <2>2. CASE Search(c)
    <3>1. pc[c] = "search" /\ op' = op
      BY <2>2 DEF Search, Reads, Moves
    <3>2. op[c] # "READ"
      BY <3>1 DEF AllInv, Place, Searching
    <3>3. Reader(c)' => op'[c] = "READ"
      BY DEF AllInv, Place, Reader, Reading
    <3> QED BY <3>1, <3>2, <3>3 DEF Reader
  <2>3. CASE Lock(c) \/ Unlock(c) \/ Enter(c) \/ AppendTo(c)
    BY <1>1, <2>3
    DEF Lock, Unlock, Enter, AppendTo, Reads, Moves, Returns, Searches, Goes, Reader
  <2>4. CASE SetHead(c) \/ Walk(c) \/ Link(c) \/ Load(c) \/ Store(c)
    BY <1>1, <2>4
    DEF SetHead, Walk, Link, Load, Store, Reads, Moves, Returns, Searches, Goes, Reader
  <2>5. CASE Look(c) \/ Behead(c) \/ Find(c) \/ Unlink(c) \/ Cut(c)
    BY <1>1, <2>5
    DEF Look, Behead, Find, Unlink, Cut, Reads, Moves, Returns, Searches, Goes, Reader
  <2>6. CASE Destroy(c) \/ Drop(c)
    BY <1>1, <2>6 DEF Destroy, Drop, Reads, Moves, Goes, Reader
  <2> QED BY <1>2, <1>4, <2>1, <2>2, <2>3, <2>4, <2>5, <2>6 DEF Step
<1> QED BY <1>3, <1>4

\* While a reader that is not stale reads, the list of sessions stays, and a
\* session can only get a client behind the others.
Grows ==
    /\ Chains'[List] = Chains[List]
    /\ \A s \in Sessions :
          \/ Chains'[s] = Chains[s]
          \/ \E e \in Threads : Out(e) /\ Chains'[s] = Append(Chains[s], e)

LEMMA ReadersSee ==
    ASSUME AllInv, Races, [Next]_vars, ~clashed', NEW c \in Threads, Reader(c), c \notin stale
    PROVE  Grows
<1>0. op[c] = "READ"
  BY DEF AllInv, Place, Reader, Reading
<1>1. Chains' = Chains => Grows
  BY DEF Grows
<1>2. CASE UNCHANGED vars
  BY <1>1, <1>2, ChainsStay DEF vars, heap
<1>3. CASE Next
  <2>1. PICK d \in Threads :
           BeginJoin(d) \/ BeginNew(d) \/ BeginLeave(d) \/ BeginRead(d) \/ Step(d)
    BY <1>3 DEF Next
  <2>2. fault = "none" /\ Races' /\ Strays
    BY <1>3, RacesKept DEF Next
  <2>3. CASE BeginJoin(d) \/ BeginNew(d) \/ BeginLeave(d) \/ BeginRead(d)
    BY <1>1, <2>2, <2>3, BeginJoinStep, BeginNewStep, BeginLeaveStep, BeginReadStep
  <2>4. CASE SetHead(d) \/ Link(d)
    <3>1. Linked(d)
      BY <2>2, <2>4, SetHeadLinks, LinkLinks
    <3>2. PICK own, y : own = loc[d].own /\ y = loc[d].node
      OBVIOUS
    <3>3. Grown(d, own, y) /\ Appending(d, loc[d]) /\ pc[d] \in {"head", "link"}
      BY <3>1, <3>2, LinkedMeans DEF Linked
    <3>4. d # c /\ pc[c] # "idle"
      BY <3>3 DEF Reader
    <3>5. own # List
      BY <3>2, <3>3, <3>4, LinkerAlone
    <3>6. own \in Sessions /\ y = d /\ Out(d)
      BY <3>2, <3>3, <3>5, Apart DEF Grown, Appending
    <3>7. /\ \A x \in Owners : x # own => Chains'[x] = Chains[x]
          /\ Chains'[own] = Append(Chains[own], d)
      BY <3>3, <3>6 DEF Grown
    <3> HIDE DEF Out
    <3> QED BY <3>5, <3>6, <3>7, Apart DEF Grows
  <2>5. CASE Behead(d) \/ Unlink(d) \/ Destroy(d) \/ Drop(d)
    <3>1. pc[d] \in {"behead", "unlink", "destroy", "drop"} /\ Place(d)
      BY <2>5 DEF Behead, Unlink, Destroy, Drop, AllInv
    <3>2. op[d] \in {"LEAVE", "destroy"}
      BY <3>1 DEF Place, Removing, Dropping
    <3>3. c # d /\ pc[c] # "idle"
      BY <3>1 DEF Reader
    <3> QED BY <3>1, <3>2, <3>3, Alone
  <2>6. CASE \/ Search(d) \/ Lock(d) \/ Unlock(d) \/ Enter(d) \/ AppendTo(d) \/ Walk(d)
    BY <1>1, <2>2, <2>6, SearchStep, StaleSearchStep, LockStep, UnlockStep, EnterStep, AppendToStep, WalkStep
  <2>7. CASE \/ Load(d) \/ Store(d) \/ Look(d) \/ Find(d) \/ Cut(d)
    BY <1>1, <2>2, <2>7, LoadStep, StoreStep, LookStep, FindStep, CutStep
  <2>8. CASE NextSession(d) \/ NextMember(d)
    BY <1>1, <2>2, <2>8, NextSessionStep, NextMemberStep, StaleSessionStep, StaleMemberStep
  <2> QED BY <2>1, <2>3, <2>4, <2>5, <2>6, <2>7, <2>8 DEF Step
<1> QED BY <1>2, <1>3

\* Where a reader is, and how far the session it is at is counted.
LEMMA ReaderPlace ==
    ASSUME AllInv, NEW c \in Threads, Reader(c), c \notin stale
    PROVE  LET L == Chains[List]
               l == loc[c]
           IN  /\ TypeInv /\ ListInv /\ Tracking(c, l) /\ l \in Locals /\ l.i \in Nat /\ l.n \in Nat
               /\ L \in Seq(Sessions) /\ Len(L) \in Nat /\ l.i <= Len(L) /\ owed[c] \subseteq Threads
               /\ seen[c] \in Seq(Threads)
               /\ \A j \in 1..Len(L) : L[j] \in Sessions /\ L[j] \in Owners
               /\ \A i, j \in 1..Len(L) : L[i] = L[j] => i = j
               /\ pc[c] = "members" =>
                     /\ l.own \in Sessions /\ l.own \in Owners /\ l.i + 1 \in 1..Len(L)
                     /\ l.own = L[l.i + 1]
                     /\ Len(Chains[l.own]) \in Nat /\ l.n <= Len(Chains[l.own])
<1> DEFINE L == Chains[List]
           l == loc[c]
<1>1. TypeInv /\ ListInv /\ Tracking(c, l) /\ l \in Locals /\ l.i \in Nat /\ l.n \in Nat
      /\ owed[c] \subseteq Threads /\ seen[c] \in Seq(Threads)
  BY DEF AllInv, TypeInv, Place, Reader, Reading, Locals
<1>2. L \in Seq(Sessions) /\ Len(L) \in Nat /\ \A i, j \in 1..Len(L) : L[i] = L[j] => i = j
  BY <1>1, Apart DEF ListInv, Path
<1>3. \A j \in 1..Len(L) : L[j] \in Sessions /\ L[j] \in Owners
  BY <1>2, Apart
<1>4. l.i <= Len(L)
  BY <1>1, <1>2 DEF Tracking, Reader
<1>5. CASE pc[c] = "members"
  <2>1. l.i < Len(L) /\ l.own = L[l.i + 1]
    BY <1>1, <1>5 DEF Tracking
  <2>2. l.i + 1 \in 1..Len(L)
    BY <1>1, <1>2, <2>1
  <2>3. l.own \in Sessions /\ l.own \in Owners /\ Len(Chains[l.own]) \in Nat
    BY <1>1, <1>3, <2>1, <2>2, ListFacts
  <2>4. l.n <= Len(Chains[l.own])
    BY <1>1, <1>5, <2>3 DEF Tracking
  <2> QED BY <1>1, <1>2, <1>3, <1>4, <2>1, <2>2, <2>3, <2>4
<1>6. CASE pc[c] # "members"
  BY <1>1, <1>2, <1>3, <1>4, <1>6
<1> QED BY <1>5, <1>6

LEMMA OwedCounted ==
    ASSUME AllInv, Races, NEW c \in Threads, pc[c] = "members", c \notin stale,
           NEW k \in 1..Len(Chains[loc[c].own]), Chains[loc[c].own][k] \in owed[c]
    PROVE  k <= size[loc[c].own]
<1> DEFINE x == loc[c].own
<1>1. /\ x \in Sessions /\ x \in Owners /\ x # List /\ Len(Chains[x]) \in Nat
      /\ Tracking(c, loc[c]) /\ loc[c].i + 1 \in 1..Len(Chains[List])
      /\ x = Chains[List][loc[c].i + 1]
  BY ReaderPlace, Apart DEF Reader
<1>2. x \notin freed /\ size[x] \in Nat
  <2>1. In(x, Chains[List])
    BY <1>1 DEF In
  <2> QED BY <1>1, <2>1, Live, Apart DEF AllInv, TypeInv
<1>3. CASE ~Changing(x)
  BY <1>1, <1>2, <1>3 DEF AllInv, CountInv
<1>4. CASE Changing(x)
  <2>1. PICK d \in Threads :
           \/ pc[d] \in {"cut", "load", "store"} /\ loc[d].own = x
           \/ pc[d] \in {"drop", "cut", "load", "store"} /\ loc[d].node = x
    BY <1>4 DEF Changing
  <2>2. op[d] \in Ops /\ pc[d] # "idle" /\ d # c /\ Place(d) /\ pc[d] \in {"cut", "load", "store", "drop"}
    BY <2>1, Kept DEF AllInv
  <2>3. op[d] \notin {"NEW_SESS", "LEAVE", "destroy"}
    <3>1. ~Unlocked(d)
      BY <2>2, Meets DEF AllInv
    <3> QED BY <2>2, <3>1 DEF Unlocked
  <2>4. Counting(d, loc[d])
    BY <2>2, <2>3 DEF Place, Dropping
  <2>5. /\ loc[d].own \in Sessions /\ loc[d].node = d /\ pc[d] \in {"load", "store"}
        /\ size[loc[d].own] = Len(Chains[loc[d].own]) - 1
        /\ Chains[loc[d].own][Len(Chains[loc[d].own])] = d
    <3>1. pc[d] # "drop"
      BY <2>2, <2>3 DEF Place, Dropping
    <3> QED BY <2>2, <2>3, <2>4, <3>1 DEF Counting
  <2>6. loc[d].own = x
    BY <1>1, <2>1, <2>5, Apart
  <2>7. d \notin owed[c]
    <3>1. \A e \in owed[c] : pc[e] \notin {"load", "store"}
      BY <1>1 DEF Tracking
    <3> QED BY <2>5, <3>1
  <2>8. k # Len(Chains[x])
    BY <2>5, <2>6, <2>7
  <2> QED BY <1>1, <2>5, <2>6, <2>8
<1> QED BY <1>3, <1>4

\* What others do meanwhile.
LEMMA VisitedStays ==
    ASSUME AllInv, NEW c \in Threads, Reader(c), c \notin stale, Visited(c), Grows,
           pc'[c] = pc[c], loc'[c] = loc[c], owed'[c] = owed[c], seen'[c] = seen[c]
    PROVE  Visited(c)'
<1> DEFINE L == Chains[List]
           l == loc[c]
<1>1. /\ Tracking(c, l) /\ l.i \in Nat /\ l.n \in Nat /\ ListInv /\ TypeInv
      /\ Len(L) \in Nat /\ l.i <= Len(L) /\ owed[c] \subseteq Threads
      /\ \A j \in 1..Len(L) : L[j] \in Sessions
      /\ pc[c] = "members" =>
            l.own \in Sessions /\ Len(Chains[l.own]) \in Nat /\ l.n <= Len(Chains[l.own])
  BY ReaderPlace
<1>2. Chains'[List] = L
  BY DEF Grows
<1>3. ASSUME NEW s \in Sessions
      PROVE  /\ Len(Chains[s]) \in Nat
             /\ \A k \in 1..Len(Chains[s]) : Chains'[s][k] = Chains[s][k]
             /\ \A z : In(z, Chains[s]) => In(z, Chains'[s])
             /\ \A z \in owed[c] : In(z, Chains'[s]) => In(z, Chains[s])
  <2>1. s \in Owners /\ Chains[s] \in Seq(Nodes) /\ Len(Chains[s]) \in Nat
    BY <1>1, Apart, ListFacts
  <2>2. CASE Chains'[s] = Chains[s]
    BY <2>1, <2>2
  <2>3. CASE \E e \in Threads : Out(e) /\ Chains'[s] = Append(Chains[s], e)
    <3>1. PICK e \in Threads : Out(e) /\ Chains'[s] = Append(Chains[s], e)
      BY <2>3
    <3>2. e \notin owed[c] /\ e \in Nodes
      <4>1. \A z \in owed[c] : ~Out(z)
        <5> HIDE DEF Out
        <5> QED BY <1>1 DEF Tracking
      <4> HIDE DEF Out
      <4> QED BY <3>1, <4>1, Apart
    <3>3. /\ \A k \in 1..Len(Chains[s]) : Chains'[s][k] = Chains[s][k]
          /\ \A z : In(z, Chains'[s]) <=> In(z, Chains[s]) \/ z = e
      BY <2>1, <3>1, <3>2, AppendMeans
    <3> QED BY <2>1, <3>2, <3>3
  <2> QED BY <2>2, <2>3 DEF Grows
<1>4. \A j \in 1..l.i : j \in 1..Len(L) /\ L[j] \in Sessions
  BY <1>1
<1>5. \A i, j \in 1..Len(seen[c]) : seen[c][i] = seen[c][j] => i = j
  BY DEF Visited
<1>6. \A j \in 1..l.i : \A e \in owed[c] : In(e, Chains'[L[j]]) => In(e, seen[c])
  <2>1. \A j \in 1..l.i : \A e \in owed[c] : In(e, Chains[L[j]]) => In(e, seen[c])
    BY DEF Visited
  <2> QED BY <1>3, <1>4, <2>1
<1>7. pc[c] = "members" => \A k \in 1..l.n : Chains'[l.own][k] = Chains[l.own][k]
  BY <1>1, <1>3
<1>8. pc[c] = "members" => \A k \in 1..l.n : In(Chains'[l.own][k], seen[c])
  BY <1>7 DEF Visited
<1>9. \A e \in Threads : In(e, seen[c]) =>
         \/ \E j \in 1..l.i : In(e, Chains'[L[j]])
         \/ pc[c] = "members" /\ \E k \in 1..l.n : e = Chains'[l.own][k]
  <2>1. \A e \in Threads : In(e, seen[c]) =>
           \/ \E j \in 1..l.i : In(e, Chains[L[j]])
           \/ pc[c] = "members" /\ \E k \in 1..l.n : e = Chains[l.own][k]
    BY DEF Visited
  <2> QED BY <1>3, <1>4, <1>7, <2>1
<1> QED BY <1>2, <1>5, <1>6, <1>8, <1>9 DEF Visited

LEMMA BeginReadSees ==
    ASSUME AllInv, NEW c \in Threads, fault = "none", BeginRead(c)
    PROVE  Visited(c)'
<1>1. /\ pc' = [pc EXCEPT ![c] = "sessions"] /\ seen' = [seen EXCEPT ![c] = <<>>]
      /\ loc' = [loc EXCEPT ![c] = [loc[c] EXCEPT !.at = first[List], !.i = 0]]
  BY DEF BeginRead, Goes
<1>2. pc'[c] = "sessions" /\ seen'[c] = <<>> /\ loc'[c].i = 0
  <2>1. pc'[c] = "sessions" /\ seen'[c] = <<>>
    BY <1>1 DEF AllInv, TypeInv
  <2>2. loc[c] \in Locals /\ loc'[c] = [loc[c] EXCEPT !.at = first[List], !.i = 0]
    BY <1>1 DEF AllInv, TypeInv
  <2> QED BY <2>1, <2>2 DEF Locals
<1>3. \A e : ~In(e, seen'[c])
  BY <1>2 DEF In
<1> QED BY <1>2, <1>3 DEF Visited

LEMMA NextSessionSees ==
    ASSUME AllInv, Races, Strays, NEW c \in Threads, fault = "none", NextSession(c),
           c \notin stale, Visited(c)
    PROVE  /\ Reader(c)' => Visited(c)'
           /\ pc'[c] = "idle" => owed[c] \subseteq ToSet(seen[c]) /\ IsInjective(seen[c])
<1> DEFINE L == Chains[List]
           l == loc[c]
<1>1. /\ pc[c] = "sessions" /\ Tracking(c, l) /\ l \in Locals /\ l.i \in Nat /\ TypeInv /\ ListInv
      /\ Len(L) \in Nat /\ l.i <= Len(L) /\ seen[c] \in Seq(Threads) /\ owed[c] \subseteq Threads
  BY ReaderPlace DEF NextSession, Reader
<1>2. size[List] = Len(L) /\ Chains' = Chains
  BY <1>1, ListCount, NextSessionStep
<1>3. CASE l.i >= size[List]
  <2>1. pc'[c] = "idle"
    BY <1>1, <1>3 DEF NextSession, Goes, TypeInv
  <2>2. ASSUME NEW e \in owed[c] PROVE e \in ToSet(seen[c])
    <3>1. ~Out(e) /\ e \in Threads
      <4> HIDE DEF Out
      <4> QED BY <1>1 DEF Tracking
    <3>2. PICK s \in Sessions : In(e, Chains[s])
      BY <3>1 DEF Out
    <3>3. Chains[s] # <<>>
      BY <3>2 DEF In
    <3>4. In(s, L)
      BY <1>1, <3>3 DEF ListInv
    <3>5. PICK j \in 1..Len(L) : L[j] = s
      BY <3>4 DEF In
    <3>6. j \in 1..l.i
      BY <1>1, <1>2, <1>3
    <3>7. In(e, seen[c])
      BY <3>2, <3>5, <3>6 DEF Visited
    <3> QED BY <1>1, <3>7 DEF In, ToSet
  <2>3. IsInjective(seen[c])
    BY <1>1 DEF Visited, IsInjective
  <2> QED BY <2>1, <2>2, <2>3 DEF Reader
<1>4. CASE ~(l.i >= size[List])
  <2>1. pc'[c] # "idle"
    BY <1>1, <1>4 DEF NextSession, Reads, Moves, Goes, TypeInv
  <2>2. CASE l.at = NULL \/ l.at \in freed
    <3>1. UNCHANGED <<pc, loc, seen, owed>>
      BY <1>4, <2>2 DEF NextSession, Reads, history
    <3> QED BY <1>2, <2>1, <3>1 DEF Visited
  <2>3. CASE ~(l.at = NULL \/ l.at \in freed)
    <3> DEFINE m == [l EXCEPT !.own = l.at, !.node = first[l.at], !.n = 0]
    <3>1. Moves(c, "members", m)
      BY <1>4, <2>3 DEF NextSession, Reads
    <3>2. m.n = 0 /\ m.i = l.i
      BY <1>1 DEF Locals
    <3> HIDE DEF m
    <3>3. pc'[c] = "members" /\ loc'[c] = m /\ seen' = seen /\ owed' = owed
      BY <1>1, <3>1 DEF Moves, Goes, history, TypeInv
    <3>4. Visited(c)'
      <4>1. /\ \A j \in 1..l.i : \A e \in owed[c] : In(e, Chains[L[j]]) => In(e, seen[c])
            /\ \A e \in Threads : In(e, seen[c]) => \E j \in 1..l.i : In(e, Chains[L[j]])
            /\ \A i, j \in 1..Len(seen[c]) : seen[c][i] = seen[c][j] => i = j
        BY <1>1 DEF Visited
      <4>2. 1..m.n = {}
        BY <3>2
      <4> QED BY <1>2, <3>2, <3>3, <4>1, <4>2 DEF Visited
    <3> QED BY <2>1, <3>4
  <2> QED BY <2>2, <2>3
<1> QED BY <1>3, <1>4

LEMMA NextMemberSees ==
    ASSUME AllInv, Races, Strays, NEW c \in Threads, fault = "none", NextMember(c),
           c \notin stale, Visited(c)
    PROVE  pc'[c] # "idle" /\ Visited(c)'
<1> DEFINE L == Chains[List]
           l == loc[c]
           q == Chains[l.own]
           more == l.n < size[l.own]
<1>1. pc[c] = "members"
  BY DEF NextMember, Visits
<1>2. /\ Tracking(c, l) /\ l \in Locals /\ l.i \in Nat /\ l.n \in Nat /\ TypeInv /\ ListInv
      /\ Len(L) \in Nat /\ l.i <= Len(L) /\ seen[c] \in Seq(Threads) /\ owed[c] \subseteq Threads
      /\ \A j \in 1..Len(L) : L[j] \in Sessions /\ L[j] \in Owners
      /\ \A i, j \in 1..Len(L) : L[i] = L[j] => i = j
      /\ l.own \in Sessions /\ l.own \in Owners /\ l.i + 1 \in 1..Len(L) /\ l.own = L[l.i + 1]
      /\ Len(q) \in Nat /\ l.n <= Len(q)
  BY <1>1, ReaderPlace DEF Reader
<1>3. Chains' = Chains /\ size[l.own] \in Nat /\ size[l.own] <= Len(q)
  BY <1>1, NextMemberStep, ReaderCount
<1>4. /\ \A i, j \in 1..Len(seen[c]) : seen[c][i] = seen[c][j] => i = j
      /\ \A j \in 1..l.i : \A e \in owed[c] : In(e, Chains[L[j]]) => In(e, seen[c])
      /\ \A k \in 1..l.n : In(q[k], seen[c])
      /\ \A e \in Threads : In(e, seen[c]) =>
            (\E j \in 1..l.i : In(e, Chains[L[j]])) \/ \E k \in 1..l.n : e = q[k]
  BY <1>1 DEF Visited
<1>5. l.own # NULL /\ l.own \notin freed
  <2>1. In(l.own, L)
    BY <1>2 DEF In
  <2> QED BY <2>1, Live, Apart
\* The loop ends: those behind are not owed.
<1>6. CASE ~more
  <2> DEFINE m == [l EXCEPT !.at = nxt[l.own], !.i = @ + 1]
  <2>1. Moves(c, "sessions", m)
    BY <1>5, <1>6 DEF NextMember, Visits, Reads
  <2>2. m.i = l.i + 1
    BY <1>2 DEF Locals
  <2> HIDE DEF m
  <2>3. pc'[c] = "sessions" /\ loc'[c] = m /\ seen' = seen /\ owed' = owed
    BY <1>2, <2>1 DEF Moves, Goes, history, TypeInv
  <2>4. ASSUME NEW j \in 1..m.i, NEW e \in owed[c], In(e, Chains[L[j]]) PROVE In(e, seen[c])
    <3>1. CASE j \in 1..l.i
      BY <1>4, <2>4, <3>1
    <3>2. CASE j \notin 1..l.i
      <4>1. j = l.i + 1
        BY <1>2, <2>2, <3>2
      <4>2. PICK k \in 1..Len(q) : q[k] = e
        BY <1>2, <2>4, <4>1 DEF In
      <4>3. k <= size[l.own]
        BY <1>1, <4>2, OwedCounted
      <4>4. k \in 1..l.n
        BY <1>2, <1>3, <1>6, <4>3
      <4> QED BY <1>4, <4>2, <4>4
    <3> QED BY <3>1, <3>2
  <2>5. ASSUME NEW e \in Threads, In(e, seen[c]) PROVE \E j \in 1..m.i : In(e, Chains[L[j]])
    <3>1. \A j \in 1..l.i : j \in 1..m.i
      BY <1>2, <2>2
    <3>2. l.i + 1 \in 1..m.i
      BY <1>2, <2>2
    <3>3. \A k \in 1..l.n : In(q[k], Chains[L[l.i + 1]])
      BY <1>2 DEF In
    <3> QED BY <1>4, <2>5, <3>1, <3>2, <3>3
  <2> QED BY <1>3, <1>4, <2>3, <2>4, <2>5 DEF Visited
\* The next client is visited, and was not before.
<1>7. CASE more /\ l.node # NULL
  <2> DEFINE m == [l EXCEPT !.node = nxt[l.node], !.n = @ + 1]
             r == Append(seen[c], l.node)
  <2>1. l.n < Len(q) /\ l.node = q[l.n + 1]
    BY <1>1, <1>2, <1>7 DEF Tracking
  <2>2. l.n + 1 \in 1..Len(q) /\ In(l.node, q) /\ l.node \in Threads /\ l.node \notin freed
    <3>1. l.n + 1 \in 1..Len(q)
      BY <1>2, <2>1, SMTT(30)
    <3>2. In(l.node, q)
      BY <2>1, <3>1 DEF In
    <3>3. l.node \notin freed
      BY <1>2, <3>2, Live
    <3>4. l.node \in Threads
      BY <1>2, <2>1, <3>1, ListFacts
    <3> QED BY <3>1, <3>2, <3>3, <3>4
  <2>3. /\ seen' = [seen EXCEPT ![c] = r] /\ loc' = [loc EXCEPT ![c] = m]
        /\ UNCHANGED <<pc, owed>>
    <3>1. more /\ l.own \notin freed
      BY <1>5, <1>7
    <3> HIDE DEF more
    <3> QED BY <1>7, <2>2, <3>1 DEF NextMember, Visits, Reads, more
  <2>4. m.n = l.n + 1 /\ m.i = l.i /\ m.own = l.own
    <3>1. m = [[l EXCEPT !.node = nxt[l.node]] EXCEPT !.n = l.n + 1]
      BY <1>2 DEF Locals
    <3> QED BY <1>2, <3>1 DEF Locals
  <2> HIDE DEF m
  <2>5. pc'[c] = "members" /\ loc'[c] = m /\ seen'[c] = r /\ owed'[c] = owed[c]
    BY <1>1, <1>2, <2>3 DEF TypeInv
  <2>6. ~In(l.node, seen[c])
    <3>1. ASSUME NEW j \in 1..l.i, In(l.node, Chains[L[j]]) PROVE FALSE
      <4>1. j \in 1..Len(L) /\ L[j] \in Owners
        BY <1>2
      <4>2. L[j] = l.own
        BY <1>2, <2>2, <3>1, <4>1, ListFacts
      <4>3. j = l.i + 1
        BY <1>2, <4>1, <4>2
      <4> QED BY <1>2, <4>3
    <3>2. ASSUME NEW k \in 1..l.n, l.node = q[k] PROVE FALSE
      <4>1. k \in 1..Len(q)
        BY <1>2
      <4>2. \A i, j \in 1..Len(q) : q[i] = q[j] => i = j
        BY <1>2 DEF ListInv, Path
      <4>3. k = l.n + 1
        BY <2>1, <2>2, <3>2, <4>1, <4>2
      <4> QED BY <1>2, <4>3
    <3> QED BY <1>4, <2>2, <3>1, <3>2
  <2>7. /\ Len(r) = Len(seen[c]) + 1 /\ Len(seen[c]) \in Nat
        /\ r[Len(seen[c]) + 1] = l.node /\ \A i \in 1..Len(seen[c]) : r[i] = seen[c][i]
        /\ \A i \in 1..Len(r) : i \in 1..Len(seen[c]) \/ i = Len(seen[c]) + 1
        /\ \A x : In(x, r) <=> In(x, seen[c]) \/ x = l.node
    <3>1. seen[c] \in Seq(Nodes) /\ l.node \in Nodes
      BY <1>2, <2>2, Apart
    <3> QED BY <3>1, AppendMeans
  <2> HIDE DEF r
  <2>8. \A i, j \in 1..Len(r) : r[i] = r[j] => i = j
    BY <1>4, <2>6, <2>7 DEF In
  <2>9. \A k \in 1..m.n : In(q[k], r)
    <3>1. \A k \in 1..m.n : k \in 1..l.n \/ k = l.n + 1
      BY <1>2, <2>4
    <3> QED BY <1>4, <2>1, <2>7, <3>1
  <2>10. \A e \in Threads : In(e, r) =>
            (\E j \in 1..m.i : In(e, Chains[L[j]])) \/ \E k \in 1..m.n : e = q[k]
    <3>1. \A k \in 1..l.n : k \in 1..m.n
      BY <1>2, <2>4
    <3>2. l.n + 1 \in 1..m.n
      BY <1>2, <2>4
    <3> QED BY <1>4, <2>1, <2>4, <2>7, <3>1, <3>2
  <2>11. \A j \in 1..m.i : \A e \in owed[c] : In(e, Chains[L[j]]) => In(e, r)
    BY <1>4, <2>4, <2>7
  <2> QED BY <1>3, <2>4, <2>5, <2>8, <2>9, <2>10, <2>11 DEF Visited
\* The server ends.
<1>8. CASE more /\ l.node = NULL
  <2>1. UNCHANGED <<pc, loc, seen, owed>>
    BY <1>5, <1>8 DEF NextMember, Visits, Reads, history
  <2> QED BY <1>1, <1>3, <2>1 DEF Visited
<1> QED BY <1>6, <1>7, <1>8

LEMMA SeenStep ==
    ASSUME AllInv, Races, SeenInv, [Next]_vars, ~clashed'
    PROVE  /\ SeenInv'
           /\ \A c \in Threads : pc[c] = "sessions" /\ pc'[c] = "idle" /\ c \notin stale =>
                 owed[c] \subseteq ToSet(seen[c]) /\ IsInjective(seen[c])
<1>1. AllInv'
  BY NextStep
<1>2. ASSUME NEW c \in Threads
      PROVE  /\ Reader(c)' /\ c \notin stale' => Visited(c)'
             /\ pc[c] = "sessions" /\ pc'[c] = "idle" /\ c \notin stale =>
                   owed[c] \subseteq ToSet(seen[c]) /\ IsInjective(seen[c])
  <2>1. Reader(c) /\ c \notin stale => Visited(c) /\ Grows
    BY ReadersSee DEF SeenInv
  <2>2. CASE UNCHANGED vars
    <3>1. UNCHANGED <<pc, loc, owed, seen, stale>>
      BY <2>2 DEF vars, history, races
    <3>2. Reader(c)' <=> Reader(c)
      BY <3>1 DEF Reader
    <3>3. Reader(c) /\ c \notin stale => Visited(c)'
      BY <2>1, <3>1, VisitedStays
    <3> QED BY <3>1, <3>2, <3>3 DEF Reader
  <2>3. CASE Next
    <3>1. fault = "none" /\ Races' /\ Strays
      BY <2>3, RacesKept DEF Next
    <3>2. Reader(c) /\ Reader(c)' /\ c \in stale => c \in stale'
      <4>1. Reader(c)' => Looking(c)'
        BY <1>1 DEF AllInv, Place, Reader, Reading, Looking
      <4> QED BY <3>1, <4>1 DEF Strays
    <3>3. CASE BeginRead(c)
      <4>1. pc[c] = "idle"
        BY <3>3 DEF BeginRead, Begins
      <4> QED BY <3>1, <3>3, <4>1, BeginReadSees
    <3>4. CASE NextSession(c)
      <4>1. Reader(c)
        BY <3>4 DEF NextSession, Reader
      <4> QED BY <2>1, <3>1, <3>2, <3>4, <4>1, NextSessionSees
    <3>5. CASE NextMember(c)
      <4>1. Reader(c) /\ pc[c] # "sessions"
        BY <3>5 DEF NextMember, Visits, Reader
      <4> QED BY <2>1, <3>1, <3>2, <3>5, <4>1, NextMemberSees
    <3>6. CASE ~(BeginRead(c) \/ NextSession(c) \/ NextMember(c))
      <4>1. /\ pc'[c] = pc[c] \/ ~Reader(c)'
            /\ Reader(c) => /\ pc'[c] = pc[c] /\ loc'[c] = loc[c]
                            /\ owed'[c] = owed[c] /\ seen'[c] = seen[c]
        BY <1>1, <2>3, <3>6, OnlyOwn
      <4>2. Reader(c)' => Reader(c)
        BY <4>1 DEF Reader
      <4>3. Reader(c) /\ c \notin stale => Visited(c)'
        BY <2>1, <4>1, VisitedStays
      <4>4. pc[c] = "sessions" => Reader(c)
        BY DEF Reader
      <4> QED BY <3>2, <4>1, <4>2, <4>3, <4>4
    <3> QED BY <3>3, <3>4, <3>5, <3>6
  <2> QED BY <2>2, <2>3
<1> QED BY <1>2 DEF SeenInv

\* Until two changes clash, a MESSAGE or QUERY that no unlocked change has met
\* has visited, when it comes to the end of the sessions, once each, all who were
\* counted members when it began.
THEOREM MembersAreSeen == Spec => EveryMemberSeen
<1>1. Init => SeenInv
  <2>1. Init => \A c \in Threads : ~Reader(c)
    BY DEF Init, Reader
  <2> QED BY <2>1 DEF SeenInv
<1>2. (clashed \/ IInv) /\ (clashed \/ SeenInv) /\ [Next]_vars => (clashed \/ SeenInv)'
  BY RacesKept, SeenStep DEF Next, vars, races, IInv
<1>3. (clashed \/ IInv) /\ (clashed \/ SeenInv) /\ [Next]_vars =>
         [\A c \in Threads :
            pc[c] = "sessions" /\ pc'[c] = "idle" /\ ~clashed' /\ c \notin stale =>
               /\ owed[c] \subseteq ToSet(seen[c])
               /\ IsInjective(seen[c])]_vars
  BY RacesKept, SeenStep DEF Next, vars, races, IInv
<1> QED BY <1>1, <1>2, <1>3, Invariance, PTL DEF Spec, EveryMemberSeen

=============================================================================
