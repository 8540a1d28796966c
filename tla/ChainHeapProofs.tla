---------------------------- MODULE ChainHeapProofs ----------------------------
(***************************************************************************)
(* The chain of nodes and pointers is in order and implements HashTable,    *)
(* for any keys, and any memory of finite size.                             *)
(***************************************************************************)
EXTENDS ChainHeap, SequenceTheorems, FiniteSetTheorems, WellFoundedInduction, TLAPS

\* A set of natural numbers has a least one.
LEMMA SmallestOf ==
    ASSUME NEW T \in SUBSET Nat, T # {}
    PROVE  \E n \in T : \A m \in T : n <= m
<1>1. PICK n \in T : \A m \in T : ~(<<m, n>> \in OpToRel(<, Nat))
  BY NatLessThanWellFounded, WFMin
<1>2. \A m \in T : ~(m < n)
  BY <1>1 DEF OpToRel
<1> QED
  BY <1>2

-------------------------------------------------------------------------------
\* What holds of a chain.

\* The parts of h are of the right kinds.
IsHeap(h) ==
    /\ h = [head |-> h.head, node |-> h.node]
    /\ h.node = [a \in DOMAIN h.node |-> h.node[a]]
    /\ h.head \in Pointer
    /\ DOMAIN h.node \subseteq Addresses
    /\ \A a \in DOMAIN h.node : h.node[a] \in Node

\* Where the pointers of the nodes w lead, from the head on.
EndOf(h, w) == IF w = <<>> THEN h.head ELSE h.node[w[Len(w)]].next

\* The nodes w are joined by their next pointers, from the head on.
Joined(h, w) ==
    /\ w \in Seq(DOMAIN h.node)
    /\ \A i \in DOMAIN w : w[i] = IF i = 1 THEN h.head ELSE h.node[w[i - 1]].next
    /\ \A i, j \in DOMAIN w : w[i] = w[j] => i = j
    /\ EndOf(h, w) \notin DOMAIN h.node

Key(h, a) == h.node[a].element

Ascending(h, w) == \A i, j \in DOMAIN w : i < j => Key(h, w[i]) <= Key(h, w[j])

\* A previous pointer that names a node of the chain names one in front, the
\* rearmost of its key.
LooksBack(h, w) ==
    \A i, j \in DOMAIN w :
        w[j] = h.node[w[i]].previous => j < i /\ Key(h, w[j]) < Key(h, w[j + 1])

\* The nodes w are a chain: all of it, in order, and the first has no previous.
IsChain(h, w) ==
    /\ Joined(h, w) /\ EndOf(h, w) = NULL
    /\ Ascending(h, w)
    /\ LooksBack(h, w)
    /\ w # <<>> => h.node[h.head].previous = NULL

ChainOK(h) == IsHeap(h) /\ IsChain(h, Walk(h))

-------------------------------------------------------------------------------
\* The walk.

\* The nodes met from each pointer on, if the walk is over after n of them, given
\* those of shorter walks.
FromDef(h, g, n) ==
    [p \in Pointer |-> IF n = 0 \/ p \notin DOMAIN h.node THEN <<>>
                       ELSE <<p>> \o g[n - 1][h.node[p].next]]

\* The recursion of the walk has a solution, for any heap.
LEMMA WalksAreDefined ==
    ASSUME NEW h, NEW N \in Nat
    PROVE  \E f : f = [n \in 0 .. N |-> FromDef(h, f, n)]
<1> DEFINE Solved(n) == \E f : f = [m \in 0 .. n |-> FromDef(h, f, m)]
           T == {n \in Nat : ~Solved(n)}
<1>1. ASSUME T # {} PROVE FALSE
  <2>1. T \in SUBSET Nat
    OBVIOUS
  <2>2. PICK n \in T : \A m \in T : n <= m
    <3> HIDE DEF T
    <3> QED BY <1>1, <2>1, SmallestOf
  <2>3. n \in Nat /\ ~Solved(n)
    BY <2>2
  <2>4. CASE n = 0
    <3> DEFINE f == [m \in 0 .. 0 |-> [p \in Pointer |-> <<>>]]
    <3>1. ASSUME NEW m \in 0 .. 0 PROVE FromDef(h, f, m) = [p \in Pointer |-> <<>>]
      <4>1. m = 0
        OBVIOUS
      <4> QED BY <4>1 DEF FromDef
    <3>2. f = [m \in 0 .. 0 |-> FromDef(h, f, m)]
      BY <3>1
    <3> QED BY <2>3, <2>4, <3>2
  <2>5. CASE n # 0
    <3>1. n - 1 \in Nat /\ n - 1 \notin T
      <4>1. n - 1 \in Nat /\ ~(n <= n - 1)
        BY <2>3, <2>5
      <4> HIDE DEF T
      <4> QED BY <2>2, <4>1
    <3>2. PICK g : g = [m \in 0 .. n - 1 |-> FromDef(h, g, m)]
      BY <3>1
    <3> DEFINE f == [m \in 0 .. n |-> IF m < n THEN g[m] ELSE FromDef(h, g, n)]
    <3>3. ASSUME NEW m \in 0 .. n PROVE FromDef(h, f, m) = FromDef(h, g, m)
      <4>1. CASE m = 0
        BY <4>1 DEF FromDef
      <4>2. CASE m # 0
        <5>1. m - 1 \in 0 .. n /\ m - 1 < n
          BY <2>3, <4>2
        <5>2. f[m - 1] = g[m - 1]
          BY <5>1
        <5> HIDE DEF f
        <5> QED BY <4>2, <5>2 DEF FromDef
      <4> QED BY <4>1, <4>2
    <3>4. ASSUME NEW m \in 0 .. n PROVE f[m] = FromDef(h, g, m)
      <4>1. CASE m < n
        <5>1. m \in 0 .. n - 1
          BY <2>3, <4>1
        <5>2. f[m] = g[m]
          BY <4>1
        <5> HIDE DEF f
        <5> QED BY <3>2, <5>1, <5>2
      <4>2. CASE ~(m < n)
        <5>1. m = n
          BY <2>3, <4>2
        <5> QED BY <4>2, <5>1
      <4> QED BY <4>1, <4>2
    <3>5. f = [m \in 0 .. n |-> f[m]]
      OBVIOUS
    <3> HIDE DEF f
    <3>6. f = [m \in 0 .. n |-> FromDef(h, f, m)]
      BY <3>3, <3>4, <3>5
    <3> QED BY <2>3, <3>6
  <2> QED BY <2>4, <2>5
<1>2. Solved(N)
  BY <1>1
<1> QED
  BY <1>2

\* Nodes joined from the head on, to a pointer that names no node, are what the
\* walk meets.
LEMMA WalkIs ==
    ASSUME NEW h, IsHeap(h), NEW w, Joined(h, w)
    PROVE  Walk(h) = w /\ Len(w) <= Cardinality(DOMAIN h.node)
<1> DEFINE N == Cardinality(DOMAIN h.node)
           L == Len(w)
           from == CHOOSE f : f = [n \in 0 .. N |-> FromDef(h, f, n)]
           P(i) == IF i < L THEN w[i + 1] ELSE EndOf(h, w)
           T == {d \in 0 .. L : from[N - (L - d)][P(L - d)] # SubSeq(w, L - d + 1, L)}
<1>1. IsFiniteSet(DOMAIN h.node) /\ N \in Nat
  <2>1. IsFiniteSet(DOMAIN h.node)
    BY MemoryAssumption, FS_Subset DEF IsHeap
  <2> QED BY <2>1, FS_CardinalityType
<1>2. L \in Nat /\ w \in [1 .. L -> DOMAIN h.node] /\ w \in Seq(DOMAIN h.node) /\ DOMAIN w = 1 .. L
  BY DEF Joined
<1>3. L <= N
  <2>1. w \in Injection(1 .. L, DOMAIN h.node)
    BY <1>2 DEF Joined, Injection, IsInjective
  <2>2. Cardinality(1 .. L) <= N
    BY <1>1, <2>1, FS_Injection
  <2> QED BY <1>2, <2>2, FS_Interval
<1>4. from = [n \in 0 .. N |-> FromDef(h, from, n)]
  BY <1>1, WalksAreDefined
<1>5. Walk(h) = from[N][h.head]
  BY DEF Walk, FromDef
<1> HIDE DEF N, L, from
<1>6. /\ \A i \in 0 .. L : P(i) \in Pointer
      /\ P(0) = h.head
      /\ \A i \in 0 .. L - 1 : P(i) \in DOMAIN h.node /\ h.node[P(i)].next = P(i + 1)
      /\ P(L) \notin DOMAIN h.node
  <2>1. P(L) = EndOf(h, w) /\ EndOf(h, w) \notin DOMAIN h.node
    BY <1>2 DEF Joined
  <2>2. P(0) = h.head
    <3>1. CASE L = 0
      <4>1. w = <<>>
        BY <3>1, <1>2, EmptySeq DEF L
      <4> QED BY <3>1, <4>1 DEF EndOf
    <3>2. CASE L # 0
      <4>1. 1 \in DOMAIN w /\ 0 < L /\ 0 + 1 = 1
        BY <3>2, <1>2
      <4>2. w[1] = h.head
        BY <4>1 DEF Joined
      <4> QED BY <4>1, <4>2
    <3> QED BY <3>1, <3>2
  <2>3. ASSUME NEW i \in 0 .. L - 1
        PROVE  P(i) \in DOMAIN h.node /\ h.node[P(i)].next = P(i + 1)
    <3>1. i < L /\ i + 1 \in 1 .. L /\ P(i) = w[i + 1]
      BY <1>2
    <3>2. w[i + 1] \in DOMAIN h.node
      BY <1>2, <3>1
    <3>3. CASE i + 1 < L
      <4>1. i + 2 \in DOMAIN w /\ i + 2 # 1 /\ (i + 2) - 1 = i + 1 /\ P(i + 1) = w[i + 2]
        BY <3>3, <1>2
      <4>2. w[i + 2] = h.node[w[i + 1]].next
        BY <4>1 DEF Joined
      <4> QED BY <3>1, <3>2, <4>1, <4>2
    <3>4. CASE ~(i + 1 < L)
      <4>1. i + 1 = L /\ w # <<>> /\ P(i + 1) = EndOf(h, w)
        BY <3>4, <1>2, <3>1
      <4>2. EndOf(h, w) = h.node[w[i + 1]].next
        BY <4>1 DEF EndOf, L
      <4> QED BY <3>1, <3>2, <4>1, <4>2
    <3> QED BY <3>3, <3>4
  <2>4. ASSUME NEW i \in 0 .. L PROVE P(i) \in Pointer
    <3>1. CASE i < L
      <4>1. i \in 0 .. L - 1
        BY <3>1, <1>2
      <4> QED BY <4>1, <2>3 DEF IsHeap, Pointer
    <3>2. CASE ~(i < L) /\ i # 0
      <4>1. i - 1 \in 0 .. L - 1 /\ (i - 1) + 1 = i
        BY <3>2, <1>2
      <4>2. P(i - 1) \in DOMAIN h.node /\ h.node[P(i - 1)].next = P(i)
        BY <2>3, <4>1
      <4> HIDE DEF P
      <4>3. h.node[P(i - 1)] \in Node
        BY <4>2 DEF IsHeap
      <4> QED BY <4>2, <4>3 DEF Node
    <3>3. CASE i = 0
      BY <2>2, <3>3 DEF IsHeap
    <3> QED BY <3>1, <3>2, <3>3
  <2> HIDE DEF P
  <2> QED BY <2>1, <2>2, <2>3, <2>4
<1> HIDE DEF P
<1>7. ASSUME T # {} PROVE FALSE
  <2>1. PICK d \in T : \A e \in T : d <= e
    <3>1. T \in SUBSET Nat
      BY <1>2
    <3> HIDE DEF T
    <3> QED BY <1>7, <3>1, SmallestOf
  <2>2. d \in 0 .. L /\ from[N - (L - d)][P(L - d)] # SubSeq(w, L - d + 1, L)
    BY <2>1
  <2>3. N - (L - d) \in 0 .. N /\ L - d \in 0 .. L
    BY <1>1, <1>2, <1>3, <2>2
  <2>4. from[N - (L - d)] = FromDef(h, from, N - (L - d))
    BY <1>4, <2>3
  <2>5. from[N - (L - d)][P(L - d)] =
            IF N - (L - d) = 0 \/ P(L - d) \notin DOMAIN h.node THEN <<>>
            ELSE <<P(L - d)>> \o from[N - (L - d) - 1][h.node[P(L - d)].next]
    BY <1>6, <2>3, <2>4 DEF FromDef
  <2>6. CASE d = 0
    <3>1. P(L - d) \notin DOMAIN h.node
      BY <1>2, <1>6, <2>6
    <3>2. SubSeq(w, L - d + 1, L) = <<>>
      BY <1>2, <2>6
    <3> QED BY <2>2, <2>5, <3>1, <3>2
  <2>7. CASE d # 0
    <3>1. /\ L - d \in 0 .. L - 1 /\ d - 1 \in 0 .. L /\ d - 1 < d
          /\ L - (d - 1) = L - d + 1 /\ N - (L - (d - 1)) = N - (L - d) - 1
          /\ N - (L - d) # 0
      BY <1>1, <1>2, <1>3, <2>2, <2>7
    <3>2. d - 1 \notin T
      <4> HIDE DEF T
      <4> QED BY <2>1, <2>2, <3>1, <1>2
    <3>3. from[N - (L - d) - 1][P(L - d + 1)] = SubSeq(w, L - d + 2, L)
      <4>1. from[N - (L - (d - 1))][P(L - (d - 1))] = SubSeq(w, L - (d - 1) + 1, L)
        BY <3>1, <3>2
      <4>2. L - (d - 1) + 1 = L - d + 2
        BY <1>2, <2>2
      <4> QED BY <3>1, <4>1, <4>2
    <3>4. P(L - d) \in DOMAIN h.node /\ h.node[P(L - d)].next = P(L - d + 1)
      BY <1>6, <3>1
    <3>5. from[N - (L - d)][P(L - d)] = <<P(L - d)>> \o SubSeq(w, L - d + 2, L)
      BY <2>5, <3>1, <3>3, <3>4
    <3>6. P(L - d) = w[L - d + 1]
      BY <1>2, <3>1 DEF P
    <3>7. <<w[L - d + 1]>> \o SubSeq(w, L - d + 2, L) = SubSeq(w, L - d + 1, L)
      BY <1>2, <3>1
    <3> QED BY <2>2, <3>5, <3>6, <3>7
  <2> QED BY <2>6, <2>7
<1>8. from[N - L + L][P(0)] = SubSeq(w, 1, L)
  <2>1. L \in 0 .. L /\ L - L = 0 /\ L - L + 1 = 1 /\ N - (L - L) = N - L + L
    BY <1>1, <1>2
  <2>2. L \notin T
    <3> HIDE DEF T
    <3> QED BY <1>7
  <2>3. from[N - (L - L)][P(L - L)] = SubSeq(w, L - L + 1, L)
    BY <2>1, <2>2
  <2> QED BY <2>1, <2>3
<1>9. SubSeq(w, 1, L) = w
  BY <1>2
<1> QED
  BY <1>1, <1>2, <1>3, <1>5, <1>6, <1>8, <1>9 DEF L, N

\* What holds of the nodes of a chain, counted from the head.
LEMMA ChainFacts ==
    ASSUME NEW h, ChainOK(h)
    PROVE  LET w == Walk(h)
               L == Len(w)
           IN  /\ L \in Nat /\ DOMAIN w = 1 .. L /\ w \in Seq(DOMAIN h.node)
               /\ \A i \in 1 .. L : /\ w[i] \in DOMAIN h.node /\ w[i] \in Addresses
                                    /\ h.node[w[i]] \in Node
                                    /\ Key(h, w[i]) \in Keys /\ Key(h, w[i]) \in Nat
                                    /\ h.node[w[i]].next \in Pointer
                                    /\ h.node[w[i]].previous \in Pointer
               /\ \A i, j \in 1 .. L : w[i] = w[j] => i = j
               /\ L = 0 => h.head = NULL
               /\ L # 0 => h.head = w[1] /\ h.node[w[L]].next = NULL
               /\ \A i \in 1 .. L - 1 : h.node[w[i]].next = w[i + 1]
               /\ \A i, j \in 1 .. L : i < j => Key(h, w[i]) <= Key(h, w[j])
               /\ L # 0 => h.node[w[1]].previous = NULL
               /\ Range(w) = {w[i] : i \in 1 .. L}
<1> DEFINE w == Walk(h)
           L == Len(w)
<1>1. IsHeap(h) /\ IsChain(h, w)
  BY DEF ChainOK
<1>2. w \in Seq(DOMAIN h.node) /\ L \in Nat /\ DOMAIN w = 1 .. L
  BY <1>1 DEF IsChain, Joined
<1> HIDE DEF w
<1>3. ASSUME NEW i \in 1 .. L
      PROVE  /\ w[i] \in DOMAIN h.node /\ w[i] \in Addresses
             /\ h.node[w[i]] \in Node
             /\ Key(h, w[i]) \in Keys /\ Key(h, w[i]) \in Nat
             /\ h.node[w[i]].next \in Pointer /\ h.node[w[i]].previous \in Pointer
  <2>1. w[i] \in DOMAIN h.node
    BY <1>2
  <2>2. h.node[w[i]] \in Node /\ w[i] \in Addresses
    BY <1>1, <2>1 DEF IsHeap
  <2> QED BY <2>1, <2>2, KeysAssumption DEF Node, Key
<1>4. L = 0 => h.head = NULL
  <2>1. L = 0 => w = <<>>
    BY <1>2, EmptySeq
  <2> QED BY <2>1, <1>1 DEF IsChain, EndOf
<1>5. L # 0 => h.head = w[1] /\ h.node[w[L]].next = NULL /\ h.node[w[1]].previous = NULL
  <2>1. L # 0 => w # <<>> /\ 1 \in DOMAIN w
    BY <1>2
  <2> QED BY <2>1, <1>1 DEF IsChain, EndOf, Joined
<1>6. ASSUME NEW i \in 1 .. L - 1 PROVE h.node[w[i]].next = w[i + 1]
  <2>1. i + 1 \in DOMAIN w /\ i + 1 # 1 /\ (i + 1) - 1 = i
    BY <1>2
  <2> QED BY <2>1, <1>1 DEF IsChain, Joined
<1>7. /\ \A i, j \in 1 .. L : w[i] = w[j] => i = j
      /\ \A i, j \in 1 .. L : i < j => Key(h, w[i]) <= Key(h, w[j])
      /\ Range(w) = {w[i] : i \in 1 .. L}
  BY <1>1, <1>2 DEF IsChain, Joined, Ascending, Range
<1> QED
  BY <1>2, <1>3, <1>4, <1>5, <1>6, <1>7 DEF w

\* The least of a set of natural numbers.
LEMMA MinIs ==
    ASSUME NEW S \in SUBSET Nat, S # {}
    PROVE  Min(S) \in S /\ \A y \in S : Min(S) <= y
<1>1. \E x \in S : \A y \in S : x =< y
  BY SmallestOf
<1> QED
  BY <1>1 DEF Min

\* Where hashing_insert stops, and findposn.
LEMMA Places ==
    ASSUME NEW h, ChainOK(h), NEW k \in Keys
    PROVE  LET w == Walk(h)
               i == FirstNotBelow(h, k)
               j == Lookup(h, k)
           IN  /\ i \in 0 .. Len(w)
               /\ i = 0 => \A n \in 1 .. Len(w) : Key(h, w[n]) < k
               /\ i # 0 => Key(h, w[i]) >= k /\ \A n \in 1 .. i - 1 : Key(h, w[n]) < k
               /\ j \in 0 .. Len(w)
               /\ j = 0 => \A n \in 1 .. Len(w) : Key(h, w[n]) # k
               /\ j # 0 => Key(h, w[j]) = k /\ \A n \in 1 .. j - 1 : Key(h, w[n]) # k
<1> DEFINE w == Walk(h)
           I == {n \in 1 .. Len(w) : Key(h, w[n]) >= k}
           J == {n \in 1 .. Len(w) : Key(h, w[n]) = k}
<1>1. Len(w) \in Nat /\ k \in Nat /\ \A n \in 1 .. Len(w) : Key(h, w[n]) \in Nat
  BY ChainFacts, KeysAssumption
<1>2. /\ FirstNotBelow(h, k) = IF I # {} THEN Min(I) ELSE 0
      /\ Lookup(h, k) = IF J # {} THEN Min(J) ELSE 0
  BY DEF FirstNotBelow, Lookup, SelectInSeq, Key
<1> HIDE DEF w
<1>3. /\ I # {} => Min(I) \in I /\ \A y \in I : Min(I) <= y
      /\ J # {} => Min(J) \in J /\ \A y \in J : Min(J) <= y
  <2>1. I \in SUBSET Nat /\ J \in SUBSET Nat
    BY <1>1
  <2> HIDE DEF I, J
  <2> QED BY <2>1, MinIs
<1> DEFINE i == FirstNotBelow(h, k)
           j == Lookup(h, k)
<1>4. /\ i \in 0 .. Len(w)
      /\ i = 0 => \A n \in 1 .. Len(w) : Key(h, w[n]) < k
      /\ i # 0 => Key(h, w[i]) >= k /\ \A n \in 1 .. i - 1 : Key(h, w[n]) < k
  <2>1. CASE I = {}
    BY <1>1, <1>2, <2>1
  <2>2. CASE I # {}
    <3>1. i \in I /\ \A y \in I : i <= y
      BY <1>2, <1>3, <2>2
    <3>2. i \in 1 .. Len(w) /\ Key(h, w[i]) >= k
      BY <3>1
    <3>3. ASSUME NEW n \in 1 .. i - 1 PROVE Key(h, w[n]) < k
      <4>1. n \in 1 .. Len(w) /\ ~(i <= n)
        BY <1>1, <3>2
      <4>2. n \notin I
        BY <3>1, <4>1
      <4> QED BY <1>1, <4>1, <4>2
    <3> QED BY <1>1, <3>2, <3>3
  <2> QED BY <2>1, <2>2
<1>5. /\ j \in 0 .. Len(w)
      /\ j = 0 => \A n \in 1 .. Len(w) : Key(h, w[n]) # k
      /\ j # 0 => Key(h, w[j]) = k /\ \A n \in 1 .. j - 1 : Key(h, w[n]) # k
  <2>1. CASE J = {}
    BY <1>1, <1>2, <2>1
  <2>2. CASE J # {}
    <3>1. j \in J /\ \A y \in J : j <= y
      BY <1>2, <1>3, <2>2
    <3>2. j \in 1 .. Len(w) /\ Key(h, w[j]) = k
      BY <3>1
    <3>3. ASSUME NEW n \in 1 .. j - 1 PROVE Key(h, w[n]) # k
      <4>1. n \in 1 .. Len(w) /\ ~(j <= n)
        BY <1>1, <3>2
      <4> QED BY <3>1, <4>1
    <3> QED BY <1>1, <3>2, <3>3
  <2> QED BY <2>1, <2>2
<1> QED
  BY <1>4, <1>5 DEF w

-------------------------------------------------------------------------------
\* The bucket a chain is to HashTable.

\* No node of the chain w in front of the i-th has its key.
Foremost(h, w, i) == \A n \in 1 .. i - 1 : Key(h, w[n]) # Key(h, w[i])

\* The nodes of the chain w that carry the key k.
NodesOf(h, w, k) == {a \in Range(w) : Key(h, a) = k}

\* A pointer to a node of the chain is its key, whichever place it has.
LEMMA LinkIs ==
    ASSUME NEW h, ChainOK(h), NEW p
    PROVE  /\ p = NULL => Link(h, p) = NULL
           /\ \A j \in 1 .. Len(Walk(h)) : p = Walk(h)[j] => Link(h, p) = Key(h, p)
           /\ p # NULL /\ p \notin Range(Walk(h)) => Link(h, p) = Stale
<1>1. ASSUME NEW j \in 1 .. Len(Walk(h)), p = Walk(h)[j] PROVE Link(h, p) = Key(h, p)
  <2>1. p \in Range(Walk(h)) /\ p \in Addresses
    BY <1>1, ChainFacts
  <2> QED BY <2>1, PointerAssumption DEF Link, Key
<1> QED
  BY <1>1 DEF Link

\* A key of the chain has the previous of the foremost of its nodes.
LEMMA BucketOf ==
    ASSUME NEW h, ChainOK(h)
    PROVE  LET w == Walk(h)
               b == AsBucket(h)
           IN  /\ b = [x \in DOMAIN b |-> b[x]]
               /\ DOMAIN b = {Key(h, w[i]) : i \in 1 .. Len(w)}
               /\ \A x \in DOMAIN b : \E i \in 1 .. Len(w) : x = Key(h, w[i]) /\ Foremost(h, w, i)
               /\ \A i \in 1 .. Len(w) :
                     Foremost(h, w, i) =>
                        b[Key(h, w[i])] =
                            [previous |-> Link(h, h.node[w[i]].previous),
                             copies   |-> Cardinality(NodesOf(h, w, Key(h, w[i])))]
<1> DEFINE w == Walk(h)
           L == Len(w)
           b == AsBucket(h)
<1>1. /\ L \in Nat /\ DOMAIN w = 1 .. L /\ w \in Seq(DOMAIN h.node)
      /\ \A i \in 1 .. L : Key(h, w[i]) \in Keys
      /\ \A i, j \in 1 .. L : w[i] = w[j] => i = j
      /\ Range(w) = {w[i] : i \in 1 .. L}
  BY ChainFacts
<1>2. save(h) = [i \in 1 .. L |-> Key(h, w[i])]
  BY <1>1 DEF save, Key
<1>3. \A k \in Keys :
        LET j == Lookup(h, k)
        IN  /\ j \in 0 .. L
            /\ j = 0 => \A n \in 1 .. L : Key(h, w[n]) # k
            /\ j # 0 => Key(h, w[j]) = k /\ \A n \in 1 .. j - 1 : Key(h, w[n]) # k
  BY Places
<1> DEFINE D == {Key(h, w[i]) : i \in 1 .. L}
<1>4. Range(save(h)) = D
  BY <1>2 DEF Range
<1>5. b = [k \in D |->
              [previous |-> Link(h, h.node[w[Lookup(h, k)]].previous),
               copies   |-> Cardinality({i \in 1 .. L : Key(h, w[i]) = k})]]
  <2>1. DOMAIN save(h) = 1 .. L /\ \A i \in 1 .. L : save(h)[i] = Key(h, w[i])
    BY <1>2
  <2>2. \A k : {i \in DOMAIN save(h) : save(h)[i] = k} = {i \in 1 .. L : Key(h, w[i]) = k}
    BY <2>1
  <2> HIDE DEF D
  <2> QED BY <1>4, <2>2 DEF AsBucket
<1>6. ASSUME NEW k
      PROVE  Cardinality({i \in 1 .. L : Key(h, w[i]) = k}) = Cardinality(NodesOf(h, w, k))
  <2> DEFINE S == {i \in 1 .. L : Key(h, w[i]) = k}
             T == NodesOf(h, w, k)
             f == [i \in S |-> w[i]]
  <2> HIDE DEF w
  <2>1. f \in [S -> T]
    BY <1>1 DEF NodesOf
  <2>2. \A i, j \in S : f[i] = f[j] => i = j
    BY <1>1
  <2>3. \A a \in T : \E i \in S : f[i] = a
    BY <1>1 DEF NodesOf
  <2>4. f \in Bijection(S, T)
    BY <2>1, <2>2, <2>3 DEF Bijection, Injection, Surjection, IsInjective
  <2>5. IsFiniteSet(S)
    <3>1. IsFiniteSet(1 .. L)
      BY <1>1, FS_Interval
    <3> QED BY <3>1, FS_Subset
  <2> HIDE DEF S, T, f
  <2>6. ExistsBijection(S, T)
    BY <2>4 DEF ExistsBijection
  <2> QED BY <2>5, <2>6, FS_Bijection DEF S, T
<1>7. ASSUME NEW i \in 1 .. L
      PROVE  LET j == Lookup(h, Key(h, w[i]))
             IN  /\ j \in 1 .. L /\ Key(h, w[j]) = Key(h, w[i]) /\ Foremost(h, w, j)
                 /\ Foremost(h, w, i) => j = i
  <2> DEFINE k == Key(h, w[i])
             j == Lookup(h, k)
  <2>1. /\ j \in 0 .. L
        /\ j = 0 => \A n \in 1 .. L : Key(h, w[n]) # k
        /\ j # 0 => Key(h, w[j]) = k /\ \A n \in 1 .. j - 1 : Key(h, w[n]) # k
    <3>1. k \in Keys
      BY <1>1
    <3> HIDE DEF k, w
    <3> QED BY <1>3, <3>1
  <2> HIDE DEF w, j
  <2>2. j # 0
    BY <2>1
  <2>3. j \in 1 .. L /\ Key(h, w[j]) = k /\ Foremost(h, w, j)
    BY <1>1, <2>1, <2>2 DEF Foremost
  <2>4. Foremost(h, w, i) => j = i
    <3>1. ~(i \in 1 .. j - 1)
      BY <2>1, <2>2
    <3>2. Foremost(h, w, i) => ~(j \in 1 .. i - 1)
      BY <2>3 DEF Foremost
    <3> QED BY <1>1, <2>3, <3>1, <3>2
  <2> QED BY <2>3, <2>4 DEF j
<1> HIDE DEF w, b, L
<1>8. DOMAIN b = D /\ b = [x \in DOMAIN b |-> b[x]]
  BY <1>5
<1>9. ASSUME NEW i \in 1 .. L, Foremost(h, w, i)
      PROVE  b[Key(h, w[i])] = [previous |-> Link(h, h.node[w[i]].previous),
                                copies   |-> Cardinality(NodesOf(h, w, Key(h, w[i])))]
  <2>1. Key(h, w[i]) \in D
    OBVIOUS
  <2> HIDE DEF D
  <2>2. b[Key(h, w[i])] =
            [previous |-> Link(h, h.node[w[Lookup(h, Key(h, w[i]))]].previous),
             copies   |-> Cardinality({n \in 1 .. L : Key(h, w[n]) = Key(h, w[i])})]
    BY <1>5, <2>1
  <2> QED BY <2>2, <1>6, <1>7, <1>9
<1>10. ASSUME NEW x \in D PROVE \E i \in 1 .. L : x = Key(h, w[i]) /\ Foremost(h, w, i)
  <2>1. PICK i \in 1 .. L : x = Key(h, w[i])
    OBVIOUS
  <2> QED BY <1>7, <2>1
<1> HIDE DEF D
<1> QED
  BY <1>8, <1>9, <1>10 DEF w, b, L, D

-------------------------------------------------------------------------------
\* hashing_insert.

\* d is the heap h with a node a of the key k linked at place q of its chain w; the
\* node in front of it is made to point at it, the one behind it is left alone.
Spliced(h, d, w, q, a, k) ==
    /\ IsHeap(d)
    /\ DOMAIN d.node = DOMAIN h.node \cup {a}
    /\ d.head = IF q = 1 THEN a ELSE h.head
    /\ d.node[a] = [element  |-> k,
                    next     |-> IF q <= Len(w) THEN w[q] ELSE NULL,
                    previous |-> IF q = 1 THEN NULL ELSE w[q - 1]]
    /\ \A b \in DOMAIN h.node :
          d.node[b] = IF q # 1 /\ b = w[q - 1] THEN [h.node[b] EXCEPT !.next = a]
                      ELSE h.node[b]

\* q is the place of a new node of the key k.
PlaceOf(h, w, q, k) ==
    /\ q \in 1 .. Len(w) + 1
    /\ \A n \in 1 .. Len(w) : IF n < q THEN Key(h, w[n]) < k ELSE Key(h, w[n]) >= k
    /\ q \in 2 .. Len(w) => Key(h, w[q]) # k

\* m is a function on S.
On(m, S) == m = [b \in S |-> m[b]]

\* Memory that no pointer holds.
LEMMA UnusedIs ==
    ASSUME NEW h, IsHeap(h), Unused(h) # {}
    PROVE  LET a == Min(Unused(h))
           IN  /\ a \in Addresses /\ a \notin DOMAIN h.node /\ a # NULL /\ a # h.head
               /\ \A b \in DOMAIN h.node : h.node[b].next # a /\ h.node[b].previous # a
<1>1. Unused(h) \in SUBSET Nat
  BY MemoryAssumption DEF Unused
<1> DEFINE a == Min(Unused(h))
<1>2. a \in Unused(h)
  BY <1>1, MinIs
<1> HIDE DEF a
<1>3. a \in Addresses /\ a \notin DOMAIN h.node /\ a \notin Named(h)
  BY <1>2 DEF Unused
<1>4. a # h.head /\ \A b \in DOMAIN h.node : h.node[b].next # a /\ h.node[b].previous # a
  BY <1>3 DEF Named
<1> QED
  BY <1>3, <1>4, PointerAssumption DEF a

\* What is joined from parts of the right kinds is a heap.
LEMMA HeapFrom ==
    ASSUME NEW S \in SUBSET Addresses, NEW head \in Pointer, NEW node,
           On(node, S), \A b \in S : node[b] \in Node
    PROVE  IsHeap([head |-> head, node |-> node])
<1> DEFINE d == [head |-> head, node |-> node]
<1>1. d.head = head /\ d.node = node /\ DOMAIN node = S
  BY DEF On
<1> QED
  BY <1>1 DEF IsHeap, On

\* Inserting links one node at the place of its key, or drops the key.
LEMMA InsertSplices ==
    ASSUME NEW h, ChainOK(h), NEW k \in Keys, Unused(h) # {}
    PROVE  LET w == Walk(h)
               a == Min(Unused(h))
           IN  \/ /\ insert(h, k) = h
                  /\ Len(w) # 0 /\ Key(h, w[1]) < k
                  /\ \E i \in 1 .. Len(w) : Key(h, w[i]) = k
               \/ \E q : PlaceOf(h, w, q, k) /\ Spliced(h, insert(h, k), w, q, a, k)
<1> DEFINE w == Walk(h)
           L == Len(w)
           a == Min(Unused(h))
           i == FirstNotBelow(h, k)
<1>1. /\ L \in Nat
      /\ \A n \in 1 .. L : /\ w[n] \in DOMAIN h.node /\ w[n] \in Addresses
                           /\ Key(h, w[n]) \in Nat
      /\ L = 0 => h.head = NULL
      /\ L # 0 => h.head = w[1] /\ h.node[w[L]].next = NULL
      /\ \A n \in 1 .. L - 1 : h.node[w[n]].next = w[n + 1]
      /\ \A m, n \in 1 .. L : m < n => Key(h, w[m]) <= Key(h, w[n])
  BY ChainFacts
<1>2. /\ i \in 0 .. L
      /\ i = 0 => \A n \in 1 .. L : Key(h, w[n]) < k
      /\ i # 0 => Key(h, w[i]) >= k /\ \A n \in 1 .. i - 1 : Key(h, w[n]) < k
  BY Places
<1>3. IsHeap(h) /\ k \in Nat
  BY KeysAssumption DEF ChainOK
<1>4. a \in Addresses /\ a \notin DOMAIN h.node /\ a # NULL
  BY <1>3, UnusedIs
<1>5. insert(h, k) =
        IF h.head = NULL
        THEN [head |-> a, node |-> With(h, a, k, NULL, NULL)]
        ELSE IF i = 0
        THEN [h EXCEPT !.node = [With(h, a, k, NULL, w[L]) EXCEPT ![w[L]].next = a]]
        ELSE IF Key(h, w[i]) = Key(h, h.head)
        THEN [head |-> a, node |-> With(h, a, k, h.head, NULL)]
        ELSE IF k < Key(h, w[i])
        THEN [h EXCEPT !.node = [With(h, a, k, w[i], w[i - 1]) EXCEPT ![w[i - 1]].next = a]]
        ELSE h
  BY DEF insert, Key
<1>6. \A b \in DOMAIN h.node : h.node[b] \in Node
  BY <1>3 DEF IsHeap
<1> HIDE DEF w, i, a
\* A node in front of all others.
<1>7. ASSUME NEW n \in Pointer, NEW d, d = [head |-> a, node |-> With(h, a, k, n, NULL)],
             n = IF 1 <= L THEN w[1] ELSE NULL
      PROVE  Spliced(h, d, w, 1, a, k)
  <2> DEFINE m == With(h, a, k, n, NULL)
  <2>0. m = With(h, a, k, n, NULL)
    OBVIOUS
  <2> HIDE DEF m
  <2>1. /\ On(m, DOMAIN h.node \cup {a})
        /\ m[a] = [element |-> k, next |-> n, previous |-> NULL]
        /\ \A b \in DOMAIN h.node : m[b] = h.node[b]
    BY <1>4, <2>0 DEF With, On
  <2>2. m[a] \in Node
    BY <2>1 DEF Node, Pointer
  <2>3. \A b \in DOMAIN h.node \cup {a} : m[b] \in Node
    BY <1>6, <2>1, <2>2
  <2>4. IsHeap(d)
    <3>1. a \in Pointer /\ d = [head |-> a, node |-> m]
      BY <1>4, <1>7 DEF Pointer, m
    <3>2. DOMAIN h.node \cup {a} \in SUBSET Addresses
      BY <1>3, <1>4 DEF IsHeap
    <3> QED BY <1>4, <2>1, <2>3, <3>1, <3>2, HeapFrom
  <2>5. d.head = a /\ d.node = m /\ DOMAIN m = DOMAIN h.node \cup {a}
    BY <1>7, <2>1 DEF m, On
  <2> QED BY <1>7, <2>1, <2>4, <2>5 DEF Spliced
\* A node behind another.
<1>8. ASSUME NEW q \in 2 .. L + 1, NEW n \in Pointer, NEW d, n = IF q <= L THEN w[q] ELSE NULL,
             d = [h EXCEPT !.node = [With(h, a, k, n, w[q - 1]) EXCEPT ![w[q - 1]].next = a]]
      PROVE  Spliced(h, d, w, q, a, k)
  <2> DEFINE m == With(h, a, k, n, w[q - 1])
             o == [m EXCEPT ![w[q - 1]].next = a]
  <2>0. m = With(h, a, k, n, w[q - 1])
    OBVIOUS
  <2>1. /\ On(m, DOMAIN h.node \cup {a})
        /\ m[a] = [element |-> k, next |-> n, previous |-> w[q - 1]]
        /\ \A b \in DOMAIN h.node : m[b] = h.node[b]
    <3> HIDE DEF m
    <3> QED BY <1>4, <2>0 DEF With, On
  <2>2. q - 1 \in 1 .. L /\ w[q - 1] \in DOMAIN h.node /\ w[q - 1] \in Addresses /\ w[q - 1] # a
    BY <1>1, <1>4
  <2>3. d = [head |-> h.head, node |-> o]
    <3>1. h = [head |-> h.head, node |-> h.node]
      BY <1>3 DEF IsHeap
    <3> HIDE DEF o
    <3>2. d = [h EXCEPT !.node = o]
      BY <1>8 DEF o, m
    <3> QED BY <3>1, <3>2
  <2> HIDE DEF m
  <2>4. /\ On(o, DOMAIN h.node \cup {a})
        /\ o[a] = [element |-> k, next |-> n, previous |-> w[q - 1]]
        /\ \A b \in DOMAIN h.node :
              o[b] = IF b = w[q - 1] THEN [h.node[b] EXCEPT !.next = a] ELSE h.node[b]
    BY <1>4, <2>1, <2>2 DEF On
  <2> HIDE DEF o
  <2>5. o[a] \in Node
    BY <2>2, <2>4 DEF Node, Pointer
  <2>6. ASSUME NEW b \in DOMAIN h.node PROVE o[b] \in Node
    BY <1>4, <1>6, <2>4 DEF Node, Pointer
  <2>7. IsHeap(d)
    <3>1. h.head \in Pointer
      BY <1>3 DEF IsHeap
    <3>2. DOMAIN h.node \cup {a} \in SUBSET Addresses
      BY <1>3, <1>4 DEF IsHeap
    <3> QED BY <2>3, <2>4, <2>5, <2>6, <3>1, <3>2, HeapFrom
  <2>8. d.head = h.head /\ d.node = o /\ DOMAIN o = DOMAIN h.node \cup {a} /\ q # 1
    BY <2>3, <2>4 DEF On
  <2> QED BY <1>8, <2>4, <2>7, <2>8 DEF Spliced
<1>9. L # 0 => h.head # NULL
  BY <1>1, PointerAssumption
<1>10. CASE L = 0
  <2>1. Spliced(h, insert(h, k), w, 1, a, k)
    BY <1>1, <1>5, <1>7, <1>10 DEF Pointer
  <2>2. PlaceOf(h, w, 1, k)
    BY <1>10 DEF PlaceOf
  <2> QED BY <2>1, <2>2 DEF w, a
<1>11. CASE L # 0 /\ i = 0
  <2>1. insert(h, k) = [h EXCEPT !.node = [With(h, a, k, NULL, w[(L + 1) - 1])
                                             EXCEPT ![w[(L + 1) - 1]].next = a]]
    <3>1. (L + 1) - 1 = L
      BY <1>1
    <3> QED BY <1>5, <1>9, <1>11, <3>1
  <2>2. L + 1 \in 2 .. L + 1 /\ ~(L + 1 <= L) /\ NULL \in Pointer
    BY <1>1, <1>11 DEF Pointer
  <2>3. Spliced(h, insert(h, k), w, L + 1, a, k)
    BY <1>8, <2>1, <2>2
  <2>4. PlaceOf(h, w, L + 1, k)
    BY <1>1, <1>2, <1>3, <1>11 DEF PlaceOf
  <2> QED BY <2>3, <2>4 DEF w, a
<1>12. CASE L # 0 /\ i # 0 /\ Key(h, w[i]) = Key(h, h.head)
  <2>1. i = 1
    <3>1. 1 \in 1 .. L /\ h.head = w[1]
      BY <1>1, <1>12
    <3>2. ~(1 \in 1 .. i - 1)
      BY <1>1, <1>2, <1>3, <1>12, <3>1
    <3> QED BY <1>2, <1>12, <3>2
  <2>2. Spliced(h, insert(h, k), w, 1, a, k)
    BY <1>1, <1>5, <1>7, <1>9, <1>12 DEF Pointer
  <2>3. PlaceOf(h, w, 1, k)
    <3>1. \A n \in 1 .. L : Key(h, w[n]) >= k
      <4>1. TAKE n \in 1 .. L
      <4>2. Key(h, w[1]) >= k /\ 1 \in 1 .. L /\ (n = 1 \/ 1 < n)
        BY <1>1, <1>2, <1>12, <2>1
      <4> QED BY <1>1, <1>3, <4>2
    <3> QED BY <1>1, <3>1 DEF PlaceOf
  <2> QED BY <2>2, <2>3 DEF w, a
<1>13. CASE L # 0 /\ i # 0 /\ Key(h, w[i]) # Key(h, h.head)
  <2>1. i \in 2 .. L /\ Key(h, w[1]) < k
    <3>1. i # 1
      BY <1>1, <1>13
    <3>2. i \in 2 .. L /\ 1 \in 1 .. i - 1
      BY <1>1, <1>2, <1>13, <3>1
    <3> QED BY <1>2, <1>13, <3>2
  <2>2. CASE k < Key(h, w[i])
    <3>1. Spliced(h, insert(h, k), w, i, a, k)
      <4>1. w[i] \in Pointer /\ i <= L /\ i \in 2 .. L + 1
        BY <1>1, <2>1 DEF Pointer
      <4>2. insert(h, k) = [h EXCEPT !.node = [With(h, a, k, w[i], w[i - 1])
                                                 EXCEPT ![w[i - 1]].next = a]]
        BY <1>5, <1>9, <1>13, <2>2
      <4> QED BY <1>8, <4>1, <4>2
    <3>2. ASSUME NEW n \in 1 .. L
          PROVE  IF n < i THEN Key(h, w[n]) < k ELSE Key(h, w[n]) >= k
      <4>1. CASE n < i
        <5>1. n \in 1 .. i - 1
          BY <1>1, <2>1, <4>1
        <5> QED BY <1>2, <1>13, <4>1, <5>1
      <4>2. CASE ~(n < i)
        <5>1. i \in 1 .. L /\ (n = i \/ i < n)
          BY <1>1, <2>1, <4>2
        <5> QED BY <1>1, <1>3, <2>2, <4>2, <5>1
      <4> QED BY <4>1, <4>2
    <3>3. PlaceOf(h, w, i, k)
      <4>1. i \in 1 .. L + 1 /\ Key(h, w[i]) # k
        BY <1>1, <1>3, <2>1, <2>2
      <4> QED BY <3>2, <4>1 DEF PlaceOf
    <3> QED BY <3>1, <3>3 DEF w, a
  <2>3. CASE ~(k < Key(h, w[i]))
    <3>1. insert(h, k) = h
      BY <1>5, <1>9, <1>13, <2>3
    <3>2. Key(h, w[i]) = k /\ i \in 1 .. L
      BY <1>1, <1>2, <1>3, <1>13, <2>1, <2>3
    <3> QED BY <1>13, <2>1, <3>1, <3>2 DEF w
  <2> QED BY <2>2, <2>3
<1> QED
  BY <1>10, <1>11, <1>12, <1>13

\* The chain w with a at place q.
Placed(w, q, a) ==
    [i \in 1 .. Len(w) + 1 |-> IF i < q THEN w[i] ELSE IF i = q THEN a ELSE w[i - 1]]

\* A key that is in the chain already is the first.
LEMMA KnownPlace ==
    ASSUME NEW h, ChainOK(h), NEW k \in Keys, NEW q, PlaceOf(h, Walk(h), q, k),
           NEW i \in 1 .. Len(Walk(h)), Key(h, Walk(h)[i]) = k
    PROVE  q = 1 /\ Key(h, Walk(h)[1]) = k
<1> DEFINE w == Walk(h)
           L == Len(w)
<1>1. /\ L \in Nat /\ DOMAIN w = 1 .. L
      /\ \A m \in 1 .. L : Key(h, w[m]) \in Nat
      /\ \A m, n \in 1 .. L : m < n => Key(h, w[m]) <= Key(h, w[n])
  BY ChainFacts
<1>3. /\ q \in 1 .. L + 1 /\ k \in Nat
      /\ \A n \in 1 .. L : IF n < q THEN Key(h, w[n]) < k ELSE Key(h, w[n]) >= k
      /\ q \in 2 .. L => Key(h, w[q]) # k
  BY KeysAssumption DEF PlaceOf
<1>4. i \in 1 .. L /\ Key(h, w[i]) = k
  OBVIOUS
<1> HIDE DEF w
<1>5. ~(i < q) /\ 1 \in 1 .. L
  BY <1>1, <1>3, <1>4
<1>6. q \in 1 .. L /\ Key(h, w[q]) >= k /\ Key(h, w[q]) <= Key(h, w[i])
  <2>1. q \in 1 .. L /\ ~(q < q) /\ (q = i \/ q < i)
    BY <1>1, <1>3, <1>4, <1>5
  <2> QED BY <1>1, <1>3, <1>4, <2>1
<1>7. q = 1
  BY <1>1, <1>3, <1>4, <1>6
<1>8. Key(h, w[1]) = k
  BY <1>1, <1>3, <1>4, <1>5, <1>6, <1>7
<1> QED
  BY <1>7, <1>8 DEF w

\* What is spliced into a chain at the place of its key makes a chain.
LEMMA SplicedChain ==
    ASSUME NEW h, ChainOK(h), NEW k \in Keys, NEW q, PlaceOf(h, Walk(h), q, k),
           NEW a \in Addresses, a \notin DOMAIN h.node,
           \A b \in DOMAIN h.node : h.node[b].previous # a,
           NEW d, Spliced(h, d, Walk(h), q, a, k)
    PROVE  Walk(d) = Placed(Walk(h), q, a) /\ ChainOK(d)
<1> DEFINE w == Walk(h)
           L == Len(w)
           v == Placed(w, q, a)
           Pos(i) == IF i < q THEN i ELSE i + 1
<1>1. /\ L \in Nat /\ w \in Seq(DOMAIN h.node)
      /\ \A i \in 1 .. L : /\ w[i] \in DOMAIN h.node
                           /\ Key(h, w[i]) \in Nat
                           /\ h.node[w[i]] \in Node
      /\ \A i, j \in 1 .. L : w[i] = w[j] => i = j
      /\ L = 0 => h.head = NULL
      /\ L # 0 => h.head = w[1] /\ h.node[w[L]].next = NULL
      /\ \A i \in 1 .. L - 1 : h.node[w[i]].next = w[i + 1]
      /\ \A i, j \in 1 .. L : i < j => Key(h, w[i]) <= Key(h, w[j])
      /\ L # 0 => h.node[w[1]].previous = NULL
  BY ChainFacts
<1>2. /\ \A i, j \in 1 .. L :
            w[j] = h.node[w[i]].previous => j < i /\ Key(h, w[j]) < Key(h, w[j + 1])
      /\ \A b \in DOMAIN h.node : b # NULL /\ h.node[b] \in Node
  <2>1. DOMAIN w = 1 .. L
    BY <1>1
  <2>2. LooksBack(h, w) /\ IsHeap(h)
    BY DEF ChainOK, IsChain
  <2> HIDE DEF w
  <2> QED BY <2>1, <2>2, PointerAssumption DEF LooksBack, IsHeap
<1>3. /\ q \in 1 .. L + 1 /\ k \in Nat
      /\ \A n \in 1 .. L : IF n < q THEN Key(h, w[n]) < k ELSE Key(h, w[n]) >= k
      /\ q \in 2 .. L => Key(h, w[q]) # k
  BY KeysAssumption DEF PlaceOf
<1>4. /\ IsHeap(d)
      /\ DOMAIN d.node = DOMAIN h.node \cup {a}
      /\ d.head = IF q = 1 THEN a ELSE h.head
      /\ d.node[a] = [element |-> k, next |-> IF q <= L THEN w[q] ELSE NULL,
                      previous |-> IF q = 1 THEN NULL ELSE w[q - 1]]
      /\ \A b \in DOMAIN h.node :
            d.node[b] = IF q # 1 /\ b = w[q - 1] THEN [h.node[b] EXCEPT !.next = a] ELSE h.node[b]
  BY DEF Spliced
<1> HIDE DEF w
<1>5. /\ Key(d, a) = k
      /\ d.node[a].next = IF q <= L THEN w[q] ELSE NULL
      /\ d.node[a].previous = IF q = 1 THEN NULL ELSE w[q - 1]
  BY <1>4 DEF Key
<1>6. ASSUME NEW b \in DOMAIN h.node
      PROVE  /\ Key(d, b) = Key(h, b) /\ d.node[b].previous = h.node[b].previous
             /\ d.node[b].next = IF q # 1 /\ b = w[q - 1] THEN a ELSE h.node[b].next
  BY <1>2, <1>4 DEF Key, Node
<1>7. /\ v = [i \in 1 .. L + 1 |-> v[i]] /\ DOMAIN v = 1 .. L + 1
      /\ v[q] = a
      /\ \A i \in 1 .. L : Pos(i) \in 1 .. L + 1 /\ Pos(i) # q /\ v[Pos(i)] = w[i]
      /\ \A n \in 1 .. L + 1 : n # q => \E i \in 1 .. L : n = Pos(i)
  <2>1. v = [i \in 1 .. L + 1 |-> IF i < q THEN w[i] ELSE IF i = q THEN a ELSE w[i - 1]]
    BY DEF Placed
  <2> HIDE DEF v
  <2>2. \A i \in 1 .. L : Pos(i) \in 1 .. L + 1 /\ Pos(i) # q /\ v[Pos(i)] = w[i]
    BY <1>1, <1>3, <2>1
  <2>3. ASSUME NEW n \in 1 .. L + 1, n # q PROVE \E i \in 1 .. L : n = Pos(i)
    <3>1. CASE n < q
      <4>1. n \in 1 .. L /\ n = Pos(n)
        BY <1>1, <1>3, <3>1
      <4> QED BY <4>1
    <3>2. CASE ~(n < q)
      <4>1. n - 1 \in 1 .. L /\ n = Pos(n - 1)
        BY <1>1, <1>3, <2>3, <3>2
      <4> QED BY <4>1
    <3> QED BY <3>1, <3>2
  <2> QED BY <1>1, <1>3, <2>1, <2>2, <2>3
<1>8. v \in Seq(DOMAIN d.node) /\ Len(v) = L + 1
  <2>1. ASSUME NEW n \in 1 .. L + 1 PROVE v[n] \in DOMAIN d.node
    <3> HIDE DEF v, Pos
    <3>1. CASE n = q
      BY <1>4, <1>7, <3>1
    <3>2. CASE n # q
      <4>1. PICK i \in 1 .. L : n = Pos(i)
        BY <1>7, <3>2
      <4> QED BY <1>1, <1>4, <1>7, <4>1
    <3> QED BY <3>1, <3>2
  <2> HIDE DEF v
  <2>2. v \in [1 .. L + 1 -> DOMAIN d.node]
    BY <1>7, <2>1
  <2>3. L + 1 \in Nat
    BY <1>1
  <2> QED BY <2>2, <2>3
<1>9. /\ \A n \in 1 .. L + 1 : n < q => v[n] = w[n]
      /\ \A n \in 1 .. L + 1 : n > q => v[n] = w[n - 1]
  BY <1>1, <1>3 DEF Placed
<1> HIDE DEF v
<1>10. ASSUME NEW n \in 1 .. L + 1
       PROVE  v[n] = IF n = 1 THEN d.head ELSE d.node[v[n - 1]].next
  <2>1. CASE n = 1
    <3>1. CASE q = 1
      BY <1>4, <1>7, <2>1, <3>1
    <3>2. CASE q # 1
      <4>1. 1 < q /\ L # 0
        BY <1>1, <1>3, <3>2
      <4> QED BY <1>1, <1>4, <1>9, <2>1, <3>2, <4>1
    <3> QED BY <3>1, <3>2
  <2>2. CASE n # 1 /\ n < q
    <3>1. n - 1 \in 1 .. L - 1 /\ n - 1 < q /\ (n - 1) + 1 = n /\ n - 1 # q - 1 /\ n - 1 \in 1 .. L
      BY <1>1, <1>3, <2>2
    <3>2. v[n] = w[n] /\ v[n - 1] = w[n - 1] /\ w[n - 1] \in DOMAIN h.node
      BY <1>1, <1>9, <2>2, <3>1
    <3>3. q - 1 \in 1 .. L /\ w[n - 1] # w[q - 1]
      BY <1>1, <1>3, <2>2, <3>1
    <3>4. d.node[w[n - 1]].next = h.node[w[n - 1]].next
      BY <1>6, <3>2, <3>3
    <3> QED BY <1>1, <2>2, <3>1, <3>2, <3>4
  <2>3. CASE n # 1 /\ n = q
    <3>1. n - 1 \in 1 .. L /\ n - 1 < q /\ n - 1 \in 1 .. L + 1
      BY <1>1, <1>3, <2>3
    <3>2. v[n - 1] = w[q - 1] /\ w[q - 1] \in DOMAIN h.node
      BY <1>1, <1>9, <2>3, <3>1
    <3>3. d.node[w[q - 1]].next = a
      BY <1>6, <2>3, <3>2
    <3> QED BY <1>7, <2>3, <3>2, <3>3
  <2>4. CASE n = q + 1
    <3>1. n > q /\ n - 1 = q /\ q <= L /\ n # 1
      BY <1>1, <1>3, <2>4
    <3>2. v[n] = w[q]
      BY <1>9, <3>1
    <3> QED BY <1>5, <1>7, <3>1, <3>2
  <2>5. CASE n > q + 1
    <3>1. /\ n > q /\ n - 1 > q /\ n - 1 \in 1 .. L + 1 /\ n # 1
          /\ n - 2 \in 1 .. L - 1 /\ n - 2 \in 1 .. L /\ (n - 2) + 1 = n - 1 /\ (n - 1) - 1 = n - 2
          /\ n - 2 # q - 1
      BY <1>1, <1>3, <2>5
    <3>2. v[n] = w[n - 1] /\ v[n - 1] = w[n - 2] /\ w[n - 2] \in DOMAIN h.node
      BY <1>1, <1>9, <3>1
    <3>3. q # 1 => q - 1 \in 1 .. L
      BY <1>1, <1>3
    <3>4. q # 1 => w[n - 2] # w[q - 1]
      BY <1>1, <3>1, <3>3
    <3>5. d.node[w[n - 2]].next = h.node[w[n - 2]].next
      BY <1>6, <3>2, <3>4
    <3>6. h.node[w[n - 2]].next = w[n - 1]
      BY <1>1, <3>1
    <3> QED BY <3>1, <3>2, <3>5, <3>6
  <2> QED BY <1>1, <1>3, <2>1, <2>2, <2>3, <2>4, <2>5
<1>11. ASSUME NEW m \in 1 .. L + 1, NEW n \in 1 .. L + 1, v[m] = v[n] PROVE m = n
  <2>1. \A i \in 1 .. L : w[i] # a
    BY <1>1
  <2>2. CASE m = q
    <3>1. v[n] = a
      BY <1>7, <1>11, <2>2
    <3> HIDE DEF Pos
    <3> QED BY <1>7, <2>1, <2>2, <3>1
  <2>3. CASE n = q
    <3>1. v[m] = a
      BY <1>7, <1>11, <2>3
    <3> HIDE DEF Pos
    <3> QED BY <1>7, <2>1, <2>3, <3>1
  <2>4. CASE m # q /\ n # q
    <3>1. PICK i \in 1 .. L : m = Pos(i)
      BY <1>7, <2>4
    <3>2. PICK j \in 1 .. L : n = Pos(j)
      BY <1>7, <2>4
    <3> HIDE DEF Pos
    <3>3. w[i] = w[j]
      BY <1>7, <1>11, <3>1, <3>2
    <3> QED BY <1>1, <3>1, <3>2, <3>3
  <2> QED BY <2>2, <2>3, <2>4
<1>12. EndOf(d, v) = NULL
  <2>1. EndOf(d, v) = d.node[v[L + 1]].next
    <3>1. v # <<>>
      BY <1>1, <1>8
    <3> QED BY <1>8, <3>1 DEF EndOf
  <2>2. CASE q = L + 1
    <3>1. ~(q <= L)
      BY <1>1, <2>2
    <3> QED BY <1>5, <1>7, <2>1, <2>2, <3>1
  <2>3. CASE q # L + 1
    <3>1. L + 1 > q /\ L + 1 \in 1 .. L + 1 /\ (L + 1) - 1 = L /\ L \in 1 .. L /\ L # q - 1
      BY <1>1, <1>3, <2>3
    <3>2. v[L + 1] = w[L]
      BY <1>9, <3>1
    <3>3. q # 1 => w[L] # w[q - 1]
      <4>1. q # 1 => q - 1 \in 1 .. L
        BY <1>1, <1>3
      <4> QED BY <1>1, <3>1, <4>1
    <3> QED BY <1>1, <1>6, <2>1, <3>1, <3>2, <3>3
  <2> QED BY <2>2, <2>3
<1>13. Joined(d, v)
  <2>1. NULL \notin DOMAIN d.node
    BY <1>4, PointerAssumption DEF IsHeap
  <2> QED BY <1>7, <1>8, <1>10, <1>11, <1>12, <2>1 DEF Joined
\* The keys of nodes other than the new one, and where they are.
<1>14. /\ Key(d, v[q]) = k
       /\ \A i \in 1 .. L : /\ Key(d, v[Pos(i)]) = Key(h, w[i])
                            /\ d.node[v[Pos(i)]].previous = h.node[w[i]].previous
       /\ \A i, j \in 1 .. L : i < j <=> Pos(i) < Pos(j)
  <2>1. \A i, j \in 1 .. L : i < j <=> Pos(i) < Pos(j)
    BY <1>1, <1>3
  <2> HIDE DEF Pos
  <2> QED BY <1>1, <1>5, <1>6, <1>7, <2>1
<1>15. ASSUME NEW i \in 1 .. L
       PROVE  IF Pos(i) < q THEN Key(h, w[i]) < k ELSE Key(h, w[i]) >= k
  <2>1. Pos(i) < q <=> i < q
    BY <1>1, <1>3
  <2> HIDE DEF Pos
  <2> QED BY <1>3, <2>1
<1> HIDE DEF Pos
<1>16. Ascending(d, v)
  <2>1. ASSUME NEW m \in 1 .. L + 1, NEW n \in 1 .. L + 1, m < n
        PROVE  Key(d, v[m]) <= Key(d, v[n])
    <3>1. CASE m # q /\ n # q
      <4>1. PICK i \in 1 .. L : m = Pos(i)
        BY <1>7, <3>1
      <4>2. PICK j \in 1 .. L : n = Pos(j)
        BY <1>7, <3>1
      <4> QED BY <1>1, <1>14, <2>1, <4>1, <4>2
    <3>2. CASE m = q
      <4>1. n # q
        BY <1>3, <2>1, <3>2
      <4>2. PICK j \in 1 .. L : n = Pos(j)
        BY <1>7, <4>1
      <4>3. Key(h, w[j]) >= k /\ Key(h, w[j]) \in Nat
        BY <1>1, <1>3, <1>15, <2>1, <3>2, <4>2
      <4> QED BY <1>3, <1>14, <3>2, <4>2, <4>3
    <3>3. CASE n = q
      <4>1. m # q
        BY <1>3, <2>1, <3>3
      <4>2. PICK i \in 1 .. L : m = Pos(i)
        BY <1>7, <4>1
      <4>3. Key(h, w[i]) < k /\ Key(h, w[i]) \in Nat
        BY <1>1, <1>15, <2>1, <3>3, <4>2
      <4> QED BY <1>3, <1>14, <3>3, <4>2, <4>3
    <3> QED BY <3>1, <3>2, <3>3
  <2> QED BY <1>7, <2>1 DEF Ascending
<1>17. LooksBack(d, v)
  <2>1. ASSUME NEW m \in 1 .. L + 1, NEW n \in 1 .. L + 1, v[n] = d.node[v[m]].previous
        PROVE  n < m /\ Key(d, v[n]) < Key(d, v[n + 1])
    <3>1. CASE m = q
      <4>1. v[n] # NULL
        BY <1>8, <1>4, PointerAssumption DEF IsHeap
      <4>2. q # 1 /\ v[n] = w[q - 1]
        BY <1>5, <1>7, <2>1, <3>1, <4>1
      <4>3. q - 1 \in 1 .. L /\ q - 1 < q /\ q - 1 \in 1 .. L + 1 /\ (q - 1) + 1 = q
        BY <1>1, <1>3, <4>2
      <4>4. v[q - 1] = w[q - 1] /\ Key(h, w[q - 1]) < k
        BY <1>3, <1>9, <4>3
      <4>5. n = q - 1
        BY <1>11, <4>2, <4>3, <4>4
      <4>6. Key(d, v[n]) = Key(h, w[q - 1])
        BY <1>1, <1>6, <4>2, <4>3
      <4> QED BY <1>14, <3>1, <4>3, <4>4, <4>5, <4>6
    <3>2. CASE m # q
      <4>1. PICK i \in 1 .. L : m = Pos(i)
        BY <1>7, <3>2
      <4>2. v[n] = h.node[w[i]].previous
        BY <1>14, <2>1, <4>1
      <4>3. n # q
        BY <1>1, <1>7, <4>2
      <4>4. PICK j \in 1 .. L : n = Pos(j)
        BY <1>7, <4>3
      <4>5. j < i /\ Key(h, w[j]) < Key(h, w[j + 1])
        BY <1>2, <1>7, <4>2, <4>4
      <4>6. n < m /\ Key(d, v[n]) = Key(h, w[j]) /\ n + 1 \in 1 .. L + 1 /\ j + 1 \in 1 .. L
        BY <1>1, <1>14, <4>1, <4>4, <4>5
      <4>7. CASE n + 1 = q
        <5>1. Key(h, w[j]) < k
          <6>1. Pos(j) < q
            BY <1>3, <4>4, <4>7
          <6> QED BY <1>15, <6>1
        <5> QED BY <1>14, <4>6, <4>7, <5>1
      <4>8. CASE n + 1 # q
        <5>1. n + 1 = Pos(j + 1)
          BY <1>1, <1>3, <4>3, <4>4, <4>8 DEF Pos
        <5> QED BY <1>14, <4>5, <4>6, <5>1
      <4> QED BY <4>6, <4>7, <4>8
    <3> QED BY <3>1, <3>2
  <2> QED BY <1>7, <2>1 DEF LooksBack
<1>18. d.node[d.head].previous = NULL
  <2>1. CASE q = 1
    BY <1>4, <1>5, <2>1
  <2>2. CASE q # 1
    <3>1. L # 0 /\ 1 \in 1 .. L
      BY <1>1, <1>3, <2>2
    <3> QED BY <1>1, <1>4, <1>6, <2>2, <3>1
  <2> QED BY <2>1, <2>2
<1>19. IsChain(d, v)
  BY <1>12, <1>13, <1>16, <1>17, <1>18 DEF IsChain
<1>20. Walk(d) = v
  BY <1>4, <1>13, WalkIs
<1>21. ChainOK(d)
  BY <1>4, <1>19, <1>20 DEF ChainOK
<1> QED
  BY <1>20, <1>21 DEF v, w

\* The greatest of a set of natural numbers, if it has one.
LEMMA MaxIs ==
    ASSUME NEW S \in SUBSET Nat, NEW m \in S, \A y \in S : y <= m
    PROVE  Max(S) = m
<1>1. Max(S) \in S /\ \A y \in S : Max(S) >= y
  <2>1. \A y \in S : m >= y
    OBVIOUS
  <2> QED BY <2>1 DEF Max
<1>2. Max(S) <= m /\ m <= Max(S) /\ Max(S) \in Nat
  BY <1>1
<1> QED
  BY <1>2

\* The nodes of a key can be counted.
LEMMA NodesAreFew ==
    ASSUME NEW h, ChainOK(h), NEW x
    PROVE  /\ IsFiniteSet(NodesOf(h, Walk(h), x))
           /\ Cardinality(NodesOf(h, Walk(h), x)) \in Nat
<1>1. NodesOf(h, Walk(h), x) \subseteq Addresses
  BY ChainFacts DEF NodesOf
<1> QED
  BY <1>1, MemoryAssumption, FS_Subset, FS_CardinalityType

\* What is spliced in is inserted in the bucket.
LEMMA SplicedBucket ==
    ASSUME NEW h, ChainOK(h), NEW k \in Keys, NEW q, PlaceOf(h, Walk(h), q, k),
           NEW a \in Addresses, a \notin DOMAIN h.node,
           \A b \in DOMAIN h.node : h.node[b].previous # a,
           NEW d, Spliced(h, d, Walk(h), q, a, k)
    PROVE  AsBucket(d) = Abstract!hashing_insert(AsBucket(h), k)
<1> DEFINE w == Walk(h)
           v == Walk(d)
           L == Len(w)
           c == AsBucket(h)
           e == AsBucket(d)
<1>1. ChainOK(d) /\ v = Placed(w, q, a)
  BY SplicedChain
<1>2. /\ L \in Nat
      /\ \A i \in 1 .. L : /\ w[i] \in DOMAIN h.node /\ h.node[w[i]] \in Node
                           /\ Key(h, w[i]) \in Keys /\ Key(h, w[i]) \in Nat
      /\ Range(w) = {w[i] : i \in 1 .. L}
      /\ \A i, j \in 1 .. L : i < j => Key(h, w[i]) <= Key(h, w[j])
      /\ L # 0 => h.node[w[1]].previous = NULL
  BY ChainFacts
<1>3. /\ q \in 1 .. L + 1 /\ k \in Nat
      /\ \A n \in 1 .. L : IF n < q THEN Key(h, w[n]) < k ELSE Key(h, w[n]) >= k
  BY KeysAssumption DEF PlaceOf
<1>4. /\ d.node[a] = [element |-> k, next |-> IF q <= L THEN w[q] ELSE NULL,
                      previous |-> IF q = 1 THEN NULL ELSE w[q - 1]]
      /\ \A b \in DOMAIN h.node :
            d.node[b] = IF q # 1 /\ b = w[q - 1] THEN [h.node[b] EXCEPT !.next = a] ELSE h.node[b]
  BY DEF Spliced
<1>5. /\ Len(v) = L + 1 /\ Range(v) = {v[n] : n \in 1 .. L + 1}
      /\ \A n \in 1 .. L + 1 : v[n] \in Addresses
  <2>1. /\ Len(v) \in Nat /\ DOMAIN v = 1 .. Len(v) /\ Range(v) = {v[n] : n \in 1 .. Len(v)}
        /\ \A n \in 1 .. Len(v) : v[n] \in Addresses
    BY <1>1, ChainFacts
  <2>2. DOMAIN v = 1 .. L + 1
    BY <1>1 DEF Placed
  <2>3. Len(v) = L + 1
    <3>1. L + 1 \in Nat /\ Cardinality(1 .. L + 1) = L + 1
      BY <1>2, FS_Interval
    <3>2. Len(v) \in Nat /\ Cardinality(1 .. Len(v)) = Len(v)
      BY <2>1, FS_Interval
    <3> QED BY <2>1, <2>2, <3>1, <3>2
  <2> QED BY <2>1, <2>3
<1>6. /\ c = [x \in DOMAIN c |-> c[x]]
      /\ DOMAIN c = {Key(h, w[i]) : i \in 1 .. L}
      /\ \A x \in DOMAIN c : \E i \in 1 .. L : x = Key(h, w[i]) /\ Foremost(h, w, i)
      /\ \A i \in 1 .. L :
            Foremost(h, w, i) =>
                c[Key(h, w[i])] = [previous |-> Link(h, h.node[w[i]].previous),
                                   copies   |-> Cardinality(NodesOf(h, w, Key(h, w[i])))]
  BY BucketOf
<1>7. /\ e = [x \in DOMAIN e |-> e[x]]
      /\ DOMAIN e = {Key(d, v[n]) : n \in 1 .. L + 1}
      /\ \A n \in 1 .. L + 1 :
            Foremost(d, v, n) =>
                e[Key(d, v[n])] = [previous |-> Link(d, d.node[v[n]].previous),
                                   copies   |-> Cardinality(NodesOf(d, v, Key(d, v[n])))]
  <2>1. /\ e = [x \in DOMAIN e |-> e[x]]
        /\ DOMAIN e = {Key(d, v[n]) : n \in 1 .. Len(v)}
        /\ \A n \in 1 .. Len(v) :
              Foremost(d, v, n) =>
                e[Key(d, v[n])] = [previous |-> Link(d, d.node[v[n]].previous),
                                   copies   |-> Cardinality(NodesOf(d, v, Key(d, v[n])))]
    BY <1>1, BucketOf
  <2> HIDE DEF v, e
  <2> QED BY <1>5, <2>1
<1>8. \A b \in DOMAIN h.node : h.node[b] \in Node
  BY DEF ChainOK, IsHeap
<1>9. \A p : /\ p = NULL => Link(h, p) = NULL /\ Link(d, p) = NULL
             /\ p \in Range(w) => Link(h, p) = Key(h, p)
             /\ p \in Range(v) => Link(d, p) = Key(d, p)
             /\ p # NULL /\ p \notin Range(w) => Link(h, p) = Stale
             /\ p # NULL /\ p \notin Range(v) => Link(d, p) = Stale
  BY <1>1, <1>2, <1>5, LinkIs
<1>10. \A x : /\ IsFiniteSet(NodesOf(h, w, x)) /\ Cardinality(NodesOf(h, w, x)) \in Nat
  BY NodesAreFew
<1> HIDE DEF w, v, c, e
<1>11. /\ Key(d, a) = k /\ d.node[a].previous = IF q = 1 THEN NULL ELSE w[q - 1]
       /\ \A b \in DOMAIN h.node : Key(d, b) = Key(h, b) /\ d.node[b].previous = h.node[b].previous
  <2>1. Key(d, a) = k /\ d.node[a].previous = IF q = 1 THEN NULL ELSE w[q - 1]
    BY <1>4 DEF Key
  <2>2. ASSUME NEW b \in DOMAIN h.node
        PROVE  Key(d, b) = Key(h, b) /\ d.node[b].previous = h.node[b].previous
    <3>1. h.node[b] \in Node
      BY <1>8
    <3>2. d.node[b] = [h.node[b] EXCEPT !.next = a] \/ d.node[b] = h.node[b]
      BY <1>4
    <3> QED BY <3>1, <3>2 DEF Key, Node
  <2> QED BY <2>1, <2>2
<1>12. /\ v[q] = a
       /\ \A n \in 1 .. q - 1 : n \in 1 .. L /\ v[n] = w[n]
       /\ \A i \in 1 .. L : \E n \in 1 .. L + 1 :
             v[n] = w[i] /\ \A m \in 1 .. n - 1 : v[m] = a \/ \E j \in 1 .. i - 1 : v[m] = w[j]
       /\ \A n \in 1 .. L + 1 : n # q => \E i \in 1 .. L : v[n] = w[i]
  <2>1. v = [n \in 1 .. L + 1 |-> IF n < q THEN w[n] ELSE IF n = q THEN a ELSE w[n - 1]]
    BY <1>1 DEF Placed
  <2>2. ASSUME NEW i \in 1 .. L
        PROVE  \E n \in 1 .. L + 1 :
                  v[n] = w[i] /\ \A m \in 1 .. n - 1 : v[m] = a \/ \E j \in 1 .. i - 1 : v[m] = w[j]
    <3>1. CASE i < q
      <4>1. i \in 1 .. L + 1 /\ v[i] = w[i]
        BY <1>2, <2>1, <3>1
      <4>2. \A m \in 1 .. i - 1 : v[m] = w[m]
        BY <1>2, <1>3, <2>1, <3>1
      <4> QED BY <4>1, <4>2
    <3>2. CASE ~(i < q)
      <4>1. i + 1 \in 1 .. L + 1 /\ ~(i + 1 < q) /\ i + 1 # q /\ (i + 1) - 1 = i
        BY <1>2, <1>3, <3>2
      <4>2. v[i + 1] = w[i]
        BY <2>1, <4>1
      <4>3. ASSUME NEW m \in 1 .. (i + 1) - 1
            PROVE  v[m] = a \/ \E j \in 1 .. i - 1 : v[m] = w[j]
        <5>1. CASE m < q
          <6>1. v[m] = w[m] /\ m \in 1 .. i - 1
            BY <1>2, <1>3, <2>1, <3>2, <5>1
          <6> QED BY <6>1
        <5>2. CASE m = q
          BY <1>2, <1>3, <2>1, <5>2
        <5>3. CASE m > q
          <6>1. v[m] = w[m - 1] /\ m - 1 \in 1 .. i - 1
            BY <1>2, <1>3, <2>1, <3>2, <5>3
          <6> QED BY <6>1
        <5> QED BY <1>3, <5>1, <5>2, <5>3
      <4> QED BY <4>1, <4>2, <4>3
    <3> QED BY <3>1, <3>2
  <2>3. ASSUME NEW n \in 1 .. L + 1, n # q PROVE \E i \in 1 .. L : v[n] = w[i]
    <3>1. CASE n < q
      <4>1. n \in 1 .. L /\ v[n] = w[n]
        BY <1>2, <1>3, <2>1, <3>1
      <4> QED BY <4>1
    <3>2. CASE ~(n < q)
      <4>1. n - 1 \in 1 .. L /\ v[n] = w[n - 1]
        BY <1>2, <1>3, <2>1, <2>3, <3>2
      <4> QED BY <4>1
    <3> QED BY <3>1, <3>2
  <2>4. ASSUME NEW n \in 1 .. q - 1 PROVE n \in 1 .. L /\ v[n] = w[n]
    BY <1>2, <1>3, <2>1
  <2>5. v[q] = a
    BY <1>3, <2>1
  <2> QED BY <2>2, <2>3, <2>4, <2>5
<1>13. Range(v) = Range(w) \cup {a} /\ a \notin Range(w)
  <2>1. ASSUME NEW x \in Range(v) PROVE x \in Range(w) \cup {a}
    <3>1. PICK n \in 1 .. L + 1 : x = v[n]
      BY <1>5
    <3> QED BY <1>2, <1>12, <3>1
  <2>2. ASSUME NEW x \in Range(w) PROVE x \in Range(v) /\ x # a
    <3>1. PICK i \in 1 .. L : x = w[i]
      BY <1>2
    <3>2. PICK n \in 1 .. L + 1 : v[n] = w[i]
      BY <1>12
    <3> QED BY <1>2, <1>5, <3>1, <3>2
  <2>3. a \in Range(v)
    BY <1>3, <1>5, <1>12
  <2> QED BY <2>1, <2>2, <2>3
<1>14. DOMAIN e = DOMAIN c \cup {k}
  <2>1. ASSUME NEW n \in 1 .. L + 1 PROVE Key(d, v[n]) \in DOMAIN c \cup {k}
    BY <1>2, <1>6, <1>11, <1>12
  <2>2. ASSUME NEW i \in 1 .. L PROVE Key(h, w[i]) \in DOMAIN e
    BY <1>2, <1>7, <1>11, <1>12
  <2>3. k \in DOMAIN e
    BY <1>3, <1>7, <1>11, <1>12
  <2> QED BY <1>6, <1>7, <2>1, <2>2, <2>3
<1>15. \A x : NodesOf(d, v, x) = NodesOf(h, w, x) \cup (IF x = k THEN {a} ELSE {})
  BY <1>2, <1>11, <1>13 DEF NodesOf
<1>16. ASSUME NEW b \in DOMAIN h.node
       PROVE  Link(d, d.node[b].previous) = Link(h, h.node[b].previous)
  <2> DEFINE p == h.node[b].previous
  <2>1. d.node[b].previous = p /\ p # a
    BY <1>11
  <2>2. p \in Range(w) => Key(d, p) = Key(h, p)
    BY <1>2, <1>11
  <2> HIDE DEF p
  <2> QED BY <1>9, <1>13, <2>1, <2>2 DEF p
<1>17. ASSUME NEW i \in 1 .. L, Foremost(h, w, i), Key(h, w[i]) # k
       PROVE  e[Key(h, w[i])] = [previous |-> Link(h, h.node[w[i]].previous),
                                 copies   |-> Cardinality(NodesOf(d, v, Key(h, w[i])))]
  <2>1. PICK n \in 1 .. L + 1 :
            v[n] = w[i] /\ \A m \in 1 .. n - 1 : v[m] = a \/ \E j \in 1 .. i - 1 : v[m] = w[j]
    BY <1>12
  <2>2. Key(d, v[n]) = Key(h, w[i])
    BY <1>2, <1>11, <2>1
  <2>3. Foremost(d, v, n)
    <3>1. ASSUME NEW m \in 1 .. n - 1 PROVE Key(d, v[m]) # Key(h, w[i])
      <4>1. CASE v[m] = a
        BY <1>11, <1>17, <4>1
      <4>2. CASE v[m] # a
        <5>1. PICK j \in 1 .. i - 1 : v[m] = w[j]
          BY <2>1, <4>2
        <5>2. j \in 1 .. L /\ Key(d, w[j]) = Key(h, w[j])
          BY <1>2, <1>11
        <5> QED BY <1>17, <5>1, <5>2 DEF Foremost
      <4> QED BY <4>1, <4>2
    <3> QED BY <2>2, <3>1 DEF Foremost
  <2>4. e[Key(d, v[n])] = [previous |-> Link(d, d.node[v[n]].previous),
                           copies   |-> Cardinality(NodesOf(d, v, Key(d, v[n])))]
    BY <1>7, <2>3
  <2>5. Link(d, d.node[v[n]].previous) = Link(h, h.node[w[i]].previous)
    BY <1>2, <1>16, <2>1
  <2> QED BY <2>2, <2>4, <2>5
<1>18. e[k] = [previous |-> Link(d, d.node[a].previous), copies |-> Cardinality(NodesOf(d, v, k))]
  <2>1. Foremost(d, v, q)
    <3>1. ASSUME NEW n \in 1 .. q - 1 PROVE Key(d, v[n]) # k
      <4>1. n \in 1 .. L /\ v[n] = w[n] /\ n < q
        BY <1>3, <1>12
      <4>2. Key(d, v[n]) = Key(h, w[n]) /\ Key(h, w[n]) < k
        BY <1>2, <1>3, <1>11, <4>1
      <4> QED BY <1>2, <1>3, <4>1, <4>2
    <3> QED BY <1>11, <1>12, <3>1 DEF Foremost
  <2> QED BY <1>3, <1>7, <1>11, <1>12, <2>1
<1>19. Abstract!Before(c, k) = {Key(h, w[i]) : i \in {n \in 1 .. L : n < q}}
  BY <1>2, <1>3, <1>6 DEF Abstract!Before
<1>20. CASE k \in DOMAIN c
  <2>1. PICK i \in 1 .. L : k = Key(h, w[i])
    BY <1>6, <1>20
  <2>2. q = 1 /\ Key(h, w[1]) = k
    BY <2>1, KnownPlace DEF w
  <2>3. Abstract!Before(c, k) = {}
    BY <1>2, <1>19, <2>2
  <2>4. Abstract!hashing_insert(c, k) = [c EXCEPT ![k].copies = @ + 1]
    BY <1>20, <2>3 DEF Abstract!hashing_insert
  <2>5. c[k] = [previous |-> NULL, copies |-> Cardinality(NodesOf(h, w, k))]
    <3>1. 1 \in 1 .. L /\ L # 0 /\ Foremost(h, w, 1)
      BY <1>2, <2>1 DEF Foremost
    <3>2. Link(h, h.node[w[1]].previous) = NULL
      BY <1>2, <1>9, <3>1
    <3> QED BY <1>6, <2>2, <3>1, <3>2
  <2>6. e[k] = [previous |-> NULL, copies |-> Cardinality(NodesOf(h, w, k)) + 1]
    <3>1. NodesOf(d, v, k) = NodesOf(h, w, k) \cup {a} /\ a \notin NodesOf(h, w, k)
      BY <1>13, <1>15 DEF NodesOf
    <3>2. Cardinality(NodesOf(d, v, k)) = Cardinality(NodesOf(h, w, k)) + 1
      BY <1>10, <3>1, FS_AddElement
    <3>3. Link(d, d.node[a].previous) = NULL
      BY <1>9, <1>11, <2>2
    <3> QED BY <1>18, <3>2, <3>3
  <2>7. ASSUME NEW x \in DOMAIN c, x # k PROVE e[x] = c[x]
    <3>1. PICK j \in 1 .. L : x = Key(h, w[j]) /\ Foremost(h, w, j)
      BY <1>6
    <3>2. NodesOf(d, v, x) = NodesOf(h, w, x)
      BY <1>15, <2>7
    <3> QED BY <1>6, <1>17, <2>7, <3>1, <3>2
  <2>8. DOMAIN e = DOMAIN c
    BY <1>14, <1>20
  <2>9. e[k] = [c[k] EXCEPT !.copies = @ + 1]
    BY <2>5, <2>6
  <2>10. e = [x \in DOMAIN c |-> IF x = k THEN [c[k] EXCEPT !.copies = @ + 1] ELSE c[x]]
    BY <1>7, <2>7, <2>8, <2>9
  <2> QED BY <1>6, <1>20, <2>4, <2>10 DEF c, e
<1>21. CASE k \notin DOMAIN c
  <2>1. Abstract!hashing_insert(c, k) =
            [x \in DOMAIN c \cup {k} |->
                IF x = k THEN [previous |-> Abstract!Pred(c, k), copies |-> 1] ELSE c[x]]
    BY <1>21 DEF Abstract!hashing_insert
  <2>2. Link(d, d.node[a].previous) = Abstract!Pred(c, k)
    <3>1. CASE q = 1
      <4>1. Abstract!Before(c, k) = {}
        BY <1>2, <1>19, <3>1
      <4> QED BY <1>9, <1>11, <3>1, <4>1 DEF Abstract!Pred
    <3>2. CASE q # 1
      <4>1. q - 1 \in 1 .. L /\ q - 1 < q
        BY <1>2, <1>3, <3>2
      <4>2. /\ Key(h, w[q - 1]) \in Abstract!Before(c, k)
            /\ Abstract!Before(c, k) \in SUBSET Nat
        BY <1>2, <1>19, <4>1
      <4>3. \A x \in Abstract!Before(c, k) : x <= Key(h, w[q - 1])
        <5>1. ASSUME NEW n \in 1 .. L, n < q PROVE Key(h, w[n]) <= Key(h, w[q - 1])
          <6>1. n = q - 1 \/ n < q - 1
            BY <1>3, <5>1
          <6> QED BY <1>2, <4>1, <6>1
        <5> QED BY <1>19, <5>1
      <4>4. Abstract!Pred(c, k) = Key(h, w[q - 1])
        <5>1. Max(Abstract!Before(c, k)) = Key(h, w[q - 1])
          BY <4>2, <4>3, MaxIs
        <5> QED BY <4>2, <5>1 DEF Abstract!Pred, Max, Abstract!Max
      <4>5. w[q - 1] \in Range(v) /\ w[q - 1] \in DOMAIN h.node
        BY <1>2, <1>13, <4>1
      <4> QED BY <1>9, <1>11, <3>2, <4>4, <4>5
    <3> QED BY <3>1, <3>2
  <2>3. Cardinality(NodesOf(d, v, k)) = 1
    <3>1. NodesOf(h, w, k) = {}
      BY <1>2, <1>6, <1>21 DEF NodesOf
    <3>2. NodesOf(d, v, k) = {a}
      BY <1>15, <3>1
    <3> QED BY <3>2, FS_Singleton
  <2>4. ASSUME NEW x \in DOMAIN c PROVE e[x] = c[x] /\ x # k
    <3>1. PICK j \in 1 .. L : x = Key(h, w[j]) /\ Foremost(h, w, j)
      BY <1>6
    <3>2. NodesOf(d, v, x) = NodesOf(h, w, x) /\ x # k
      BY <1>15, <1>21
    <3> QED BY <1>6, <1>17, <3>1, <3>2
  <2>5. e = [x \in DOMAIN c \cup {k} |->
                IF x = k THEN [previous |-> Abstract!Pred(c, k), copies |-> 1] ELSE c[x]]
    BY <1>7, <1>14, <1>18, <2>2, <2>3, <2>4
  <2> QED BY <2>1, <2>5 DEF c, e
<1> QED
  BY <1>20, <1>21

\* Inserting keeps the chain and is inserting in the bucket.
LEMMA InsertMaps ==
    ASSUME NEW h, ChainOK(h), NEW k \in Keys, Unused(h) # {}
    PROVE  /\ ChainOK(insert(h, k))
           /\ AsBucket(insert(h, k)) = Abstract!hashing_insert(AsBucket(h), k)
<1> DEFINE w == Walk(h)
           L == Len(w)
           a == Min(Unused(h))
           c == AsBucket(h)
<1>1. a \in Addresses /\ a \notin DOMAIN h.node /\ \A b \in DOMAIN h.node : h.node[b].previous # a
  BY UnusedIs DEF ChainOK
<1>2. \/ /\ insert(h, k) = h
         /\ L # 0 /\ Key(h, w[1]) < k
         /\ \E i \in 1 .. L : Key(h, w[i]) = k
      \/ \E q : PlaceOf(h, w, q, k) /\ Spliced(h, insert(h, k), w, q, a, k)
  BY InsertSplices
<1> HIDE DEF a
<1>3. CASE insert(h, k) = h /\ L # 0 /\ Key(h, w[1]) < k /\ \E i \in 1 .. L : Key(h, w[i]) = k
  <2>1. DOMAIN c = {Key(h, w[i]) : i \in 1 .. L}
    BY BucketOf
  <2>0. L \in Nat
    BY ChainFacts
  <2> HIDE DEF w, c
  <2>2. k \in DOMAIN c /\ Key(h, w[1]) \in Abstract!Before(c, k)
    BY <1>3, <2>0, <2>1 DEF Abstract!Before
  <2>3. Abstract!hashing_insert(c, k) = c
    BY <2>2 DEF Abstract!hashing_insert
  <2> QED BY <1>3, <2>3 DEF c
<1>4. ASSUME NEW q, PlaceOf(h, w, q, k), Spliced(h, insert(h, k), w, q, a, k)
      PROVE  /\ ChainOK(insert(h, k))
             /\ AsBucket(insert(h, k)) = Abstract!hashing_insert(c, k)
  BY <1>1, <1>4, SplicedChain, SplicedBucket
<1> QED
  BY <1>2, <1>3, <1>4

\* Every pointer of h names one of its nodes, or none.
Closed(h) == Named(h) \subseteq DOMAIN h.node \cup {NULL}

\* Inserting adds at most one node, and no pointer to a node that is not there.
LEMMA InsertGrows ==
    ASSUME NEW h, ChainOK(h), NEW k \in Keys, Unused(h) # {}
    PROVE  LET d == insert(h, k)
           IN  /\ Cardinality(DOMAIN d.node) <= Cardinality(DOMAIN h.node) + 1
               /\ Closed(h) => Closed(d)
<1> DEFINE w == Walk(h)
           L == Len(w)
           a == Min(Unused(h))
           d == insert(h, k)
<1>1. a \in Addresses /\ a \notin DOMAIN h.node
  BY UnusedIs DEF ChainOK
<1>2. d = h \/ \E q : PlaceOf(h, w, q, k) /\ Spliced(h, d, w, q, a, k)
  BY InsertSplices
<1>3. IsFiniteSet(DOMAIN h.node) /\ Cardinality(DOMAIN h.node) \in Nat
  BY MemoryAssumption, FS_Subset, FS_CardinalityType DEF ChainOK, IsHeap
<1>4. L \in Nat /\ \A i \in 1 .. L : w[i] \in DOMAIN h.node
  BY ChainFacts
<1>5. \A b \in DOMAIN h.node : h.node[b] \in Node
  BY DEF ChainOK, IsHeap
<1> HIDE DEF a, w, d
<1>6. ASSUME NEW q, PlaceOf(h, w, q, k), Spliced(h, d, w, q, a, k)
      PROVE  /\ Cardinality(DOMAIN d.node) <= Cardinality(DOMAIN h.node) + 1
             /\ Closed(h) => Closed(d)
  <2>1. /\ DOMAIN d.node = DOMAIN h.node \cup {a}
        /\ d.head = IF q = 1 THEN a ELSE h.head
        /\ d.node[a] = [element  |-> k,
                        next     |-> IF q <= L THEN w[q] ELSE NULL,
                        previous |-> IF q = 1 THEN NULL ELSE w[q - 1]]
        /\ \A b \in DOMAIN h.node :
              d.node[b] = IF q # 1 /\ b = w[q - 1] THEN [h.node[b] EXCEPT !.next = a]
                          ELSE h.node[b]
    BY <1>6 DEF Spliced
  <2>2. Cardinality(DOMAIN d.node) = Cardinality(DOMAIN h.node) + 1
    BY <1>1, <1>3, <2>1, FS_AddElement
  <2>3. ASSUME Closed(h) PROVE Closed(d)
    <3>1. /\ h.head \in DOMAIN h.node \cup {NULL}
          /\ \A b \in DOMAIN h.node : /\ h.node[b].next \in DOMAIN h.node \cup {NULL}
                                      /\ h.node[b].previous \in DOMAIN h.node \cup {NULL}
      BY <2>3 DEF Closed, Named
    <3>2. q \in 1 .. L + 1
      BY <1>6 DEF PlaceOf
    <3>3. d.head \in DOMAIN d.node \cup {NULL}
      BY <2>1, <3>1
    <3>4. d.node[a].next \in DOMAIN d.node \cup {NULL} /\ d.node[a].previous \in DOMAIN d.node \cup {NULL}
      <4>1. q <= L => w[q] \in DOMAIN d.node
        BY <1>4, <2>1, <3>2
      <4>2. q # 1 => w[q - 1] \in DOMAIN d.node
        BY <1>4, <2>1, <3>2
      <4> QED BY <2>1, <4>1, <4>2
    <3>5. ASSUME NEW b \in DOMAIN h.node
          PROVE  /\ d.node[b].next \in DOMAIN d.node \cup {NULL}
                 /\ d.node[b].previous \in DOMAIN d.node \cup {NULL}
      <4>1. d.node[b] = [h.node[b] EXCEPT !.next = a] \/ d.node[b] = h.node[b]
        BY <2>1
      <4>2. h.node[b] \in Node
        BY <1>5
      <4>3. CASE d.node[b] = h.node[b]
        BY <2>1, <3>1, <4>3
      <4>4. CASE d.node[b] = [h.node[b] EXCEPT !.next = a]
        <5>1. d.node[b].next = a /\ d.node[b].previous = h.node[b].previous
          BY <4>2, <4>4 DEF Node
        <5> QED BY <2>1, <3>1, <5>1
      <4> QED BY <4>1, <4>3, <4>4
    <3> QED BY <2>1, <3>3, <3>4, <3>5 DEF Closed, Named
  <2> QED BY <1>3, <2>2, <2>3
<1> QED
  BY <1>2, <1>3, <1>6 DEF d

-------------------------------------------------------------------------------
\* hashing_delete.

\* What a chain's pointers lead to is there.
LEMMA NotDangling ==
    ASSUME NEW h, ChainOK(h)
    PROVE  ~Dangling(h)
<1> DEFINE w == Walk(h)
           L == Len(w)
<1>1. /\ L \in Nat
      /\ \A i \in 1 .. L : w[i] \in DOMAIN h.node
      /\ L = 0 => h.head = NULL
      /\ L # 0 => h.head = w[1] /\ h.node[w[L]].next = NULL
      /\ \A i \in 1 .. L - 1 : h.node[w[i]].next = w[i + 1]
      /\ Range(w) = {w[i] : i \in 1 .. L}
  BY ChainFacts
<1> HIDE DEF w
<1>2. h.head = NULL \/ h.head \in DOMAIN h.node
  BY <1>1
<1>3. ASSUME NEW a \in Range(w) PROVE h.node[a].next = NULL \/ h.node[a].next \in DOMAIN h.node
  <2>1. PICK i \in 1 .. L : a = w[i]
    BY <1>1
  <2>2. CASE i = L
    BY <1>1, <2>1, <2>2
  <2>3. CASE i # L
    <3>1. i \in 1 .. L - 1 /\ i + 1 \in 1 .. L
      BY <1>1, <2>3
    <3> QED BY <1>1, <2>1, <3>1
  <2> QED BY <2>2, <2>3
<1> QED
  BY <1>2, <1>3 DEF Dangling, w

\* The heap that remains when the node a of h is unlinked and freed: what its
\* previous and next pointers name is joined.
Left(h, a) ==
    LET p == h.node[a].previous
        n == h.node[a].next
    IN  [head |-> IF p = NULL THEN n ELSE h.head,
         node |-> Free(Set(Set(h.node, p, "next", n), n, "previous", p), a)]

\* Deleting leaves that heap, unless a pointer names memory that has been freed.
LEMMA DeleteIs ==
    ASSUME NEW h, IsHeap(h), NEW k, Lookup(h, k) # 0
    PROVE  LET a == Walk(h)[Lookup(h, k)]
           IN  delete(h, k) = IF \/ h.node[a].previous \notin DOMAIN h.node \cup {NULL}
                                 \/ Dangling(Left(h, a))
                              THEN Wild ELSE Left(h, a)
<1> DEFINE a == Walk(h)[Lookup(h, k)]
           p == h.node[a].previous
           n == h.node[a].next
           left == IF p = NULL
                   THEN [head |-> n, node |-> Free(Set(h.node, n, "previous", NULL), a)]
                   ELSE IF n = NULL
                   THEN [h EXCEPT !.node = Free(Set(@, p, "next", NULL), a)]
                   ELSE [h EXCEPT !.node =
                           Free(Set(Set(@, p, "next", n), n, "previous", p), a)]
<1>1. delete(h, k) = IF p \notin DOMAIN h.node \cup {NULL} THEN Wild
                     ELSE IF Dangling(left) THEN Wild ELSE left
  BY DEF delete
<1>2. h = [head |-> h.head, node |-> h.node]
  BY DEF IsHeap
<1> HIDE DEF a, p, n
<1>3. left = Left(h, a)
  <2>1. \A node : [h EXCEPT !.node = node] = [head |-> h.head, node |-> node]
    BY <1>2
  <2>2. \A node, f, v : Set(node, NULL, f, v) = node
    BY DEF Set
  <2>3. CASE p = NULL
    BY <2>2, <2>3 DEF Left, p, n
  <2>4. CASE p # NULL /\ n = NULL
    BY <2>1, <2>2, <2>4 DEF Left, p, n
  <2>5. CASE p # NULL /\ n # NULL
    BY <2>1, <2>5 DEF Left, p, n
  <2> QED BY <2>3, <2>4, <2>5
<1> HIDE DEF left
<1> QED
  BY <1>1, <1>3 DEF a, p

\* The nodes that remain: the one in front points past a, the one behind back past it.
LEMMA LeftIs ==
    ASSUME NEW h, IsHeap(h), NEW a \in DOMAIN h.node,
           h.node[a].previous \in (DOMAIN h.node \ {a}) \cup {NULL},
           h.node[a].next \in (DOMAIN h.node \ {a}) \cup {NULL}
    PROVE  LET p == h.node[a].previous
               n == h.node[a].next
               d == Left(h, a)
           IN  /\ IsHeap(d)
               /\ DOMAIN d.node = DOMAIN h.node \ {a}
               /\ d.head = IF p = NULL THEN n ELSE h.head
               /\ \A b \in DOMAIN d.node :
                     /\ Key(d, b) = Key(h, b)
                     /\ d.node[b].next = IF b = p THEN n ELSE h.node[b].next
                     /\ d.node[b].previous = IF b = n THEN p ELSE h.node[b].previous
<1> DEFINE p == h.node[a].previous
           n == h.node[a].next
           S == DOMAIN h.node
           m == Set(h.node, p, "next", n)
           o == Set(m, n, "previous", p)
           r == Free(o, a)
           d == Left(h, a)
<1>1. /\ S \in SUBSET Addresses /\ NULL \notin S /\ \A b \in S : h.node[b] \in Node
      /\ On(h.node, S) /\ h.head \in Pointer
  BY PointerAssumption DEF IsHeap, On
<1>2. p \in Pointer /\ n \in Pointer /\ p \in S \cup {NULL} /\ n \in S \cup {NULL}
  BY <1>1 DEF Pointer
<1>3. d = [head |-> IF p = NULL THEN n ELSE h.head, node |-> r]
  BY DEF Left
<1> HIDE DEF p, n, S
<1>4. /\ On(m, S)
      /\ \A b \in S : m[b] = IF b = p THEN [h.node[b] EXCEPT !.next = n] ELSE h.node[b]
  BY <1>1, <1>2 DEF Set, On
<1> HIDE DEF m
<1>5. /\ On(o, S)
      /\ \A b \in S : o[b] = IF b = n THEN [m[b] EXCEPT !.previous = p] ELSE m[b]
  <2>1. o = IF n = NULL THEN m ELSE [m EXCEPT ![n].previous = p]
    BY DEF Set
  <2> HIDE DEF o
  <2>2. CASE n = NULL
    BY <1>1, <1>4, <2>1, <2>2
  <2>3. CASE n # NULL
    BY <1>2, <1>4, <2>1, <2>3 DEF On
  <2> QED BY <2>2, <2>3
<1> HIDE DEF o
<1>6. On(r, S \ {a}) /\ \A b \in S \ {a} : r[b] = o[b]
  BY <1>5 DEF Free, Restrict, On
<1> HIDE DEF r
<1>7. ASSUME NEW b \in S \ {a}
      PROVE  /\ r[b] \in Node
             /\ r[b].element = h.node[b].element
             /\ r[b].next = IF b = p THEN n ELSE h.node[b].next
             /\ r[b].previous = IF b = n THEN p ELSE h.node[b].previous
  <2>1. h.node[b] \in Node
    BY <1>1
  <2>2. /\ m[b] \in Node /\ m[b].element = h.node[b].element
        /\ m[b].previous = h.node[b].previous
        /\ m[b].next = IF b = p THEN n ELSE h.node[b].next
    BY <1>2, <1>4, <2>1 DEF Node
  <2>3. /\ o[b] \in Node /\ o[b].element = m[b].element
        /\ o[b].next = m[b].next
        /\ o[b].previous = IF b = n THEN p ELSE m[b].previous
    BY <1>2, <1>5, <2>2 DEF Node
  <2> QED BY <1>6, <2>2, <2>3
<1>8. S \ {a} \in SUBSET Addresses /\ (IF p = NULL THEN n ELSE h.head) \in Pointer
  BY <1>1, <1>2
<1>9. IsHeap(d)
  BY <1>3, <1>6, <1>7, <1>8, HeapFrom
<1>10. d.head = (IF p = NULL THEN n ELSE h.head) /\ d.node = r /\ DOMAIN r = S \ {a}
  BY <1>3, <1>6 DEF On
<1> HIDE DEF d
<1> QED
  BY <1>7, <1>9, <1>10 DEF Key, d, p, n, S

\* The nodes in front of the place after j, and behind the place i, of the chain w.
InFront(w, j) == IF j = 0 THEN NULL ELSE w[j]
Behind(w, i)  == IF i < Len(w) THEN w[i + 1] ELSE NULL

\* d is the heap h with the nodes of its chain w after j, up to i, left out of the
\* chain, and the last of them freed.
Cut(h, d, w, j, i) ==
    /\ IsHeap(d)
    /\ DOMAIN d.node = DOMAIN h.node \ {w[i]}
    /\ d.head = IF j = 0 THEN Behind(w, i) ELSE h.head
    /\ \A b \in DOMAIN d.node :
          /\ Key(d, b) = Key(h, b)
          /\ d.node[b].next = IF b = InFront(w, j) THEN Behind(w, i) ELSE h.node[b].next
          /\ d.node[b].previous = IF b = Behind(w, i) THEN InFront(w, j)
                                  ELSE h.node[b].previous

\* The chain that is left, and the place each of its nodes had.
PlaceIn(j, i, n) == IF n <= j THEN n ELSE n + (i - j)
Kept(w, j, i) == [n \in 1 .. Len(w) - (i - j) |-> w[PlaceIn(j, i, n)]]

\* What is left is a sequence, shorter by the nodes cut out.
LEMMA KeptIs ==
    ASSUME NEW T, NEW w \in Seq(T), NEW i \in 1 .. Len(w), NEW j \in 0 .. i - 1
    PROVE  LET M == Len(w) - (i - j)
               v == Kept(w, j, i)
           IN  /\ M \in Nat /\ M = j + (Len(w) - i)
               /\ v \in Seq(T) /\ Len(v) = M /\ DOMAIN v = 1 .. M
               /\ \A n \in 1 .. M : /\ v[n] = w[PlaceIn(j, i, n)]
                                    /\ PlaceIn(j, i, n) \in 1 .. Len(w)
                                    /\ PlaceIn(j, i, n) <= j \/ PlaceIn(j, i, n) > i
               /\ \A n \in 1 .. j : n \in 1 .. M /\ v[n] = w[n]
               /\ \A m \in i + 1 .. Len(w) : m - (i - j) \in j + 1 .. M /\ v[m - (i - j)] = w[m]
               /\ \A m, n \in 1 .. M : m < n <=> PlaceIn(j, i, m) < PlaceIn(j, i, n)
<1> DEFINE M == Len(w) - (i - j)
           v == Kept(w, j, i)
<1>1. M \in Nat /\ M = j + (Len(w) - i) /\ Len(w) \in Nat /\ w \in [1 .. Len(w) -> T]
  OBVIOUS
<1>2. ASSUME NEW n \in 1 .. M
      PROVE  /\ PlaceIn(j, i, n) \in 1 .. Len(w)
             /\ PlaceIn(j, i, n) <= j \/ PlaceIn(j, i, n) > i
  BY DEF PlaceIn
<1>3. v = [n \in 1 .. M |-> w[PlaceIn(j, i, n)]]
  BY DEF Kept
<1> HIDE DEF v
<1>4. v \in [1 .. M -> T]
  BY <1>1, <1>2, <1>3
<1>5. v \in Seq(T) /\ Len(v) = M /\ DOMAIN v = 1 .. M
  BY <1>1, <1>4
<1>6. \A n \in 1 .. M : v[n] = w[PlaceIn(j, i, n)]
  BY <1>3
<1>7. \A n \in 1 .. j : n \in 1 .. M /\ v[n] = w[n]
  <2>1. ASSUME NEW n \in 1 .. j PROVE n \in 1 .. M /\ PlaceIn(j, i, n) = n
    BY <1>1 DEF PlaceIn
  <2> QED BY <1>6, <2>1
<1>8. ASSUME NEW m \in i + 1 .. Len(w)
      PROVE  m - (i - j) \in j + 1 .. M /\ v[m - (i - j)] = w[m]
  <2>1. m - (i - j) \in j + 1 .. M /\ m - (i - j) \in 1 .. M /\ PlaceIn(j, i, m - (i - j)) = m
    BY <1>1 DEF PlaceIn
  <2> QED BY <1>6, <2>1
<1>9. \A m, n \in 1 .. M : m < n <=> PlaceIn(j, i, m) < PlaceIn(j, i, n)
  BY <1>1 DEF PlaceIn
<1> HIDE DEF M
<1> QED
  BY <1>1, <1>2, <1>5, <1>6, <1>7, <1>8, <1>9 DEF M, v

\* What is left of a chain when what follows the rearmost node of a key, or the
\* head, is cut out up to i, is a chain.
LEMMA CutChain ==
    ASSUME NEW h, ChainOK(h), NEW i \in 1 .. Len(Walk(h)), NEW j \in 0 .. i - 1,
           j # 0 => Key(h, Walk(h)[j]) < Key(h, Walk(h)[j + 1]),
           NEW d, Cut(h, d, Walk(h), j, i)
    PROVE  Walk(d) = Kept(Walk(h), j, i) /\ ChainOK(d)
<1> DEFINE w == Walk(h)
           L == Len(w)
           M == L - (i - j)
           v == Kept(w, j, i)
           Pos(n) == PlaceIn(j, i, n)
<1>1. /\ L \in Nat /\ w \in Seq(DOMAIN h.node)
      /\ \A n \in 1 .. L : w[n] \in DOMAIN h.node /\ Key(h, w[n]) \in Nat
      /\ \A m, n \in 1 .. L : w[m] = w[n] => m = n
      /\ L = 0 => h.head = NULL
      /\ L # 0 => h.head = w[1] /\ h.node[w[L]].next = NULL
      /\ \A n \in 1 .. L - 1 : h.node[w[n]].next = w[n + 1]
      /\ \A m, n \in 1 .. L : m < n => Key(h, w[m]) <= Key(h, w[n])
      /\ L # 0 => h.node[w[1]].previous = NULL
  BY ChainFacts
<1>2. /\ NULL \notin DOMAIN h.node
      /\ \A m, n \in 1 .. L :
            w[n] = h.node[w[m]].previous => n < m /\ Key(h, w[n]) < Key(h, w[n + 1])
  <2>1. DOMAIN w = 1 .. L
    BY <1>1
  <2>2. LooksBack(h, w) /\ IsHeap(h)
    BY DEF ChainOK, IsChain
  <2> HIDE DEF w
  <2> QED BY <2>1, <2>2, PointerAssumption DEF LooksBack, IsHeap
<1>3. /\ IsHeap(d)
      /\ DOMAIN d.node = DOMAIN h.node \ {w[i]}
      /\ d.head = IF j = 0 THEN Behind(w, i) ELSE h.head
      /\ \A b \in DOMAIN d.node :
            /\ Key(d, b) = Key(h, b)
            /\ d.node[b].next = IF b = InFront(w, j) THEN Behind(w, i) ELSE h.node[b].next
            /\ d.node[b].previous = IF b = Behind(w, i) THEN InFront(w, j)
                                    ELSE h.node[b].previous
  BY DEF Cut
<1>4. i \in 1 .. L /\ j \in 0 .. i - 1 /\ j \in 0 .. L /\ (j # 0 => Key(h, w[j]) < Key(h, w[j + 1]))
  BY <1>1
<1>5. /\ M \in Nat /\ M = j + (L - i)
      /\ v \in Seq(DOMAIN h.node) /\ Len(v) = M /\ DOMAIN v = 1 .. M
      /\ \A n \in 1 .. M : v[n] = w[Pos(n)] /\ Pos(n) \in 1 .. L /\ (Pos(n) <= j \/ Pos(n) > i)
      /\ \A n \in 1 .. j : n \in 1 .. M /\ v[n] = w[n]
      /\ \A m \in i + 1 .. L : m - (i - j) \in j + 1 .. M /\ v[m - (i - j)] = w[m]
      /\ \A m, n \in 1 .. M : m < n <=> Pos(m) < Pos(n)
  <2> HIDE DEF w
  <2>1. w \in Seq(DOMAIN h.node) /\ i \in 1 .. Len(w) /\ j \in 0 .. i - 1
    BY <1>1, <1>4
  <2> QED BY <2>1, KeptIs
<1> HIDE DEF w, v
\* The first and the last that are kept.
<1>6. /\ j # 0 => InFront(w, j) = w[j]
      /\ j = 0 => InFront(w, j) = NULL
      /\ i < L => Behind(w, i) = w[i + 1] /\ M >= j + 1 /\ v[j + 1] = w[i + 1]
      /\ ~(i < L) => Behind(w, i) = NULL /\ M = j
  <2>1. i < L => i + 1 \in i + 1 .. L /\ (i + 1) - (i - j) = j + 1
    BY <1>1, <1>4
  <2>2. i < L => j + 1 \in j + 1 .. M /\ v[j + 1] = w[i + 1]
    BY <1>5, <2>1
  <2> QED BY <1>1, <1>4, <1>5, <2>2 DEF InFront, Behind
<1>7. \A n \in 1 .. M : v[n] \in DOMAIN d.node /\ Key(d, v[n]) = Key(h, w[Pos(n)])
  <2>1. ASSUME NEW n \in 1 .. M PROVE v[n] \in DOMAIN d.node /\ Key(d, v[n]) = Key(h, w[Pos(n)])
    <3>1. v[n] = w[Pos(n)] /\ Pos(n) \in 1 .. L /\ Pos(n) # i
      BY <1>1, <1>4, <1>5
    <3> QED BY <1>1, <1>3, <1>4, <3>1
  <2> QED BY <2>1
<1>8. \A m, n \in 1 .. M : v[m] = v[n] => m = n
  <2>1. ASSUME NEW m \in 1 .. M, NEW n \in 1 .. M, v[m] = v[n] PROVE m = n
    <3>0. Pos(m) \in 1 .. L /\ Pos(n) \in 1 .. L /\ w[Pos(m)] = w[Pos(n)]
      BY <1>5, <2>1
    <3>1. Pos(m) = Pos(n)
      <4> HIDE DEF Pos
      <4> QED BY <1>1, <3>0
    <3>2. ~(m < n) /\ ~(n < m)
      BY <1>5, <3>1
    <3> QED BY <3>2
  <2> QED BY <2>1
<1>9. v \in Seq(DOMAIN d.node)
  <2> HIDE DEF M, Pos
  <2>1. v \in [1 .. M -> DOMAIN d.node]
    BY <1>5, <1>7
  <2>2. M \in Nat
    BY <1>5
  <2> QED BY <2>1, <2>2
<1>10. ASSUME NEW n \in 1 .. M PROVE v[n] = IF n = 1 THEN d.head ELSE d.node[v[n - 1]].next
  <2>1. CASE n <= j
    <3>1. j # 0 /\ v[n] = w[n] /\ n \in 1 .. L
      BY <1>4, <1>5, <2>1
    <3>2. CASE n = 1
      BY <1>1, <1>3, <3>1, <3>2
    <3>3. CASE n # 1
      <4>1. n - 1 \in 1 .. j /\ n - 1 \in 1 .. L - 1 /\ n - 1 \in 1 .. M /\ (n - 1) + 1 = n /\ n - 1 # j /\ n - 1 \in 1 .. L /\ j \in 1 .. L
        BY <1>4, <1>5, <2>1, <3>1, <3>3
      <4>2. v[n - 1] = w[n - 1] /\ v[n - 1] \in DOMAIN d.node /\ w[n - 1] # w[j]
        BY <1>1, <1>5, <1>7, <4>1
      <4>3. d.node[v[n - 1]].next = h.node[w[n - 1]].next
        BY <1>3, <1>6, <3>1, <4>2
      <4> QED BY <1>1, <3>1, <3>3, <4>1, <4>3
    <3> QED BY <3>2, <3>3
  <2>2. CASE n = j + 1
    <3>1. i < L /\ v[n] = w[i + 1] /\ Behind(w, i) = w[i + 1]
      BY <1>1, <1>4, <1>6, <2>2
    <3>2. CASE j = 0
      BY <1>3, <2>2, <3>1, <3>2
    <3>3. CASE j # 0
      <4>1. n # 1 /\ n - 1 = j /\ j \in 1 .. j /\ j \in 1 .. M
        BY <1>4, <2>2, <3>3
      <4>2. v[n - 1] = w[j] /\ v[n - 1] \in DOMAIN d.node
        BY <1>5, <1>7, <4>1
      <4> QED BY <1>3, <1>6, <3>1, <3>3, <4>1, <4>2
    <3> QED BY <3>2, <3>3
  <2>3. CASE n > j + 1
    <3>1. /\ n # 1 /\ n - 1 \in 1 .. M /\ Pos(n) = Pos(n - 1) + 1 /\ Pos(n - 1) # j
          /\ Pos(n - 1) \in 1 .. L - 1
      BY <1>1, <1>4, <1>5, <2>3 DEF PlaceIn
    <3>2. /\ v[n] = w[Pos(n)] /\ v[n - 1] = w[Pos(n - 1)] /\ v[n - 1] \in DOMAIN d.node
          /\ Pos(n - 1) \in 1 .. L
      BY <1>5, <1>7, <3>1
    <3>3. v[n - 1] # InFront(w, j)
      <4>1. CASE j = 0
        BY <1>2, <1>3, <1>6, <3>2, <4>1
      <4>2. CASE j # 0
        <5>1. j \in 1 .. L
          BY <1>4, <4>2
        <5> QED BY <1>1, <1>6, <3>1, <3>2, <4>2, <5>1
      <4> QED BY <4>1, <4>2
    <3>4. d.node[v[n - 1]].next = h.node[w[Pos(n - 1)]].next
      BY <1>3, <3>2, <3>3
    <3> QED BY <1>1, <3>1, <3>2, <3>4
  <2> QED BY <1>4, <2>1, <2>2, <2>3
<1>11. EndOf(d, v) = NULL
  <2>1. CASE M = 0
    <3>1. v = <<>> /\ j = 0 /\ ~(i < L)
      BY <1>1, <1>4, <1>5, <2>1, EmptySeq
    <3> QED BY <1>3, <1>6, <3>1 DEF EndOf
  <2>2. CASE M # 0 /\ i < L
    <3>1. L \in i + 1 .. L /\ L - (i - j) = M /\ M \in 1 .. M
      BY <1>1, <1>4, <1>5, <2>2
    <3>2. v[M] = w[L] /\ v[M] \in DOMAIN d.node /\ L \in 1 .. L
      <4>1. v[L - (i - j)] = w[L]
        BY <1>5, <3>1
      <4>2. L \in 1 .. L
        BY <1>1, <1>4, <2>2
      <4> HIDE DEF M
      <4> QED BY <1>7, <3>1, <4>1, <4>2
    <3>3. v[M] # InFront(w, j)
      <4>1. CASE j = 0
        BY <1>2, <1>3, <1>6, <3>2, <4>1
      <4>2. CASE j # 0
        <5>1. j \in 1 .. L /\ j # L
          BY <1>4, <2>2, <4>2
        <5> QED BY <1>1, <1>6, <3>2, <4>2, <5>1
      <4> QED BY <4>1, <4>2
    <3>4. d.node[v[M]].next = NULL
      BY <1>1, <1>3, <3>2, <3>3
    <3>5. v # <<>>
      BY <1>5, <2>2
    <3> QED BY <1>5, <3>4, <3>5 DEF EndOf
  <2>3. CASE M # 0 /\ ~(i < L)
    <3>1. M = j /\ j # 0 /\ j \in 1 .. j /\ j \in 1 .. M
      BY <1>4, <1>6, <2>3
    <3>2. v[M] = w[j] /\ v[M] \in DOMAIN d.node
      BY <1>5, <1>7, <3>1
    <3>3. d.node[v[M]].next = NULL
      BY <1>3, <1>6, <2>3, <3>1, <3>2
    <3>4. v # <<>>
      BY <1>5, <2>3
    <3> QED BY <1>5, <3>3, <3>4 DEF EndOf
  <2> QED BY <2>1, <2>2, <2>3
<1>12. Joined(d, v)
  <2>1. NULL \notin DOMAIN d.node
    BY <1>2, <1>3
  <2> QED BY <1>5, <1>8, <1>9, <1>10, <1>11, <2>1 DEF Joined
<1>13. Ascending(d, v)
  <2>1. ASSUME NEW m \in 1 .. M, NEW n \in 1 .. M, m < n PROVE Key(d, v[m]) <= Key(d, v[n])
    <3>1. Pos(m) < Pos(n) /\ Pos(m) \in 1 .. L /\ Pos(n) \in 1 .. L
      BY <1>5, <2>1
    <3> QED BY <1>1, <1>7, <3>1
  <2> QED BY <1>5, <2>1 DEF Ascending
<1>14. LooksBack(d, v)
  <2>1. ASSUME NEW m \in 1 .. M, NEW n \in 1 .. M, v[n] = d.node[v[m]].previous
        PROVE  n < m /\ Key(d, v[n]) < Key(d, v[n + 1])
    <3>1. CASE v[m] = Behind(w, i)
      <4>1. i < L /\ v[m] = v[j + 1] /\ j + 1 \in 1 .. M
        BY <1>2, <1>3, <1>4, <1>6, <1>7, <3>1
      <4>2. m = j + 1
        BY <1>8, <4>1
      <4>3. v[n] = InFront(w, j)
        BY <1>3, <1>7, <2>1, <3>1
      <4>4. j # 0 /\ v[n] = w[j]
        BY <1>2, <1>3, <1>6, <1>7, <4>3
      <4>5. j \in 1 .. j /\ j \in 1 .. M /\ v[j] = w[j]
        <5>1. j \in 1 .. j
          BY <1>4, <4>4
        <5> HIDE DEF M
        <5> QED BY <1>5, <5>1
      <4>6. n = j
        BY <1>8, <4>4, <4>5
      <4>7. Key(d, v[n]) = Key(h, w[j]) /\ Key(d, v[j + 1]) = Key(h, w[i + 1])
        <5>1. Pos(j) = j /\ Pos(j + 1) = i + 1
          BY <1>4 DEF PlaceIn
        <5> QED BY <1>7, <4>1, <4>5, <4>6, <5>1
      <4>8. Key(h, w[j + 1]) <= Key(h, w[i + 1])
        <5>1. j + 1 \in 1 .. L /\ i + 1 \in 1 .. L /\ j + 1 < i + 1
          BY <1>1, <1>4, <4>1
        <5> QED BY <1>1, <5>1
      <4>9. Key(h, w[j]) \in Nat /\ Key(h, w[j + 1]) \in Nat /\ Key(h, w[i + 1]) \in Nat
        <5>1. j \in 1 .. L /\ j + 1 \in 1 .. L /\ i + 1 \in 1 .. L
          BY <1>1, <1>4, <4>1, <4>5
        <5> QED BY <1>1, <5>1
      <4> QED BY <1>4, <4>2, <4>4, <4>6, <4>7, <4>8, <4>9
    <3>2. CASE v[m] # Behind(w, i)
      <4>1. w[Pos(n)] = h.node[w[Pos(m)]].previous /\ Pos(m) \in 1 .. L /\ Pos(n) \in 1 .. L
        BY <1>3, <1>5, <1>7, <2>1, <3>2
      <4>2. Pos(n) < Pos(m) /\ Key(h, w[Pos(n)]) < Key(h, w[Pos(n) + 1])
        BY <1>2, <4>1
      <4>3. n < m /\ n + 1 \in 1 .. M
        BY <1>5, <4>2
      <4>4. Pos(n) < Pos(n + 1) /\ Pos(n + 1) \in 1 .. L
        BY <1>5, <4>3
      <4>5. /\ Pos(n) + 1 \in 1 .. L
            /\ Pos(n) + 1 = Pos(n + 1) \/ Pos(n) + 1 < Pos(n + 1)
        BY <1>1, <4>1, <4>4
      <4>6. Key(h, w[Pos(n) + 1]) <= Key(h, w[Pos(n + 1)])
        BY <1>1, <4>4, <4>5
      <4>7. Key(d, v[n]) = Key(h, w[Pos(n)]) /\ Key(d, v[n + 1]) = Key(h, w[Pos(n + 1)])
        BY <1>7, <4>3
      <4>8. /\ Key(h, w[Pos(n)]) \in Nat /\ Key(h, w[Pos(n) + 1]) \in Nat
            /\ Key(h, w[Pos(n + 1)]) \in Nat
        BY <1>1, <4>1, <4>4, <4>5
      <4> HIDE DEF Pos
      <4> QED BY <4>2, <4>3, <4>6, <4>7, <4>8
    <3> QED BY <3>1, <3>2
  <2> QED BY <1>5, <2>1 DEF LooksBack
<1>15. M # 0 => d.node[d.head].previous = NULL
  <2>1. CASE j = 0 /\ M # 0
    <3>1. i < L /\ j + 1 \in 1 .. M
      BY <1>1, <1>4, <1>6, <2>1
    <3>2. d.head = Behind(w, i) /\ d.head \in DOMAIN d.node /\ InFront(w, j) = NULL
      BY <1>3, <1>6, <1>7, <2>1, <3>1
    <3> QED BY <1>3, <3>2
  <2>2. CASE j # 0
    <3>1. 1 \in 1 .. j /\ 1 \in 1 .. L /\ L # 0 /\ 1 \in 1 .. M
      BY <1>1, <1>4, <1>5, <2>2
    <3>2. d.head = w[1] /\ v[1] = w[1] /\ w[1] \in DOMAIN d.node
      BY <1>1, <1>3, <1>5, <1>7, <2>2, <3>1
    <3>3. w[1] # Behind(w, i)
      <4>1. i < L => i + 1 \in 1 .. L /\ i + 1 # 1
        BY <1>1, <1>4
      <4> QED BY <1>1, <1>2, <1>6, <3>1, <4>1
    <3> QED BY <1>1, <1>3, <3>1, <3>2, <3>3
  <2> QED BY <2>1, <2>2
<1>16. Walk(d) = v
  BY <1>3, <1>12, WalkIs
<1>17. IsChain(d, v)
  <2>1. v # <<>> => M # 0
    BY <1>5, EmptySeq
  <2> QED BY <1>11, <1>12, <1>13, <1>14, <1>15, <2>1 DEF IsChain
<1> QED
  BY <1>3, <1>16, <1>17 DEF ChainOK, v, w

\* The keys in front of the cut, and behind it.
FrontKeys(h, w, j)  == {Key(h, w[n]) : n \in 1 .. j}
BehindKeys(h, w, i) == {Key(h, w[n]) : n \in i + 1 .. Len(w)}

\* What HashTable says is left in front of k, and behind it, is.
LEMMA KeysKept ==
    ASSUME NEW h, ChainOK(h), NEW i \in 1 .. Len(Walk(h)), Foremost(h, Walk(h), i),
           NEW j \in 0 .. i - 1,
           j # 0 => Key(h, Walk(h)[j]) < Key(h, Walk(h)[j + 1]),
           Link(h, h.node[Walk(h)[i]].previous) = IF j = 0 THEN NULL ELSE Key(h, Walk(h)[j])
    PROVE  LET w == Walk(h)
               k == Key(h, w[i])
               c == AsBucket(h)
           IN  /\ k \in DOMAIN c
               /\ {x \in Abstract!Before(c, k) : c[k].previous # NULL /\ x <= c[k].previous}
                     = FrontKeys(h, w, j)
               /\ Abstract!After(c, k) \cup (IF c[k].copies > 1 THEN {k} ELSE {})
                     = BehindKeys(h, w, i)
               /\ \A n \in j + 1 .. i - 1 :
                     Key(h, w[n]) \notin FrontKeys(h, w, j) \cup BehindKeys(h, w, i)
               /\ \A x \in FrontKeys(h, w, j) : x \in Nat /\ x < k
               /\ \A x \in BehindKeys(h, w, i) : x \in Nat /\ x >= k
<1> DEFINE w == Walk(h)
           L == Len(w)
           k == Key(h, w[i])
           c == AsBucket(h)
<1>1. /\ L \in Nat
      /\ \A n \in 1 .. L : w[n] \in DOMAIN h.node /\ Key(h, w[n]) \in Nat /\ Key(h, w[n]) # NULL
      /\ \A m, n \in 1 .. L : w[m] = w[n] => m = n
      /\ \A m, n \in 1 .. L : m < n => Key(h, w[m]) <= Key(h, w[n])
      /\ Range(w) = {w[n] : n \in 1 .. L}
  BY ChainFacts, PointerAssumption
<1>2. /\ DOMAIN c = {Key(h, w[n]) : n \in 1 .. L}
      /\ c[k] = [previous |-> Link(h, h.node[w[i]].previous),
                 copies   |-> Cardinality(NodesOf(h, w, k))]
  BY BucketOf
<1>3. i \in 1 .. L /\ j \in 0 .. i - 1 /\ (j # 0 => Key(h, w[j]) < Key(h, w[j + 1]))
  OBVIOUS
<1>4. c[k].previous = IF j = 0 THEN NULL ELSE Key(h, w[j])
  BY <1>2
<1>5. c[k].copies = Cardinality(NodesOf(h, w, k)) /\ IsFiniteSet(NodesOf(h, w, k))
  BY <1>2, NodesAreFew
<1>6. Foremost(h, w, i)
  OBVIOUS
<1> HIDE DEF w, c
<1>7. k \in DOMAIN c /\ k \in Nat
  BY <1>1, <1>2, <1>3
<1>8. ASSUME NEW n \in 1 .. i - 1 PROVE n \in 1 .. L /\ Key(h, w[n]) \in Nat /\ Key(h, w[n]) < k
  <2>1. n \in 1 .. L /\ n < i
    BY <1>1, <1>3
  <2>2. Key(h, w[n]) # k
    BY <1>6 DEF Foremost
  <2> QED BY <1>1, <1>3, <2>1, <2>2
<1>9. ASSUME NEW n \in i + 1 .. L PROVE n \in 1 .. L /\ Key(h, w[n]) \in Nat /\ Key(h, w[n]) >= k
  <2>1. n \in 1 .. L /\ i < n
    BY <1>1, <1>3
  <2> QED BY <1>1, <1>3, <2>1
<1>10. ASSUME NEW n \in 1 .. j
       PROVE  n \in 1 .. i - 1 /\ j \in 1 .. L /\ Key(h, w[n]) <= Key(h, w[j])
  <2>1. n \in 1 .. L /\ j \in 1 .. L /\ (n = j \/ n < j) /\ n \in 1 .. i - 1
    BY <1>1, <1>3
  <2> QED BY <1>1, <2>1
<1>11. ASSUME NEW n \in j + 1 .. i - 1, j # 0
       PROVE  Key(h, w[j]) < Key(h, w[n]) /\ n \in 1 .. i - 1
  <2>1. /\ j \in 1 .. L /\ j + 1 \in 1 .. L /\ n \in 1 .. L /\ (n = j + 1 \/ j + 1 < n)
        /\ n \in 1 .. i - 1
    BY <1>1, <1>3, <1>11
  <2> QED BY <1>1, <1>3, <1>11, <2>1
<1>12. {x \in Abstract!Before(c, k) : c[k].previous # NULL /\ x <= c[k].previous}
          = FrontKeys(h, w, j)
  <2>1. CASE j = 0
    BY <1>4, <2>1 DEF FrontKeys
  <2>2. CASE j # 0
    <3>1. j \in 1 .. j /\ c[k].previous = Key(h, w[j])
      BY <1>3, <1>4, <2>2
    <3>2. j \in 1 .. L /\ c[k].previous # NULL
      BY <1>1, <1>10, <3>1
    <3>3. ASSUME NEW x \in DOMAIN c, x < k, x <= c[k].previous PROVE x \in FrontKeys(h, w, j)
      <4>1. PICK n \in 1 .. L : x = Key(h, w[n])
        BY <1>2
      <4>2. ~(n >= i)
        <5>1. n = i \/ i < n \/ n < i
          BY <1>3
        <5> QED BY <1>1, <1>3, <1>7, <3>3, <4>1, <5>1
      <4>3. ~(n \in j + 1 .. i - 1)
        <5>1. Key(h, w[j]) \in Nat /\ Key(h, w[n]) \in Nat /\ Key(h, w[n]) <= Key(h, w[j])
          BY <1>1, <3>1, <3>2, <3>3, <4>1
        <5>2. n \in j + 1 .. i - 1 => Key(h, w[j]) < Key(h, w[n])
          BY <1>11, <2>2
        <5> QED BY <5>1, <5>2
      <4>4. n \in 1 .. j
        BY <1>3, <4>2, <4>3
      <4> QED BY <4>1, <4>4 DEF FrontKeys
    <3>4. ASSUME NEW n \in 1 .. j
          PROVE  Key(h, w[n]) \in DOMAIN c /\ Key(h, w[n]) < k /\ Key(h, w[n]) <= c[k].previous
      BY <1>2, <1>8, <1>10, <3>1
    <3> QED BY <3>2, <3>3, <3>4 DEF FrontKeys, Abstract!Before
  <2> QED BY <2>1, <2>2
<1>13. c[k].copies > 1 <=> \E n \in i + 1 .. L : Key(h, w[n]) = k
  <2> DEFINE S == NodesOf(h, w, k)
  <2>1. w[i] \in S
    BY <1>1, <1>3 DEF NodesOf
  <2>2. ASSUME NEW n \in i + 1 .. L, Key(h, w[n]) = k PROVE Cardinality(S) > 1
    <3>1. n \in 1 .. L /\ n # i
      BY <1>3, <1>9
    <3>2. w[n] \in S /\ w[n] # w[i]
      BY <1>1, <1>3, <2>2, <3>1 DEF NodesOf
    <3> DEFINE T == {w[i]} \cup {w[n]}
    <3>3. Cardinality(T) = 2
      <4>1. IsFiniteSet({w[i]}) /\ Cardinality({w[i]}) = 1
        BY FS_Singleton
      <4>2. Cardinality(T) = Cardinality({w[i]}) + 1
        BY <3>2, <4>1, FS_AddElement
      <4> HIDE DEF T
      <4> QED BY <4>1, <4>2
    <3>4. T \in SUBSET S
      BY <2>1, <3>2
    <3> HIDE DEF T, S
    <3>5. Cardinality(T) <= Cardinality(S) /\ Cardinality(S) \in Nat
      BY <1>5, <3>4, FS_Subset, FS_CardinalityType DEF S
    <3> QED BY <3>3, <3>5
  <2>3. ASSUME ~\E n \in i + 1 .. L : Key(h, w[n]) = k PROVE Cardinality(S) = 1
    <3>1. ASSUME NEW b \in S PROVE b = w[i]
      <4>1. PICK n \in 1 .. L : b = w[n] /\ Key(h, w[n]) = k
        BY <1>1 DEF NodesOf
      <4>2. ~(n \in i + 1 .. L)
        BY <2>3, <4>1
      <4>3. ~(n \in 1 .. i - 1)
        BY <1>7, <1>8, <4>1
      <4>4. n = i
        BY <1>3, <4>2, <4>3
      <4> QED BY <4>1, <4>4
    <3>2. S = {w[i]}
      BY <2>1, <3>1
    <3> QED BY <3>2, FS_Singleton
  <2> QED BY <1>5, <2>2, <2>3
<1>14. Abstract!After(c, k) \cup (IF c[k].copies > 1 THEN {k} ELSE {}) = BehindKeys(h, w, i)
  <2>1. ASSUME NEW x \in DOMAIN c, x > k PROVE x \in BehindKeys(h, w, i)
    <3>1. PICK n \in 1 .. L : x = Key(h, w[n])
      BY <1>2
    <3>2. ~(n \in 1 .. i - 1) /\ n # i
      BY <1>7, <1>8, <2>1, <3>1
    <3>3. n \in i + 1 .. L
      BY <1>3, <3>1, <3>2
    <3> QED BY <3>1, <3>3 DEF BehindKeys
  <2>2. ASSUME NEW n \in i + 1 .. L
        PROVE  /\ Key(h, w[n]) \in DOMAIN c
               /\ Key(h, w[n]) > k \/ (Key(h, w[n]) = k /\ c[k].copies > 1)
    <3>1. n \in 1 .. L /\ Key(h, w[n]) \in Nat /\ Key(h, w[n]) >= k
      BY <1>9
    <3> QED BY <1>2, <1>7, <1>13, <3>1
  <2>3. c[k].copies > 1 => k \in BehindKeys(h, w, i)
    BY <1>13 DEF BehindKeys
  <2>4. BehindKeys(h, w, i) = {Key(h, w[n]) : n \in i + 1 .. L}
    BY DEF BehindKeys
  <2>5. ASSUME NEW x \in BehindKeys(h, w, i)
        PROVE  x \in DOMAIN c /\ (x > k \/ (x = k /\ c[k].copies > 1))
    BY <2>2, <2>4
  <2> HIDE DEF k
  <2> QED BY <2>1, <2>3, <2>5 DEF Abstract!After
<1>15. \A x \in FrontKeys(h, w, j) : x \in Nat /\ x < k
  BY <1>8, <1>10 DEF FrontKeys
<1>16. \A x \in BehindKeys(h, w, i) : x \in Nat /\ x >= k
  BY <1>9 DEF BehindKeys
<1>17. ASSUME NEW n \in j + 1 .. i - 1
       PROVE  Key(h, w[n]) \notin FrontKeys(h, w, j) \cup BehindKeys(h, w, i)
  <2>1. n \in 1 .. i - 1
    BY <1>3
  <2>2. Key(h, w[n]) \in Nat /\ Key(h, w[n]) < k
    BY <1>8, <2>1
  <2>3. Key(h, w[n]) \notin BehindKeys(h, w, i)
    BY <1>7, <1>16, <2>2
  <2>4. ASSUME NEW m \in 1 .. j PROVE Key(h, w[m]) # Key(h, w[n])
    <3>1. j # 0 /\ j \in 1 .. L /\ Key(h, w[m]) <= Key(h, w[j]) /\ m \in 1 .. i - 1
      BY <1>3, <1>10
    <3>2. Key(h, w[j]) < Key(h, w[n]) /\ Key(h, w[j]) \in Nat /\ Key(h, w[m]) \in Nat
      BY <1>1, <1>8, <1>11, <3>1
    <3> QED BY <2>2, <3>1, <3>2
  <2> QED BY <2>3, <2>4 DEF FrontKeys
<1> QED
  BY <1>7, <1>12, <1>14, <1>15, <1>16, <1>17 DEF w, c

\* What is cut out is deleted from the bucket.
LEMMA CutBucket ==
    ASSUME NEW h, ChainOK(h), NEW i \in 1 .. Len(Walk(h)), Foremost(h, Walk(h), i),
           NEW j \in 0 .. i - 1,
           j # 0 => Key(h, Walk(h)[j]) < Key(h, Walk(h)[j + 1]),
           h.node[Walk(h)[i]].previous = InFront(Walk(h), j),
           NEW d, Cut(h, d, Walk(h), j, i)
    PROVE  LET c == AsBucket(h)
               k == Key(h, Walk(h)[i])
           IN  AsBucket(d) = Abstract!hashing_delete(c, k) /\ ~Abstract!DeleteIsUndefined(c, k)
<1> DEFINE w == Walk(h)
           v == Walk(d)
           L == Len(w)
           M == L - (i - j)
           k == Key(h, w[i])
           c == AsBucket(h)
           e == AsBucket(d)
           Pos(n) == PlaceIn(j, i, n)
           F == FrontKeys(h, w, j)
           R == BehindKeys(h, w, i)
           p == IF j = 0 THEN NULL ELSE Key(h, w[j])
<1>1. /\ L \in Nat /\ w \in Seq(DOMAIN h.node)
      /\ \A n \in 1 .. L : /\ w[n] \in DOMAIN h.node
                           /\ Key(h, w[n]) \in Keys /\ Key(h, w[n]) \in Nat
      /\ \A m, n \in 1 .. L : w[m] = w[n] => m = n
      /\ \A m, n \in 1 .. L : m < n => Key(h, w[m]) <= Key(h, w[n])
      /\ Range(w) = {w[n] : n \in 1 .. L}
  BY ChainFacts
<1>2. /\ NULL \notin DOMAIN h.node
      /\ \A m, n \in 1 .. L :
            w[n] = h.node[w[m]].previous => n < m /\ Key(h, w[n]) < Key(h, w[n + 1])
  <2>1. DOMAIN w = 1 .. L
    BY <1>1
  <2>2. LooksBack(h, w) /\ IsHeap(h)
    BY DEF ChainOK, IsChain
  <2> HIDE DEF w
  <2> QED BY <2>1, <2>2, PointerAssumption DEF LooksBack, IsHeap
<1>3. /\ DOMAIN d.node = DOMAIN h.node \ {w[i]}
      /\ \A b \in DOMAIN d.node :
            /\ Key(d, b) = Key(h, b)
            /\ d.node[b].previous = IF b = Behind(w, i) THEN InFront(w, j)
                                    ELSE h.node[b].previous
  BY DEF Cut
<1>4. i \in 1 .. L /\ j \in 0 .. i - 1 /\ (j # 0 => Key(h, w[j]) < Key(h, w[j + 1]))
  BY <1>1
<1>5. v = Kept(w, j, i) /\ ChainOK(d)
  BY CutChain
<1>6. /\ M \in Nat /\ M = j + (L - i)
      /\ Len(v) = M
      /\ \A n \in 1 .. M : v[n] = w[Pos(n)] /\ Pos(n) \in 1 .. L /\ (Pos(n) <= j \/ Pos(n) > i)
      /\ \A n \in 1 .. j : n \in 1 .. M /\ v[n] = w[n]
      /\ \A m \in i + 1 .. L : m - (i - j) \in j + 1 .. M /\ v[m - (i - j)] = w[m]
      /\ \A m, n \in 1 .. M : m < n <=> Pos(m) < Pos(n)
  <2> HIDE DEF w, v
  <2>1. w \in Seq(DOMAIN h.node) /\ i \in 1 .. Len(w) /\ j \in 0 .. i - 1
    BY <1>1, <1>4
  <2>2. LET z == Kept(w, j, i)
        IN  /\ M \in Nat /\ M = j + (L - i)
            /\ Len(z) = M
            /\ \A n \in 1 .. M : z[n] = w[Pos(n)] /\ Pos(n) \in 1 .. L /\ (Pos(n) <= j \/ Pos(n) > i)
            /\ \A n \in 1 .. j : n \in 1 .. M /\ z[n] = w[n]
            /\ \A m \in i + 1 .. L : m - (i - j) \in j + 1 .. M /\ z[m - (i - j)] = w[m]
            /\ \A m, n \in 1 .. M : m < n <=> Pos(m) < Pos(n)
    BY <2>1, KeptIs
  <2> HIDE DEF M, L, Pos
  <2> QED BY <1>5, <2>2
<1>7. /\ DOMAIN c = {Key(h, w[n]) : n \in 1 .. L}
      /\ \A n \in 1 .. L :
            Foremost(h, w, n) =>
                c[Key(h, w[n])] = [previous |-> Link(h, h.node[w[n]].previous),
                                   copies   |-> Cardinality(NodesOf(h, w, Key(h, w[n])))]
  BY BucketOf
<1>8. /\ e = [x \in DOMAIN e |-> e[x]]
      /\ DOMAIN e = {Key(d, v[n]) : n \in 1 .. M}
      /\ \A x \in DOMAIN e : \E n \in 1 .. M : x = Key(d, v[n]) /\ Foremost(d, v, n)
      /\ \A n \in 1 .. M :
            Foremost(d, v, n) =>
                e[Key(d, v[n])] = [previous |-> Link(d, d.node[v[n]].previous),
                                   copies   |-> Cardinality(NodesOf(d, v, Key(d, v[n])))]
  <2>1. /\ e = [x \in DOMAIN e |-> e[x]]
        /\ DOMAIN e = {Key(d, v[n]) : n \in 1 .. Len(v)}
        /\ \A x \in DOMAIN e : \E n \in 1 .. Len(v) : x = Key(d, v[n]) /\ Foremost(d, v, n)
        /\ \A n \in 1 .. Len(v) :
              Foremost(d, v, n) =>
                e[Key(d, v[n])] = [previous |-> Link(d, d.node[v[n]].previous),
                                   copies   |-> Cardinality(NodesOf(d, v, Key(d, v[n])))]
    BY <1>5, BucketOf
  <2>2. Len(v) = M
    BY <1>6
  <2> HIDE DEF v, e, M
  <2> QED BY <2>1, <2>2
<1>9. Range(v) = {v[n] : n \in 1 .. M}
  <2>1. Range(v) = {v[n] : n \in 1 .. Len(v)}
    BY <1>5, ChainFacts
  <2>2. Len(v) = M
    BY <1>6
  <2> HIDE DEF v, M
  <2> QED BY <2>1, <2>2
<1>10. \A u : /\ u = NULL => Link(h, u) = NULL /\ Link(d, u) = NULL
              /\ u \in Range(w) => Link(h, u) = Key(h, u)
              /\ u \in Range(v) => Link(d, u) = Key(d, u)
              /\ u # NULL /\ u \notin Range(w) => Link(h, u) = Stale
              /\ u # NULL /\ u \notin Range(v) => Link(d, u) = Stale
  <2>1. Range(w) = {w[n] : n \in 1 .. Len(w)} /\ Range(v) = {v[n] : n \in 1 .. Len(v)}
    BY <1>5, ChainFacts
  <2> QED BY <1>5, <2>1, LinkIs
<1>11. \A x : IsFiniteSet(NodesOf(h, w, x))
  BY NodesAreFew
<1>12. /\ Foremost(h, w, i)
       /\ h.node[w[i]].previous = InFront(w, j)
  OBVIOUS
<1>13. Link(h, InFront(w, j)) = p
  <2> HIDE DEF w
  <2>1. j # 0 => w[j] \in Range(w)
    BY <1>1, <1>4
  <2> QED BY <1>10, <2>1 DEF InFront
<1>14. /\ k \in DOMAIN c
       /\ {x \in Abstract!Before(c, k) : c[k].previous # NULL /\ x <= c[k].previous} = F
       /\ Abstract!After(c, k) \cup (IF c[k].copies > 1 THEN {k} ELSE {}) = R
       /\ \A n \in j + 1 .. i - 1 : Key(h, w[n]) \notin F \cup R
       /\ \A x \in F : x \in Nat /\ x < k
       /\ \A x \in R : x \in Nat /\ x >= k
  <2>1. Link(h, h.node[w[i]].previous) = IF j = 0 THEN NULL ELSE Key(h, w[j])
    BY <1>12, <1>13
  <2> QED BY <2>1, KeysKept
<1> HIDE DEF w, v, c, e, Pos
<1>15. /\ c[k].previous = p
       /\ c[k].copies = Cardinality(NodesOf(h, w, k))
  <2>1. c[k] = [previous |-> Link(h, h.node[w[i]].previous),
                copies   |-> Cardinality(NodesOf(h, w, k))]
    BY <1>4, <1>7, <1>12
  <2> HIDE DEF k, p
  <2> QED BY <1>12, <1>13, <2>1
<1>16. ASSUME NEW n \in 1 .. M
       PROVE  /\ v[n] \in DOMAIN d.node /\ v[n] \in Range(w)
              /\ Key(d, v[n]) = Key(h, w[Pos(n)]) /\ Key(h, w[Pos(n)]) \in Nat
              /\ Pos(n) \in 1 .. L
  <2>1. v[n] = w[Pos(n)] /\ Pos(n) \in 1 .. L /\ Pos(n) # i
    BY <1>4, <1>6
  <2> QED BY <1>1, <1>3, <1>4, <2>1
<1>17. DOMAIN e = F \cup R
  <2>1. ASSUME NEW n \in 1 .. M PROVE Key(d, v[n]) \in F \cup R
    <3>1. Pos(n) \in 1 .. j \/ Pos(n) \in i + 1 .. L
      BY <1>4, <1>6
    <3> QED BY <1>16, <3>1 DEF FrontKeys, BehindKeys
  <2>2. ASSUME NEW n \in 1 .. j PROVE Key(h, w[n]) \in DOMAIN e
    <3>1. n \in 1 .. M /\ v[n] = w[n]
      BY <1>6
    <3>2. Key(d, v[n]) = Key(h, v[n])
      BY <1>3, <1>16, <3>1
    <3> QED BY <1>8, <3>1, <3>2
  <2>3. ASSUME NEW m \in i + 1 .. L PROVE Key(h, w[m]) \in DOMAIN e
    <3>1. m - (i - j) \in 1 .. M /\ v[m - (i - j)] = w[m]
      <4>1. m - (i - j) \in j + 1 .. M /\ v[m - (i - j)] = w[m]
        BY <1>6
      <4> QED BY <1>4, <4>1
    <3>2. Key(d, w[m]) = Key(h, w[m])
      BY <1>3, <1>16, <3>1
    <3> QED BY <1>8, <3>1, <3>2
  <2>4. \A x \in DOMAIN e : x \in F \cup R
    BY <1>8, <2>1
  <2>5. \A x \in F \cup R : x \in DOMAIN e
    BY <2>2, <2>3 DEF FrontKeys, BehindKeys
  <2> HIDE DEF F, R
  <2> QED BY <2>4, <2>5
<1> HIDE DEF F, R
\* The nodes of a key that is left are left, but for the one that is freed.
<1>18. ASSUME NEW x \in F \cup R PROVE NodesOf(d, v, x) = NodesOf(h, w, x) \ {w[i]}
  <2>1. ASSUME NEW b \in Range(v) PROVE b \in Range(w) /\ b # w[i] /\ Key(d, b) = Key(h, b)
    <3>1. PICK n \in 1 .. M : b = v[n]
      BY <1>9
    <3> QED BY <1>3, <1>16, <3>1
  <2>2. ASSUME NEW b \in Range(w), b # w[i], Key(h, b) = x PROVE b \in Range(v)
    <3>1. PICK n \in 1 .. L : b = w[n]
      BY <1>1
    <3>2. ~(n \in j + 1 .. i - 1)
      BY <1>14, <2>2, <3>1
    <3>3. n \in 1 .. j \/ n \in i + 1 .. L
      BY <1>4, <2>2, <3>1, <3>2
    <3>4. CASE n \in 1 .. j
      BY <1>6, <1>9, <3>1, <3>4
    <3>5. CASE n \in i + 1 .. L
      <4>1. n - (i - j) \in j + 1 .. M /\ v[n - (i - j)] = w[n]
        BY <1>6, <3>5
      <4>2. n - (i - j) \in 1 .. M
        BY <1>4, <4>1
      <4> QED BY <1>9, <3>1, <4>1, <4>2
    <3> QED BY <3>3, <3>4, <3>5
  <2> QED BY <2>1, <2>2 DEF NodesOf
<1>19. ASSUME NEW x \in F \cup R
       PROVE  Cardinality(NodesOf(d, v, x)) =
              IF x = k THEN Cardinality(NodesOf(h, w, k)) - 1 ELSE Cardinality(NodesOf(h, w, x))
  <2>1. CASE x = k
    <3>1. w[i] \in NodesOf(h, w, k)
      BY <1>1, <1>4 DEF NodesOf
    <3>2. Cardinality(NodesOf(h, w, k) \ {w[i]}) = Cardinality(NodesOf(h, w, k)) - 1
      BY <1>11, <3>1, FS_RemoveElement
    <3> QED BY <1>18, <2>1, <3>2
  <2>2. CASE x # k
    <3>1. w[i] \notin NodesOf(h, w, x)
      BY <2>2 DEF NodesOf
    <3>2. NodesOf(h, w, x) \ {w[i]} = NodesOf(h, w, x)
      BY <3>1
    <3> QED BY <1>18, <2>2, <3>2
  <2> QED BY <2>1, <2>2
\* Where a pointer of the chain that is left leads.
<1>20. ASSUME NEW m \in 1 .. L
       PROVE  Link(d, h.node[w[m]].previous) =
              IF Link(h, h.node[w[m]].previous) \in F \cup R \cup {NULL}
              THEN Link(h, h.node[w[m]].previous) ELSE Stale
  <2> DEFINE u == h.node[w[m]].previous
  <2>1. CASE u = NULL
    BY <1>10, <2>1
  <2>2. CASE u # NULL /\ u \notin Range(w)
    <3>1. u \notin Range(v)
      <4>1. ASSUME NEW b \in Range(v) PROVE b \in Range(w)
        BY <1>9, <1>16
      <4> QED BY <2>2, <4>1
    <3> QED BY <1>10, <2>2, <3>1
  <2>3. CASE u \in Range(w)
    <3>1. PICK n \in 1 .. L : u = w[n]
      BY <1>1, <2>3
    <3>2. n < m /\ Key(h, w[n]) < Key(h, w[n + 1])
      BY <1>2, <3>1
    <3>3. Link(h, u) = Key(h, w[n]) /\ Key(h, w[n]) # NULL
      BY <1>1, <1>10, <2>3, <3>1, PointerAssumption
    <3>4. CASE u \in Range(v)
      <4>1. PICK l \in 1 .. M : u = v[l]
        BY <1>9, <3>4
      <4>2. Key(d, u) = Key(h, u) /\ Key(d, u) \in F \cup R
        BY <1>3, <1>8, <1>16, <1>17, <4>1
      <4> QED BY <1>10, <2>3, <3>4, <4>2
    <3>5. CASE u \notin Range(v)
      <4>1. n \in j + 1 .. i - 1 \/ n = i
        <5>1. ~(n \in 1 .. j)
          BY <1>6, <1>9, <3>1, <3>5
        <5>2. ~(n \in i + 1 .. L)
          <6>1. ASSUME n \in i + 1 .. L PROVE FALSE
            <7>1. n - (i - j) \in j + 1 .. M /\ v[n - (i - j)] = w[n]
              BY <1>6, <6>1
            <7>2. n - (i - j) \in 1 .. M
              BY <1>4, <7>1
            <7> QED BY <1>9, <3>1, <3>5, <7>1, <7>2
          <6> QED BY <6>1
        <5> QED BY <1>4, <5>1, <5>2
      <4>2. Key(h, w[n]) \notin F \cup R
        <5>1. CASE n \in j + 1 .. i - 1
          BY <1>14, <5>1
        <5>2. CASE n = i
          <6>1. k \notin F
            BY <1>1, <1>4, <1>14
          <6>2. ASSUME NEW l \in i + 1 .. L PROVE Key(h, w[l]) # k
            <7>1. i + 1 \in 1 .. L /\ l \in 1 .. L /\ (l = i + 1 \/ i + 1 < l)
              BY <1>1, <1>4
            <7> QED BY <1>1, <1>4, <3>2, <5>2, <7>1
          <6>3. k \notin R
            BY <6>2 DEF R, BehindKeys
          <6> QED BY <5>2, <6>1, <6>3
        <5> QED BY <4>1, <5>1, <5>2
      <4>3. u # NULL
        BY <1>1, <1>2, <3>1
      <4> QED BY <1>10, <3>3, <3>5, <4>2, <4>3
    <3> QED BY <3>4, <3>5
  <2> QED BY <2>1, <2>2, <2>3
<1>21. ASSUME NEW x \in F \cup R
       PROVE  e[x] = [previous |-> IF x \in R /\ \A y \in R : x <= y THEN p
                                   ELSE IF c[x].previous \in F \cup R \cup {NULL}
                                   THEN c[x].previous ELSE Stale,
                      copies   |-> IF x = k THEN c[x].copies - 1 ELSE c[x].copies]
  <2>1. PICK n \in 1 .. M : x = Key(d, v[n]) /\ Foremost(d, v, n)
    BY <1>8, <1>17
  <2>2. e[x] = [previous |-> Link(d, d.node[v[n]].previous),
                copies   |-> Cardinality(NodesOf(d, v, x))]
    BY <1>8, <2>1
  <2>3. \A l \in 1 .. n - 1 : Key(h, w[Pos(l)]) # x
    <3>1. ASSUME NEW l \in 1 .. n - 1 PROVE Key(h, w[Pos(l)]) # x
      <4>1. Key(d, v[l]) # x /\ l \in 1 .. M
        BY <2>1 DEF Foremost
      <4> QED BY <1>16, <4>1
    <3> QED BY <3>1
  <2>4. /\ x = Key(h, w[Pos(n)]) /\ Pos(n) \in 1 .. L /\ v[n] = w[Pos(n)] /\ x \in Nat
        /\ v[n] \in DOMAIN d.node
    BY <1>6, <1>16, <2>1
  <2>5. CASE n = j + 1
    <3>1. Pos(n) = i + 1 /\ i + 1 \in i + 1 .. L
      BY <1>1, <1>4, <1>6, <2>5 DEF Pos, PlaceIn
    <3>2. x \in R /\ \A y \in R : x <= y
      <4>1. x \in R
        BY <2>4, <3>1 DEF R, BehindKeys
      <4>2. ASSUME NEW l \in i + 1 .. L PROVE x <= Key(h, w[l])
        <5>1. i + 1 \in 1 .. L /\ l \in 1 .. L /\ (l = i + 1 \/ i + 1 < l)
          BY <1>1, <1>4
        <5> QED BY <1>1, <2>4, <3>1, <5>1
      <4> QED BY <4>1, <4>2 DEF R, BehindKeys
    <3>3. v[n] = Behind(w, i)
      BY <1>1, <1>4, <2>4, <3>1 DEF Behind
    <3>4. Link(d, d.node[v[n]].previous) = p
      <4>1. d.node[v[n]].previous = InFront(w, j)
        BY <1>3, <2>4, <3>3
      <4>2. CASE j = 0
        BY <1>10, <4>1, <4>2 DEF InFront
      <4>3. CASE j # 0
        <5>1. j \in 1 .. j
          BY <1>4, <4>3
        <5>2. j \in 1 .. M /\ v[j] = w[j]
          BY <1>6, <5>1
        <5>3. w[j] \in Range(v) /\ w[j] \in DOMAIN d.node
          BY <1>9, <1>16, <5>2
        <5> QED BY <1>3, <1>10, <4>1, <4>3, <5>3 DEF InFront
      <4> QED BY <4>2, <4>3
    <3>5. Cardinality(NodesOf(d, v, x)) = IF x = k THEN c[x].copies - 1 ELSE c[x].copies
      <4>1. x # k => c[x].copies = Cardinality(NodesOf(h, w, x))
        <5>1. ASSUME x # k PROVE Foremost(h, w, i + 1)
          <6>1. ASSUME NEW l \in 1 .. (i + 1) - 1 PROVE Key(h, w[l]) # x
            <7>1. l \in 1 .. L /\ i \in 1 .. L /\ i < i + 1 /\ i + 1 \in 1 .. L /\ (l = i \/ l < i)
              BY <1>1, <1>4, <3>1
            <7>2. Key(h, w[l]) <= k /\ k <= x
              BY <1>1, <2>4, <3>1, <7>1
            <7> QED BY <1>1, <1>4, <2>4, <5>1, <7>1, <7>2
          <6> QED BY <2>4, <3>1, <6>1 DEF Foremost
        <5>2. i + 1 \in 1 .. L /\ x = Key(h, w[i + 1])
          BY <1>4, <2>4, <3>1
        <5>3. ASSUME x # k
              PROVE  c[Key(h, w[i + 1])] =
                        [previous |-> Link(h, h.node[w[i + 1]].previous),
                         copies   |-> Cardinality(NodesOf(h, w, Key(h, w[i + 1])))]
          BY <1>7, <5>1, <5>2, <5>3
        <5> HIDE DEF k
        <5> QED BY <5>2, <5>3
      <4> QED BY <1>15, <1>19, <4>1
    <3> QED BY <2>2, <3>2, <3>4, <3>5
  <2>6. CASE n # j + 1
    <3>1. Foremost(h, w, Pos(n))
      <4>1. ASSUME NEW l \in 1 .. Pos(n) - 1 PROVE Key(h, w[l]) # x
        <5>1. CASE l <= j
          <6>1. l \in 1 .. n - 1 /\ Pos(l) = l
            BY <1>4, <1>6, <2>4, <2>6, <5>1 DEF Pos, PlaceIn
          <6> QED BY <2>3, <6>1
        <5>2. CASE l > i
          <6>1. l - (i - j) \in 1 .. n - 1 /\ Pos(l - (i - j)) = l
            BY <1>4, <1>6, <2>4, <2>6, <5>2 DEF Pos, PlaceIn
          <6> QED BY <2>3, <6>1
        <5>3. CASE l > j /\ l < i
          <6>1. l \in j + 1 .. i - 1
            BY <1>4, <5>3
          <6> QED BY <1>14, <6>1
        <5>4. CASE l = i
          <6>1. Pos(n) > i + 1 /\ i + 1 \in 1 .. L /\ j + 1 \in 1 .. n - 1 /\ Pos(j + 1) = i + 1
            BY <1>1, <1>4, <1>6, <2>4, <2>6, <5>4 DEF Pos, PlaceIn
          <6>2. Key(h, w[i + 1]) # x
            BY <2>3, <6>1
          <6>3. k <= Key(h, w[i + 1]) /\ Key(h, w[i + 1]) <= x
            BY <1>1, <1>4, <2>4, <6>1
          <6> QED BY <1>1, <1>4, <2>4, <5>4, <6>1, <6>2, <6>3
        <5> QED BY <1>4, <2>4, <5>1, <5>2, <5>3, <5>4
      <4> QED BY <2>4, <4>1 DEF Foremost
    <3>2. c[x] = [previous |-> Link(h, h.node[w[Pos(n)]].previous),
                  copies   |-> Cardinality(NodesOf(h, w, x))]
      BY <1>7, <2>4, <3>1
    <3>3. ~(x \in R /\ \A y \in R : x <= y)
      <4>1. CASE n <= j
        <5>1. Pos(n) \in 1 .. j
          BY <1>4, <4>1 DEF Pos, PlaceIn
        <5>2. x \in F
          BY <2>4, <5>1 DEF F, FrontKeys
        <5> QED BY <1>1, <1>4, <1>14, <5>2
      <4>2. CASE ~(n <= j)
        <5>1. Pos(n) > i + 1 /\ i + 1 \in 1 .. L /\ j + 1 \in 1 .. n - 1 /\ Pos(j + 1) = i + 1
          <6>1. Pos(n) = n + (i - j) /\ n > j + 1 /\ n \in Nat /\ Pos(n) <= L
            BY <1>4, <2>4, <2>6, <4>2 DEF Pos, PlaceIn
          <6>2. Pos(j + 1) = i + 1
            BY <1>4 DEF Pos, PlaceIn
          <6> HIDE DEF M
          <6> QED BY <1>1, <1>4, <6>1, <6>2
        <5>2. Key(h, w[i + 1]) # x
          BY <2>3, <5>1
        <5>3. Key(h, w[i + 1]) <= x /\ Key(h, w[i + 1]) \in Nat
          BY <1>1, <2>4, <5>1
        <5>4. Key(h, w[i + 1]) \in R
          <6>1. i + 1 \in i + 1 .. L
            BY <1>4, <5>1
          <6> QED BY <6>1 DEF R, BehindKeys
        <5> QED BY <2>4, <5>2, <5>3, <5>4
      <4> QED BY <4>1, <4>2
    <3>4. d.node[v[n]].previous = h.node[w[Pos(n)]].previous
      <4>1. v[n] # Behind(w, i)
        <5>1. i < L => i + 1 \in 1 .. L /\ Pos(n) # i + 1
          BY <1>1, <1>4, <1>6, <2>4, <2>6 DEF Pos, PlaceIn
        <5> QED BY <1>1, <1>2, <2>4, <5>1 DEF Behind
      <4> QED BY <1>3, <2>4, <4>1
    <3>5. c[x].copies = Cardinality(NodesOf(h, w, x))
          /\ c[x].previous = Link(h, h.node[w[Pos(n)]].previous)
      BY <3>2
    <3>6. Cardinality(NodesOf(d, v, x)) = IF x = k THEN c[x].copies - 1 ELSE c[x].copies
      BY <1>19, <3>5
    <3>7. Link(d, d.node[v[n]].previous) =
             IF c[x].previous \in F \cup R \cup {NULL} THEN c[x].previous ELSE Stale
      BY <1>20, <2>4, <3>4, <3>5
    <3> QED BY <2>2, <3>3, <3>6, <3>7
  <2> QED BY <2>5, <2>6
<1>22. ~Abstract!DeleteIsUndefined(c, k)
  <2>1. p # Stale
    <3>1. j # 0 => Key(h, w[j]) \in Keys
      BY <1>1, <1>4
    <3> QED BY <3>1, PointerAssumption
  <2> HIDE DEF p
  <2> QED BY <1>15, <2>1 DEF Abstract!DeleteIsUndefined
<1>23. Abstract!hashing_delete(c, k) =
          [x \in F \cup R |->
              [previous |-> IF x \in R /\ \A y \in R : x <= y THEN c[k].previous
                            ELSE IF c[x].previous \in F \cup R \cup {NULL}
                            THEN c[x].previous ELSE Stale,
               copies   |-> IF x = k THEN c[x].copies - 1 ELSE c[x].copies]]
  <2> HIDE DEF k
  <2> QED BY <1>14 DEF Abstract!hashing_delete
<1>24. e = Abstract!hashing_delete(c, k)
  <2> HIDE DEF k, p
  <2>1. e = [x \in F \cup R |-> e[x]]
    BY <1>8, <1>17
  <2> QED BY <1>15, <1>21, <1>23, <2>1
<1> QED
  BY <1>22, <1>24 DEF c, e, w

\* When the previous pointer names a node that is no longer in the chain, the
\* pointer in front still leads to the node that is freed.
LEMMA LeakDangles ==
    ASSUME NEW h, ChainOK(h), NEW i \in 1 .. Len(Walk(h)),
           h.node[Walk(h)[i]].previous \in DOMAIN h.node \ Range(Walk(h))
    PROVE  Dangling(Left(h, Walk(h)[i]))
<1> DEFINE w == Walk(h)
           L == Len(w)
           a == w[i]
           d == Left(h, a)
           z == [n \in 1 .. i - 1 |-> w[n]]
           p == h.node[a].previous
<1>1. /\ L \in Nat /\ w \in Seq(DOMAIN h.node)
      /\ \A n \in 1 .. L : w[n] \in DOMAIN h.node
      /\ \A m, n \in 1 .. L : w[m] = w[n] => m = n
      /\ L # 0 => h.head = w[1] /\ h.node[w[L]].next = NULL
      /\ \A n \in 1 .. L - 1 : h.node[w[n]].next = w[n + 1]
      /\ L # 0 => h.node[w[1]].previous = NULL
      /\ Range(w) = {w[n] : n \in 1 .. L}
  BY ChainFacts
<1>2. IsHeap(h) /\ NULL \notin DOMAIN h.node
  BY PointerAssumption DEF ChainOK, IsHeap
<1>3. i \in 1 .. L /\ p \in DOMAIN h.node \ Range(w)
  BY <1>1
<1> HIDE DEF w
<1>4. i \in 2 .. L
  <2>1. i # 1
    BY <1>1, <1>2, <1>3
  <2> QED BY <1>1, <1>3, <2>1
<1>5. h.node[a].next \in (DOMAIN h.node \ {a}) \cup {NULL}
  <2>1. CASE i = L
    BY <1>1, <1>4, <2>1
  <2>2. CASE i # L
    <3>1. i \in 1 .. L - 1 /\ i + 1 \in 1 .. L /\ i + 1 # i /\ i \in 1 .. L
      BY <1>1, <1>4, <2>2
    <3> QED BY <1>1, <3>1
  <2> QED BY <2>1, <2>2
<1>6. a \in DOMAIN h.node /\ a \in Range(w)
  BY <1>1, <1>3
<1>7. /\ IsHeap(d)
      /\ DOMAIN d.node = DOMAIN h.node \ {a}
      /\ d.head = h.head
      /\ \A b \in DOMAIN d.node : b # p => d.node[b].next = h.node[b].next
  <2>1. p \in (DOMAIN h.node \ {a}) \cup {NULL} /\ p # NULL
    BY <1>2, <1>3, <1>6
  <2> HIDE DEF a
  <2> QED BY <1>2, <1>5, <1>6, <2>1, LeftIs
<1> HIDE DEF d
<1>8. ASSUME NEW n \in 1 .. i - 1
      PROVE  n \in 1 .. L - 1 /\ w[n] \in DOMAIN d.node /\ d.node[w[n]].next = w[n + 1]
  <2>1. n \in 1 .. L - 1 /\ n \in 1 .. L /\ n # i
    BY <1>1, <1>4
  <2>2. w[n] \in DOMAIN d.node /\ w[n] # p
    BY <1>1, <1>3, <1>7, <2>1
  <2> QED BY <1>1, <1>7, <2>1, <2>2
<1>9. z \in [1 .. i - 1 -> DOMAIN d.node] /\ i - 1 \in Nat
  BY <1>4, <1>8
<1>10. z \in Seq(DOMAIN d.node) /\ Len(z) = i - 1 /\ DOMAIN z = 1 .. i - 1 /\ z # <<>>
  <2> HIDE DEF z
  <2>1. z \in Seq(DOMAIN d.node) /\ Len(z) = i - 1 /\ DOMAIN z = 1 .. i - 1
    BY <1>9
  <2> QED BY <1>4, <2>1
<1>11. \A n \in 1 .. i - 1 : z[n] = w[n]
  OBVIOUS
<1> HIDE DEF z
<1>12. EndOf(d, z) = a
  <2>1. i - 1 \in 1 .. i - 1 /\ (i - 1) + 1 = i
    BY <1>4
  <2> QED BY <1>8, <1>10, <1>11, <2>1 DEF EndOf
<1>13. Joined(d, z)
  <2>1. ASSUME NEW n \in 1 .. i - 1 PROVE z[n] = IF n = 1 THEN d.head ELSE d.node[z[n - 1]].next
    <3>1. CASE n = 1
      <4>1. L # 0
        BY <1>4
      <4> QED BY <1>1, <1>7, <1>11, <3>1, <4>1
    <3>2. CASE n # 1
      <4>1. n - 1 \in 1 .. i - 1 /\ (n - 1) + 1 = n
        BY <3>2, <1>4
      <4> QED BY <1>8, <1>11, <3>2, <4>1
    <3> QED BY <3>1, <3>2
  <2>2. \A m, n \in 1 .. i - 1 : z[m] = z[n] => m = n
    <3>1. \A n \in 1 .. i - 1 : n \in 1 .. L
      BY <1>1, <1>4
    <3> QED BY <1>1, <1>11, <3>1
  <2>3. a \notin DOMAIN d.node
    BY <1>7
  <2> HIDE DEF a
  <2> QED BY <1>10, <1>12, <2>1, <2>2, <2>3 DEF Joined
<1>14. Walk(d) = z
  BY <1>7, <1>13, WalkIs
<1>15. z[i - 1] \in Range(z) /\ d.node[z[i - 1]].next = a
  <2>1. i - 1 \in 1 .. i - 1
    BY <1>4
  <2>2. z[i - 1] \in Range(z)
    BY <1>10, <2>1 DEF Range
  <2> QED BY <1>10, <1>12, <2>2 DEF EndOf
<1>16. a # NULL /\ a \notin DOMAIN d.node
  BY <1>2, <1>6, <1>7
<1> HIDE DEF a
<1> QED
  BY <1>14, <1>15, <1>16 DEF Dangling, d, a, w

\* Deleting keeps the chain and is deleting from the bucket, or is undefined in both.
LEMMA DeleteMaps ==
    ASSUME NEW h, ChainOK(h), NEW k \in Keys
    PROVE  IF Abstract!DeleteIsUndefined(AsBucket(h), k) THEN delete(h, k) = Wild
           ELSE /\ ChainOK(delete(h, k))
                /\ AsBucket(delete(h, k)) = Abstract!hashing_delete(AsBucket(h), k)
<1> DEFINE w == Walk(h)
           L == Len(w)
           i == Lookup(h, k)
           c == AsBucket(h)
<1>1. /\ i \in 0 .. L
      /\ i = 0 => \A n \in 1 .. L : Key(h, w[n]) # k
      /\ i # 0 => Key(h, w[i]) = k /\ \A n \in 1 .. i - 1 : Key(h, w[n]) # k
  BY Places
<1>2. /\ DOMAIN c = {Key(h, w[n]) : n \in 1 .. L}
      /\ \A n \in 1 .. L :
            Foremost(h, w, n) =>
                c[Key(h, w[n])] = [previous |-> Link(h, h.node[w[n]].previous),
                                   copies   |-> Cardinality(NodesOf(h, w, Key(h, w[n])))]
  BY BucketOf
<1>3. IsHeap(h) /\ NULL \notin DOMAIN h.node
  BY PointerAssumption DEF ChainOK, IsHeap
<1>4. /\ L \in Nat
      /\ \A n \in 1 .. L : w[n] \in DOMAIN h.node
      /\ \A m, n \in 1 .. L : w[m] = w[n] => m = n
      /\ L # 0 => h.head = w[1] /\ h.node[w[L]].next = NULL
      /\ \A n \in 1 .. L - 1 : h.node[w[n]].next = w[n + 1]
      /\ Range(w) = {w[n] : n \in 1 .. L}
  BY ChainFacts
<1>5. \A m, n \in 1 .. L :
         w[n] = h.node[w[m]].previous => n < m /\ Key(h, w[n]) < Key(h, w[n + 1])
  <2>1. DOMAIN w = 1 .. L
    BY ChainFacts
  <2>2. LooksBack(h, w)
    BY DEF ChainOK, IsChain
  <2> HIDE DEF w
  <2> QED BY <2>1, <2>2 DEF LooksBack
<1>6. CASE i = 0
  <2>1. delete(h, k) = h
    BY <1>6 DEF delete
  <2>2. k \notin DOMAIN c
    BY <1>1, <1>2, <1>6
  <2> HIDE DEF c
  <2>3. Abstract!hashing_delete(c, k) = c /\ ~Abstract!DeleteIsUndefined(c, k)
    BY <2>2 DEF Abstract!hashing_delete, Abstract!DeleteIsUndefined
  <2> QED BY <2>1, <2>3 DEF c
<1>7. CASE i # 0
  <2> DEFINE a == w[i]
             p == h.node[a].previous
             d == Left(h, a)
  <2>1. delete(h, k) = IF p \notin DOMAIN h.node \cup {NULL} \/ Dangling(d) THEN Wild ELSE d
    BY <1>3, <1>7, DeleteIs
  <2>2. i \in 1 .. L /\ Foremost(h, w, i) /\ Key(h, a) = k
    BY <1>1, <1>4, <1>7 DEF Foremost
  <2> HIDE DEF w, i, c
  <2>3. k \in DOMAIN c /\ c[k].previous = Link(h, p)
    <3>1. Key(h, a) \in DOMAIN c
      BY <1>2, <2>2
    <3>2. c[Key(h, a)] = [previous |-> Link(h, p),
                          copies   |-> Cardinality(NodesOf(h, w, Key(h, a)))]
      BY <1>2, <2>2
    <3> HIDE DEF a, p
    <3> QED BY <2>2, <3>1, <3>2
  <2>4. h.node[a].next = Behind(w, i) /\ Behind(w, i) \in (DOMAIN h.node \ {a}) \cup {NULL}
    <3>1. CASE i = L
      BY <1>4, <2>2, <3>1 DEF Behind
    <3>2. CASE i # L
      <4>1. i \in 1 .. L - 1 /\ i + 1 \in 1 .. L /\ i + 1 # i /\ i \in 1 .. L /\ i < L
        BY <1>4, <2>2, <3>2
      <4> QED BY <1>4, <4>1 DEF Behind
    <3> QED BY <3>1, <3>2
  <2>5. CASE p \notin Range(w) /\ p # NULL
    <3>1. Link(h, p) = Stale
      BY <2>5, LinkIs DEF w
    <3>2. Abstract!DeleteIsUndefined(c, k)
      BY <2>3, <3>1 DEF Abstract!DeleteIsUndefined
    <3>3. p \in DOMAIN h.node => Dangling(d)
      BY <2>2, <2>5, LeakDangles DEF w
    <3>4. delete(h, k) = Wild
      BY <2>1, <2>5, <3>3
    <3> QED BY <3>2, <3>4 DEF c
  <2>6. ASSUME NEW j \in 0 .. i - 1, j # 0 => Key(h, w[j]) < Key(h, w[j + 1]),
               p = InFront(w, j)
        PROVE  /\ delete(h, k) = d /\ ChainOK(d)
               /\ ~Abstract!DeleteIsUndefined(c, k)
               /\ AsBucket(d) = Abstract!hashing_delete(c, k)
    <3>1. j # 0 => j \in 1 .. L /\ j # i
      BY <1>4, <2>2
    <3>2. /\ p \in (DOMAIN h.node \ {a}) \cup {NULL}
          /\ p = NULL <=> j = 0
      BY <1>3, <1>4, <2>2, <2>6, <3>1 DEF InFront
    <3>3. a \in DOMAIN h.node
      BY <1>4, <2>2
    <3>4. Cut(h, d, w, j, i)
      <4>1. LET n == h.node[a].next
            IN  /\ IsHeap(d)
                /\ DOMAIN d.node = DOMAIN h.node \ {a}
                /\ d.head = IF p = NULL THEN n ELSE h.head
                /\ \A b \in DOMAIN d.node :
                      /\ Key(d, b) = Key(h, b)
                      /\ d.node[b].next = IF b = p THEN n ELSE h.node[b].next
                      /\ d.node[b].previous = IF b = n THEN p ELSE h.node[b].previous
        <5> HIDE DEF a
        <5>1. h.node[a].next \in (DOMAIN h.node \ {a}) \cup {NULL}
          BY <2>4
        <5> QED BY <1>3, <3>2, <3>3, <5>1, LeftIs
      <4> HIDE DEF d, p
      <4> QED BY <2>4, <2>6, <3>2, <4>1 DEF Cut
    <3>5. ChainOK(d)
      BY <2>2, <2>6, <3>4, CutChain DEF w
    <3>6. AsBucket(d) = Abstract!hashing_delete(c, k) /\ ~Abstract!DeleteIsUndefined(c, k)
      <4>1. /\ AsBucket(d) = Abstract!hashing_delete(c, Key(h, a))
            /\ ~Abstract!DeleteIsUndefined(c, Key(h, a))
        BY <2>2, <2>6, <3>4, CutBucket DEF w, c
      <4> HIDE DEF a, d
      <4> QED BY <2>2, <4>1
    <3>7. ~Dangling(d)
      BY <3>5, NotDangling
    <3> HIDE DEF d, p
    <3> QED BY <2>1, <3>2, <3>5, <3>6, <3>7
  <2>7. CASE p \in Range(w) \/ p = NULL
    <3>1. \E j \in 0 .. i - 1 : (j # 0 => Key(h, w[j]) < Key(h, w[j + 1])) /\ p = InFront(w, j)
      <4>1. CASE p = NULL
        <5>1. 0 \in 0 .. i - 1 /\ p = InFront(w, 0)
          BY <2>2, <4>1 DEF InFront
        <5> QED BY <5>1
      <4>2. CASE p \in Range(w)
        <5>1. PICK j \in 1 .. L : p = w[j]
          <6> HIDE DEF p
          <6> QED BY <1>4, <4>2
        <5>2. j < i /\ Key(h, w[j]) < Key(h, w[j + 1])
          BY <1>5, <2>2, <5>1
        <5>3. j \in 0 .. i - 1 /\ p = InFront(w, j)
          BY <2>2, <5>1, <5>2 DEF InFront
        <5> QED BY <5>2, <5>3
      <4> QED BY <2>7, <4>1, <4>2
    <3>2. PICK j \in 0 .. i - 1 : (j # 0 => Key(h, w[j]) < Key(h, w[j + 1])) /\ p = InFront(w, j)
      BY <3>1
    <3>3. /\ delete(h, k) = d /\ ChainOK(d)
          /\ ~Abstract!DeleteIsUndefined(c, k)
          /\ AsBucket(d) = Abstract!hashing_delete(c, k)
      BY <2>6, <3>2
    <3> HIDE DEF d
    <3> QED BY <3>3 DEF c
  <2> QED BY <2>5, <2>7
<1> QED
  BY <1>6, <1>7

-------------------------------------------------------------------------------
\* hashing_save and hashing_load.

\* A saved chain: keys in order, no more of them than there were nodes.
FileOK(f) == /\ f \in Seq(Keys)
             /\ Len(f) <= Cardinality(Addresses)
             /\ \A i, j \in 1 .. Len(f) : i < j => f[i] <= f[j]

\* What is saved is what HashTable saves, in order.
LEMMA SaveMaps ==
    ASSUME NEW h, ChainOK(h)
    PROVE  /\ FileOK(save(h))
           /\ AsSaved(save(h)) = Abstract!hashing_save(AsBucket(h))
<1> DEFINE w == Walk(h)
           L == Len(w)
<1>1. /\ L \in Nat /\ DOMAIN w = 1 .. L
      /\ \A i \in 1 .. L : Key(h, w[i]) \in Keys
      /\ \A i, j \in 1 .. L : i < j => Key(h, w[i]) <= Key(h, w[j])
  BY ChainFacts
<1>2. save(h) = [i \in 1 .. L |-> Key(h, w[i])]
  BY <1>1 DEF save, Key
<1>3. L <= Cardinality(Addresses)
  <2>1. IsHeap(h) /\ Joined(h, w)
    BY DEF ChainOK, IsChain
  <2>2. L <= Cardinality(DOMAIN h.node)
    BY <2>1, WalkIs
  <2>3. /\ IsFiniteSet(DOMAIN h.node)
        /\ Cardinality(DOMAIN h.node) <= Cardinality(Addresses)
    BY <2>1, MemoryAssumption, FS_Subset DEF IsHeap
  <2>4. Cardinality(DOMAIN h.node) \in Nat /\ Cardinality(Addresses) \in Nat
    BY <2>3, MemoryAssumption, FS_CardinalityType
  <2> QED BY <1>1, <2>2, <2>3, <2>4
<1>4. FileOK(save(h))
  <2> HIDE DEF w
  <2>1. save(h) \in [1 .. L -> Keys]
    BY <1>1, <1>2
  <2>2. \A i \in 1 .. L : save(h)[i] = Key(h, w[i])
    BY <1>2
  <2> HIDE DEF L
  <2>3. save(h) \in Seq(Keys) /\ Len(save(h)) = L
    BY <1>1, <2>1
  <2> QED BY <1>1, <1>3, <2>2, <2>3 DEF FileOK
<1>5. AsSaved(save(h)) = Abstract!hashing_save(AsBucket(h))
  BY DEF AsSaved, AsBucket, Abstract!hashing_save
<1> QED
  BY <1>4, <1>5

\* The chain after each key of a file, given those after fewer.
AfterDef(f, g, n) == IF n = 0 THEN EmptyHeap ELSE insert(g[n - 1], f[n])

\* The recursion of hashing_load has a solution, for any file.
LEMMA LoadsAreDefined ==
    ASSUME NEW f, NEW N \in Nat
    PROVE  \E g : g = [n \in 0 .. N |-> AfterDef(f, g, n)]
<1> DEFINE Solved(n) == \E g : g = [m \in 0 .. n |-> AfterDef(f, g, m)]
           T == {n \in Nat : ~Solved(n)}
<1>1. ASSUME T # {} PROVE FALSE
  <2>1. T \in SUBSET Nat
    OBVIOUS
  <2>2. PICK n \in T : \A m \in T : n <= m
    <3> HIDE DEF T
    <3> QED BY <1>1, <2>1, SmallestOf
  <2>3. n \in Nat /\ ~Solved(n)
    BY <2>2
  <2>4. CASE n = 0
    <3> DEFINE g == [m \in 0 .. 0 |-> EmptyHeap]
    <3>1. ASSUME NEW m \in 0 .. 0 PROVE AfterDef(f, g, m) = EmptyHeap
      <4>1. m = 0
        OBVIOUS
      <4> QED BY <4>1 DEF AfterDef
    <3>2. g = [m \in 0 .. 0 |-> AfterDef(f, g, m)]
      BY <3>1
    <3> QED BY <2>3, <2>4, <3>2
  <2>5. CASE n # 0
    <3>1. n - 1 \in Nat /\ n - 1 \notin T
      <4>1. n - 1 \in Nat /\ ~(n <= n - 1)
        BY <2>3, <2>5
      <4> HIDE DEF T
      <4> QED BY <2>2, <4>1
    <3>2. PICK e : e = [m \in 0 .. n - 1 |-> AfterDef(f, e, m)]
      BY <3>1
    <3> DEFINE g == [m \in 0 .. n |-> IF m < n THEN e[m] ELSE AfterDef(f, e, n)]
    <3>3. ASSUME NEW m \in 0 .. n PROVE AfterDef(f, g, m) = AfterDef(f, e, m)
      <4>1. CASE m = 0
        BY <4>1 DEF AfterDef
      <4>2. CASE m # 0
        <5>1. m - 1 \in 0 .. n /\ m - 1 < n
          BY <2>3, <4>2
        <5>2. g[m - 1] = e[m - 1]
          BY <5>1
        <5> HIDE DEF g
        <5> QED BY <4>2, <5>2 DEF AfterDef
      <4> QED BY <4>1, <4>2
    <3>4. ASSUME NEW m \in 0 .. n PROVE g[m] = AfterDef(f, e, m)
      <4>1. CASE m < n
        <5>1. m \in 0 .. n - 1
          BY <2>3, <4>1
        <5>2. g[m] = e[m]
          BY <4>1
        <5> HIDE DEF g
        <5> QED BY <3>2, <5>1, <5>2
      <4>2. CASE ~(m < n)
        <5>1. m = n
          BY <2>3, <4>2
        <5> QED BY <4>2, <5>1
      <4> QED BY <4>1, <4>2
    <3>5. g = [m \in 0 .. n |-> g[m]]
      OBVIOUS
    <3> HIDE DEF g
    <3>6. g = [m \in 0 .. n |-> AfterDef(f, g, m)]
      BY <3>3, <3>4, <3>5
    <3> QED BY <2>3, <3>6
  <2> QED BY <2>4, <2>5
<1>2. Solved(N)
  BY <1>1
<1> QED
  BY <1>2

\* A table with nothing in it is a chain of no nodes.
LEMMA EmptyMaps ==
    /\ ChainOK(EmptyHeap) /\ Closed(EmptyHeap)
    /\ Cardinality(DOMAIN EmptyHeap.node) = 0
    /\ AsBucket(EmptyHeap) = Abstract!EmptyBucket
<1> DEFINE h == EmptyHeap
<1>1. h.head = NULL /\ DOMAIN h.node = {} /\ h = [head |-> h.head, node |-> h.node]
  BY DEF EmptyHeap
<1>2. h.node = [a \in DOMAIN h.node |-> h.node[a]]
  BY DEF EmptyHeap
<1> HIDE DEF h
<1>3. IsHeap(h)
  BY <1>1, <1>2 DEF IsHeap, Pointer
<1>4. <<>> \in Seq(DOMAIN h.node) /\ Len(<<>>) = 0 /\ DOMAIN <<>> = {}
  OBVIOUS
<1>5. EndOf(h, <<>>) = NULL
  BY <1>1 DEF EndOf
<1>6. Joined(h, <<>>)
  BY <1>1, <1>4, <1>5 DEF Joined
<1>7. Walk(h) = <<>>
  BY <1>3, <1>6, WalkIs
<1>8. ChainOK(h)
  BY <1>3, <1>4, <1>5, <1>6, <1>7 DEF ChainOK, IsChain, Ascending, LooksBack
<1>9. Closed(h)
  BY <1>1 DEF Closed, Named
<1>10. Cardinality(DOMAIN h.node) = 0
  BY <1>1, FS_EmptySet
<1>11. AsBucket(h) = Abstract!EmptyBucket
  <2>1. save(h) = [i \in {} |-> NULL]
    BY <1>4, <1>7 DEF save
  <2>2. Range(save(h)) = {}
    BY <2>1 DEF Range
  <2> QED BY <2>2 DEF AsBucket, Abstract!EmptyBucket
<1> QED
  BY <1>8, <1>9, <1>10, <1>11 DEF h

\* How often the first n keys of a file name each key.
Upto(f, n) == [k \in {f[i] : i \in 1 .. n} |-> Cardinality({i \in 1 .. n : f[i] = k})]

\* Loading one key more of a file in order is inserting it.
LEMMA LoadStep ==
    ASSUME NEW f, FileOK(f), NEW n \in 1 .. Len(f)
    PROVE  Abstract!hashing_insert(Abstract!hashing_load(Upto(f, n - 1)), f[n]) =
           Abstract!hashing_load(Upto(f, n))
<1> DEFINE u == Upto(f, n - 1)
           v == Upto(f, n)
           k == f[n]
           At(x) == {i \in 1 .. n - 1 : f[i] = x}
           To(x) == {i \in 1 .. n : f[i] = x}
           c == Abstract!hashing_load(u)
           e == Abstract!hashing_load(v)
<1>1. /\ Len(f) \in Nat /\ \A i \in 1 .. Len(f) : f[i] \in Nat
      /\ \A i, j \in 1 .. Len(f) : i < j => f[i] <= f[j]
  <2>1. /\ f \in Seq(Keys)
        /\ \A i, j \in 1 .. Len(f) : i < j => f[i] <= f[j]
    BY DEF FileOK
  <2>2. Len(f) \in Nat /\ \A i \in 1 .. Len(f) : f[i] \in Keys
    BY <2>1
  <2> QED BY <2>1, <2>2, KeysAssumption
<1>2. n \in 1 .. Len(f) /\ n \in Nat /\ n - 1 \in Nat
  BY <1>1
<1>3. /\ DOMAIN u = {f[i] : i \in 1 .. n - 1} /\ \A x \in DOMAIN u : u[x] = Cardinality(At(x))
      /\ DOMAIN v = {f[i] : i \in 1 .. n} /\ \A x \in DOMAIN v : v[x] = Cardinality(To(x))
  BY DEF Upto
<1> HIDE DEF u, v
<1>4. \A x : x # k => To(x) = At(x)
  BY <1>2
<1>5. Cardinality(To(k)) = Cardinality(At(k)) + 1 /\ Cardinality(At(k)) \in Nat
  <2>1. IsFiniteSet(At(k))
    <3>1. IsFiniteSet(1 .. n - 1)
      BY <1>2, FS_Interval
    <3> QED BY <3>1, FS_Subset
  <2>2. To(k) = At(k) \cup {n} /\ n \notin At(k)
    BY <1>2
  <2> HIDE DEF To, At
  <2> QED BY <2>1, <2>2, FS_AddElement, FS_CardinalityType
<1>6. DOMAIN v = DOMAIN u \cup {k}
  BY <1>2, <1>3
<1>7. \A x \in DOMAIN u : x \in Nat /\ x <= k
  BY <1>1, <1>2, <1>3
<1>8. k \in Nat
  BY <1>1, <1>2
<1>9. k \notin DOMAIN u => Cardinality(At(k)) = 0
  <2>1. k \notin DOMAIN u => At(k) = {}
    BY <1>3
  <2> HIDE DEF At
  <2> QED BY <2>1, FS_EmptySet
<1>10. \A x \in DOMAIN u : x # k => v[x] = u[x]
  <2> HIDE DEF At, To, k
  <2> QED BY <1>3, <1>4, <1>6
<1>11. /\ k \in DOMAIN u => v[k] = u[k] + 1
       /\ k \notin DOMAIN u => v[k] = 1
  <2> HIDE DEF At, To
  <2> QED BY <1>3, <1>5, <1>6, <1>9
<1>12. \A x \in DOMAIN v : Abstract!Before(v, x) = Abstract!Before(u, x)
  <2> HIDE DEF k
  <2> QED BY <1>6, <1>7, <1>8 DEF Abstract!Before
<1>13. \A x \in DOMAIN v : Abstract!Pred(v, x) = Abstract!Pred(u, x)
  BY <1>12 DEF Abstract!Pred
<1>14. /\ c = [x \in DOMAIN u |-> [previous |-> Abstract!Pred(u, x),
                                   copies   |-> IF Abstract!Before(u, x) = {} THEN u[x] ELSE 1]]
       /\ e = [x \in DOMAIN v |-> [previous |-> Abstract!Pred(v, x),
                                   copies   |-> IF Abstract!Before(v, x) = {} THEN v[x] ELSE 1]]
  BY DEF Abstract!hashing_load
<1>15. e = [x \in DOMAIN u \cup {k} |->
              [previous |-> Abstract!Pred(u, x),
               copies   |-> IF Abstract!Before(u, x) = {} THEN v[x] ELSE 1]]
  <2>1. \A x \in DOMAIN v :
           [previous |-> Abstract!Pred(v, x),
            copies   |-> IF Abstract!Before(v, x) = {} THEN v[x] ELSE 1] =
           [previous |-> Abstract!Pred(u, x),
            copies   |-> IF Abstract!Before(u, x) = {} THEN v[x] ELSE 1]
    BY <1>12, <1>13
  <2> HIDE DEF k, e
  <2> QED BY <1>6, <1>14, <2>1
<1> HIDE DEF c, e, k
<1>16. /\ DOMAIN c = DOMAIN u
       /\ \A x \in DOMAIN u : c[x] = [previous |-> Abstract!Pred(u, x),
                                      copies   |-> IF Abstract!Before(u, x) = {} THEN u[x] ELSE 1]
  BY <1>14
<1>17. Abstract!Before(c, k) = Abstract!Before(u, k) /\ Abstract!Pred(c, k) = Abstract!Pred(u, k)
  BY <1>16 DEF Abstract!Before, Abstract!Pred
<1>18. ASSUME k \notin DOMAIN u PROVE Abstract!hashing_insert(c, k) = e
  <2>1. Abstract!hashing_insert(c, k) =
            [x \in DOMAIN u \cup {k} |->
                IF x = k THEN [previous |-> Abstract!Pred(u, k), copies |-> 1] ELSE c[x]]
    BY <1>16, <1>17, <1>18 DEF Abstract!hashing_insert
  <2>2. ASSUME NEW x \in DOMAIN u \cup {k}
        PROVE  (IF x = k THEN [previous |-> Abstract!Pred(u, k), copies |-> 1] ELSE c[x]) =
               [previous |-> Abstract!Pred(u, x),
                copies   |-> IF Abstract!Before(u, x) = {} THEN v[x] ELSE 1]
    <3>1. CASE x = k
      <4>1. v[k] = 1
        BY <1>11, <1>18
      <4> QED BY <3>1, <4>1
    <3>2. CASE x # k
      <4>1. x \in DOMAIN u /\ v[x] = u[x]
        BY <1>10, <3>2
      <4> QED BY <1>16, <3>2, <4>1
    <3> QED BY <3>1, <3>2
  <2> QED BY <1>15, <2>1, <2>2
<1>19. ASSUME k \in DOMAIN u /\ Abstract!Before(u, k) = {}
       PROVE  Abstract!hashing_insert(c, k) = e
  <2>1. Abstract!hashing_insert(c, k) = [c EXCEPT ![k].copies = @ + 1]
    BY <1>16, <1>17, <1>19 DEF Abstract!hashing_insert
  <2>2. c[k] = [previous |-> Abstract!Pred(u, k), copies |-> u[k]]
    BY <1>16, <1>19
  <2>3. [c[k] EXCEPT !.copies = @ + 1] = [previous |-> Abstract!Pred(u, k), copies |-> v[k]]
    BY <1>11, <1>19, <2>2
  <2>4. [c EXCEPT ![k].copies = @ + 1] =
            [x \in DOMAIN c |-> IF x = k THEN [c[k] EXCEPT !.copies = @ + 1] ELSE c[x]]
    <3>1. c = [x \in DOMAIN c |-> c[x]]
      BY <1>14
    <3> QED BY <3>1
  <2>5. ASSUME NEW x \in DOMAIN u \cup {k}
        PROVE  (IF x = k THEN [c[k] EXCEPT !.copies = @ + 1] ELSE c[x]) =
               [previous |-> Abstract!Pred(u, x),
                copies   |-> IF Abstract!Before(u, x) = {} THEN v[x] ELSE 1]
    <3>1. CASE x = k
      BY <1>19, <2>3, <3>1
    <3>2. CASE x # k
      <4>1. x \in DOMAIN u /\ v[x] = u[x]
        BY <1>10, <3>2
      <4> QED BY <1>16, <3>2, <4>1
    <3> QED BY <3>1, <3>2
  <2>6. DOMAIN c = DOMAIN u \cup {k}
    BY <1>16, <1>19
  <2> QED BY <1>15, <2>1, <2>4, <2>5, <2>6
<1>20. ASSUME k \in DOMAIN u /\ Abstract!Before(u, k) # {}
       PROVE  Abstract!hashing_insert(c, k) = e
  <2>1. Abstract!hashing_insert(c, k) = c
    BY <1>16, <1>17, <1>20 DEF Abstract!hashing_insert
  <2>2. ASSUME NEW x \in DOMAIN u
        PROVE  [previous |-> Abstract!Pred(u, x),
                copies   |-> IF Abstract!Before(u, x) = {} THEN u[x] ELSE 1] =
               [previous |-> Abstract!Pred(u, x),
                copies   |-> IF Abstract!Before(u, x) = {} THEN v[x] ELSE 1]
    <3>1. CASE x = k
      BY <1>20, <3>1
    <3>2. CASE x # k
      BY <1>10, <3>2
    <3> QED BY <3>1, <3>2
  <2>3. DOMAIN u \cup {k} = DOMAIN u
    BY <1>20
  <2>4. c = e
    BY <1>14, <1>15, <2>2, <2>3
  <2> QED BY <2>1, <2>4
<1> QED
  BY <1>18, <1>19, <1>20 DEF c, e, k, u, v

\* What is loaded from a file is what HashTable loads.
LEMMA LoadMaps ==
    ASSUME NEW f, FileOK(f), f # NoFile
    PROVE  /\ ChainOK(load(f))
           /\ AsBucket(load(f)) = Abstract!hashing_load(AsSaved(f))
<1> DEFINE N == Len(f)
           after == CHOOSE g : g = [n \in 0 .. N |-> AfterDef(f, g, n)]
           Good(n) == /\ ChainOK(after[n]) /\ Closed(after[n])
                      /\ Cardinality(DOMAIN after[n].node) <= n
                      /\ AsBucket(after[n]) = Abstract!hashing_load(Upto(f, n))
           T == {n \in 0 .. N : ~Good(n)}
<1>1. /\ N \in Nat /\ N <= Cardinality(Addresses) /\ f \in Seq(Keys)
      /\ \A i \in 1 .. N : f[i] \in Keys
  <2>1. f \in Seq(Keys) /\ Len(f) <= Cardinality(Addresses)
    BY DEF FileOK
  <2>2. Len(f) \in Nat /\ \A i \in 1 .. Len(f) : f[i] \in Keys
    BY <2>1
  <2> QED BY <2>1, <2>2
<1>2. after = [n \in 0 .. N |-> AfterDef(f, after, n)]
  BY <1>1, LoadsAreDefined
<1>3. load(f) = after[N]
  BY DEF load, AfterDef
<1> HIDE DEF after
<1>4. Good(0)
  <2>1. 0 \in 0 .. N
    BY <1>1
  <2>2. after[0] = EmptyHeap
    BY <1>2, <2>1 DEF AfterDef
  <2>3. Abstract!hashing_load(Upto(f, 0)) = Abstract!EmptyBucket
    <3>1. DOMAIN Upto(f, 0) = {}
      BY DEF Upto
    <3> QED BY <3>1 DEF Abstract!hashing_load, Abstract!EmptyBucket
  <2> QED BY <2>2, <2>3, EmptyMaps
<1>5. ASSUME NEW n \in 1 .. N, Good(n - 1) PROVE Good(n)
  <2> DEFINE h == after[n - 1]
  <2>1. n \in 0 .. N /\ n # 0 /\ n - 1 \in Nat /\ n - 1 < N /\ n \in Nat
    BY <1>1
  <2>2. after[n] = insert(h, f[n])
    BY <1>2, <2>1 DEF AfterDef
  <2>3. /\ ChainOK(h) /\ Closed(h)
        /\ Cardinality(DOMAIN h.node) <= n - 1
        /\ AsBucket(h) = Abstract!hashing_load(Upto(f, n - 1))
    BY <1>5
  <2> HIDE DEF h
  <2>4. /\ DOMAIN h.node \subseteq Addresses /\ IsFiniteSet(DOMAIN h.node)
        /\ Cardinality(DOMAIN h.node) \in Nat /\ Cardinality(Addresses) \in Nat
    BY <2>3, MemoryAssumption, FS_Subset, FS_CardinalityType DEF ChainOK, IsHeap
  <2>5. Unused(h) # {}
    <3>1. DOMAIN h.node # Addresses
      <4>1. Cardinality(DOMAIN h.node) # Cardinality(Addresses)
        BY <1>1, <2>1, <2>3, <2>4
      <4> QED BY <4>1
    <3>2. PICK a \in Addresses : a \notin DOMAIN h.node
      BY <2>4, <3>1
    <3>3. a \notin Named(h)
      BY <2>3, <3>2, PointerAssumption DEF Closed
    <3> QED BY <3>2, <3>3 DEF Unused
  <2>6. f[n] \in Keys
    BY <1>1
  <2>7. /\ ChainOK(after[n])
        /\ AsBucket(after[n]) = Abstract!hashing_insert(AsBucket(h), f[n])
    BY <2>2, <2>3, <2>5, <2>6, InsertMaps
  <2>8. /\ Cardinality(DOMAIN after[n].node) <= Cardinality(DOMAIN h.node) + 1
        /\ Closed(after[n])
    BY <2>2, <2>3, <2>5, <2>6, InsertGrows
  <2>9. Cardinality(DOMAIN after[n].node) <= n
    <3>1. Cardinality(DOMAIN after[n].node) \in Nat
      <4>1. DOMAIN after[n].node \subseteq Addresses
        BY <2>7 DEF ChainOK, IsHeap
      <4> QED BY <4>1, MemoryAssumption, FS_Subset, FS_CardinalityType
    <3> QED BY <2>1, <2>3, <2>4, <2>8, <3>1
  <2>10. AsBucket(after[n]) = Abstract!hashing_load(Upto(f, n))
    BY <2>3, <2>7, LoadStep
  <2> QED BY <2>7, <2>8, <2>9, <2>10
<1> HIDE DEF Good
<1>6. ASSUME T # {} PROVE FALSE
  <2>1. PICK n \in T : \A m \in T : n <= m
    <3>1. T \in SUBSET Nat
      BY <1>1
    <3> HIDE DEF T
    <3> QED BY <1>6, <3>1, SmallestOf
  <2>2. n \in 0 .. N /\ ~Good(n)
    BY <2>1
  <2>3. n \in 1 .. N /\ n - 1 \in 0 .. N /\ ~(n <= n - 1)
    BY <1>1, <1>4, <2>2
  <2>4. n - 1 \notin T
    <3> HIDE DEF T
    <3> QED BY <2>1, <2>3
  <2>5. Good(n - 1)
    BY <2>3, <2>4
  <2> QED BY <1>5, <2>2, <2>3, <2>5
<1>7. Good(N)
  BY <1>1, <1>6
<1>8. Upto(f, N) = AsSaved(f)
  <2>1. DOMAIN f = 1 .. N
    BY <1>1
  <2> QED BY <2>1 DEF Upto, AsSaved, Range
<1> QED
  BY <1>3, <1>7, <1>8 DEF Good

-------------------------------------------------------------------------------
\* The inductive invariant.

\* The chain in memory and the file on disk are in order.
HeapInv == /\ heap \in {NoTable, Wild} \/ ChainOK(heap)
           /\ file = NoFile \/ FileOK(file)

\* A chain is none of the marks.
LEMMA ChainIsHeap ==
    ASSUME NEW h, ChainOK(h)
    PROVE  h # NoTable /\ h # Wild
<1>1. IsHeap(h)
  BY DEF ChainOK
<1>2. h.node \in [DOMAIN h.node -> Node] /\ DOMAIN h.node \in SUBSET Addresses
  BY <1>1 DEF IsHeap
<1>3. h.node \in UNION {[S -> Node] : S \in SUBSET Addresses}
  BY <1>2
<1>4. h = [head |-> h.head, node |-> h.node] /\ h.head \in Pointer
  BY <1>1 DEF IsHeap
<1>5. h \in Heap
  BY <1>3, <1>4 DEF Heap
<1> QED
  BY <1>5, MarkAssumption

\* A saved chain is not the mark of no file.
LEMMA FileIsFile ==
    ASSUME NEW f, FileOK(f)
    PROVE  f # NoFile
BY MarkAssumption DEF FileOK

\* Every call keeps the chain in order and its pointers within it.
LEMMA HeapStep ==
    ASSUME HeapInv, [HeapNext]_heapVars
    PROVE  HeapInv'
<1>1. CASE HeapCreate
  BY <1>1, EmptyMaps DEF HeapCreate, HeapInv
<1>2. ASSUME NEW k \in Keys, HeapInsert(k) PROVE HeapInv'
  BY <1>2, InsertMaps DEF HeapInsert, HeapReady, HeapInv
<1>3. ASSUME NEW k \in Keys, HeapDelete(k) PROVE HeapInv'
  BY <1>3, DeleteMaps DEF HeapDelete, HeapReady, HeapInv
<1>4. CASE HeapSave
  BY <1>4, SaveMaps DEF HeapSave, HeapReady, HeapInv
<1>5. CASE HeapLoad
  <2>1. CASE file = NoFile
    BY <1>5, <2>1, EmptyMaps DEF HeapLoad, HeapInv, load
  <2>2. CASE file # NoFile
    BY <1>5, <2>2, LoadMaps DEF HeapLoad, HeapInv
  <2> QED BY <2>1, <2>2
<1>6. CASE HeapTerminate
  BY <1>6 DEF HeapTerminate, HeapInv
<1>7. CASE UNCHANGED heapVars
  BY <1>7 DEF heapVars, HeapInv
<1> QED
  BY <1>1, <1>2, <1>3, <1>4, <1>5, <1>6, <1>7 DEF HeapNext

\* The chain of nodes is always in order, and its pointers lead to its nodes
\* (hashing.c: hashing_insert, hashing_delete, hashing_load).
THEOREM ChainHeapInvariant == HeapSpec => []HeapInv
<1>1. HeapInit => HeapInv
  BY DEF HeapInit, HeapInv
<1>2. HeapInv /\ [HeapNext]_heapVars => HeapInv'
  BY HeapStep
<1> QED
  BY <1>1, <1>2, PTL DEF HeapSpec

\* A walk along the chain meets the keys in strcmp order and no freed node, so
\* findposn and hashing_insert stop where they should.
THEOREM ChainStaysInOrder == HeapSpec => []ChainInOrder
<1>1. HeapInv => ChainInOrder
  <2> SUFFICES ASSUME HeapInv, HeapReady
               PROVE  /\ ~Dangling(heap)
                      /\ \A i, j \in DOMAIN save(heap) :
                            i < j => save(heap)[i] <= save(heap)[j]
    BY DEF ChainInOrder
  <2>1. ChainOK(heap)
    BY DEF HeapInv, HeapReady
  <2>2. FileOK(save(heap))
    BY <2>1, SaveMaps
  <2>3. DOMAIN save(heap) = 1 .. Len(save(heap))
    <3>1. save(heap) \in Seq(Keys)
      BY <2>2 DEF FileOK
    <3> HIDE DEF save
    <3> QED BY <3>1
  <2> QED BY <2>1, <2>2, <2>3, NotDangling DEF FileOK
<1> QED
  BY <1>1, ChainHeapInvariant, PTL

-------------------------------------------------------------------------------
\* The refinement.

\* A chain is a bucket, and a saved chain a saved bucket.
LEMMA BucketIsBucket ==
    ASSUME NEW h, ChainOK(h)
    PROVE  AsBucket(h) \in Abstract!Bucket
<1> DEFINE w == Walk(h)
           L == Len(w)
           b == AsBucket(h)
<1>1. /\ \A i \in 1 .. L : Key(h, w[i]) \in Keys
      /\ Range(w) = {w[i] : i \in 1 .. L}
  BY ChainFacts
<1>2. /\ b = [x \in DOMAIN b |-> b[x]]
      /\ DOMAIN b = {Key(h, w[i]) : i \in 1 .. L}
      /\ \A x \in DOMAIN b : \E i \in 1 .. L : x = Key(h, w[i]) /\ Foremost(h, w, i)
      /\ \A i \in 1 .. L :
            Foremost(h, w, i) =>
                b[Key(h, w[i])] = [previous |-> Link(h, h.node[w[i]].previous),
                                   copies   |-> Cardinality(NodesOf(h, w, Key(h, w[i])))]
  BY BucketOf
<1>3. \A x : IsFiniteSet(NodesOf(h, w, x)) /\ Cardinality(NodesOf(h, w, x)) \in Nat
  BY NodesAreFew
<1>4. \A p : Link(h, p) \in Keys \cup {NULL, Stale}
  <2>1. ASSUME NEW p PROVE Link(h, p) \in Keys \cup {NULL, Stale}
    <3>1. CASE p \in Range(w)
      <4>1. PICK j \in 1 .. L : p = w[j]
        BY <1>1, <3>1
      <4>2. Link(h, p) = Key(h, p)
        BY <4>1, LinkIs
      <4> HIDE DEF w
      <4> QED BY <1>1, <4>1, <4>2
    <3>2. CASE p \notin Range(w)
      BY <3>2, LinkIs
    <3> QED BY <3>1, <3>2
  <2> QED BY <2>1
<1> HIDE DEF w, b
<1>5. ASSUME NEW x \in DOMAIN b PROVE x \in Keys /\ b[x] \in Abstract!Node
  <2>1. PICK i \in 1 .. L : x = Key(h, w[i]) /\ Foremost(h, w, i)
    BY <1>2
  <2>2. w[i] \in NodesOf(h, w, x)
    BY <1>1, <2>1 DEF NodesOf
  <2>3. Cardinality(NodesOf(h, w, x)) # 0
    BY <1>3, <2>2, FS_EmptySet
  <2>4. b[x] = [previous |-> Link(h, h.node[w[i]].previous),
                copies   |-> Cardinality(NodesOf(h, w, x))]
    BY <1>2, <2>1
  <2> QED BY <1>1, <1>3, <1>4, <2>1, <2>3, <2>4 DEF Abstract!Node
<1>6. DOMAIN b \in SUBSET Keys /\ b \in [DOMAIN b -> Abstract!Node]
  BY <1>2, <1>5
<1> QED
  BY <1>6 DEF Abstract!Bucket, b

\* A file in order is, to HashTable, a saved bucket.
LEMMA SavedIsSaved ==
    ASSUME NEW f, FileOK(f)
    PROVE  AsSaved(f) \in Abstract!SavedBucket
<1> DEFINE At(x) == {i \in DOMAIN f : f[i] = x}
<1>1. f \in Seq(Keys)
  BY DEF FileOK
<1>2. Len(f) \in Nat /\ DOMAIN f = 1 .. Len(f) /\ \A i \in DOMAIN f : f[i] \in Keys
  BY <1>1
<1>3. AsSaved(f) = [x \in Range(f) |-> Cardinality(At(x))]
  BY DEF AsSaved
<1>4. ASSUME NEW x \in Range(f) PROVE x \in Keys /\ Cardinality(At(x)) \in Nat \ {0}
  <2>1. PICK i \in DOMAIN f : f[i] = x
    BY DEF Range
  <2>2. i \in At(x)
    BY <2>1
  <2>3. IsFiniteSet(At(x))
    <3>1. IsFiniteSet(1 .. Len(f))
      BY <1>2, FS_Interval
    <3> QED BY <1>2, <3>1, FS_Subset
  <2>4. x \in Keys
    BY <1>2, <2>1
  <2> HIDE DEF At
  <2>5. Cardinality(At(x)) \in Nat /\ Cardinality(At(x)) # 0
    BY <2>2, <2>3, FS_EmptySet, FS_CardinalityType
  <2> QED BY <2>4, <2>5
<1> HIDE DEF At
<1>5. Range(f) \in SUBSET Keys /\ AsSaved(f) \in [Range(f) -> Nat \ {0}]
  BY <1>3, <1>4
<1> QED
  BY <1>5 DEF Abstract!SavedBucket

\* What a heap and a file are to HashTable.
TableOf(h) == IF h \notin {NoTable, Wild} THEN [b \in {bucket} |-> AsBucket(h)] ELSE h
FileOf(f)  == IF f = NoFile THEN NoFile ELSE [b \in {bucket} |-> AsSaved(f)]

\* A chain in order is no mark to HashTable either, and the marks stay what they are.
LEMMA Maps ==
    /\ \A h : ChainOK(h) => /\ TableOf(h) = [b \in {bucket} |-> AsBucket(h)]
                            /\ TableOf(h) \notin {NoTable, Wild}
    /\ \A f : FileOK(f) => /\ FileOf(f) = [b \in {bucket} |-> AsSaved(f)]
                           /\ FileOf(f) # NoFile
    /\ TableOf(NoTable) = NoTable /\ TableOf(Wild) = Wild /\ FileOf(NoFile) = NoFile
<1>1. ASSUME NEW h, ChainOK(h)
      PROVE  /\ TableOf(h) = [b \in {bucket} |-> AsBucket(h)]
             /\ TableOf(h) \notin {NoTable, Wild}
  <2>1. TableOf(h) = [b \in {bucket} |-> AsBucket(h)]
    BY <1>1, ChainIsHeap DEF TableOf
  <2>2. TableOf(h) \in [{bucket} -> Abstract!Bucket]
    BY <1>1, <2>1, BucketIsBucket
  <2> QED BY <2>1, <2>2, MarkAssumption
<1>2. ASSUME NEW f, FileOK(f)
      PROVE  /\ FileOf(f) = [b \in {bucket} |-> AsSaved(f)]
             /\ FileOf(f) # NoFile
  <2>1. FileOf(f) = [b \in {bucket} |-> AsSaved(f)]
    BY <1>2, FileIsFile DEF FileOf
  <2>2. FileOf(f) \in [{bucket} -> Abstract!SavedBucket]
    BY <1>2, <2>1, SavedIsSaved
  <2> QED BY <2>1, <2>2, MarkAssumption
<1> QED
  BY <1>1, <1>2 DEF TableOf, FileOf

\* The mapped steps of HashTable, on what a heap and a file are to it.
LEMMA AbstractSteps ==
    LET T == TableOf(heap)
        U == TableOf(heap')
        F == FileOf(file)
        G == FileOf(file')
    IN  /\ T = NoTable /\ F = NoFile => Abstract!Init
        /\ T = NoTable /\ U = Abstract!EmptyTable /\ G = F => Abstract!Create
        /\ \A k \in Keys :
              T \notin {NoTable, Wild} /\ U = Abstract!Inserted(T, k) /\ G = F => Abstract!Insert(k)
        /\ \A k \in Keys :
              T \notin {NoTable, Wild} /\ U = Abstract!Deleted(T, k) /\ G = F => Abstract!Delete(k)
        /\ T \notin {NoTable, Wild} /\ G = Abstract!Saved(T) /\ U = T => Abstract!Save
        /\ T = NoTable /\ U = Abstract!Loaded(F) /\ G = F => Abstract!Load
        /\ T # NoTable /\ U = NoTable /\ G = F => Abstract!Terminate
        /\ U = T /\ G = F => UNCHANGED Abstract!tableVars
BY DEF TableOf, FileOf, HeapReady, Abstract!Init, Abstract!Ready, Abstract!Create,
       Abstract!Insert, Abstract!Delete, Abstract!Save, Abstract!Load, Abstract!Terminate,
       Abstract!tableVars

\* The calls on a table of one bucket.
LEMMA OneBucket ==
    ASSUME NEW c, NEW k \in Keys
    PROVE  LET t == [b \in {bucket} |-> c]
           IN  /\ Abstract!Inserted(t, k) = [b \in {bucket} |-> Abstract!hashing_insert(c, k)]
               /\ Abstract!Deleted(t, k) =
                     IF Abstract!DeleteIsUndefined(c, k) THEN Wild
                     ELSE [b \in {bucket} |-> Abstract!hashing_delete(c, k)]
<1> DEFINE t == [b \in {bucket} |-> c]
           hash == [x \in Keys |-> bucket]
<1>1. hash[k] = bucket /\ t[bucket] = c
  OBVIOUS
<1>2. \A e : [t EXCEPT ![bucket] = e] = [b \in {bucket} |-> e]
  OBVIOUS
<1>3. Abstract!Inserted(t, k) = [t EXCEPT ![bucket] = Abstract!hashing_insert(c, k)]
  BY <1>1 DEF Abstract!Inserted
<1>4. Abstract!Deleted(t, k) = IF Abstract!DeleteIsUndefined(c, k) THEN Wild
                               ELSE [t EXCEPT ![bucket] = Abstract!hashing_delete(c, k)]
  BY <1>1 DEF Abstract!Deleted
<1> QED
  BY <1>2, <1>3, <1>4

\* Every call on the chain is the call of the same name on HashTable.
LEMMA HeapMaps ==
    ASSUME HeapInv, [HeapNext]_heapVars
    PROVE  [Abstract!Next]_Abstract!tableVars
<1> DEFINE T == TableOf(heap)
           U == TableOf(heap')
           F == FileOf(file)
           G == FileOf(file')
<1>1. CASE HeapCreate
  <2>1. T = NoTable /\ U = Abstract!EmptyTable /\ G = F
    BY <1>1, Maps, EmptyMaps DEF HeapCreate, Abstract!EmptyTable
  <2> QED BY <2>1, AbstractSteps DEF Abstract!Next
<1>2. ASSUME NEW k \in Keys, HeapInsert(k) PROVE Abstract!Insert(k)
  <2>1. ChainOK(heap) /\ Unused(heap) # {} /\ heap' = insert(heap, k) /\ file' = file
    BY <1>2 DEF HeapInsert, HeapReady, HeapInv
  <2>2. ChainOK(heap') /\ AsBucket(heap') = Abstract!hashing_insert(AsBucket(heap), k)
    BY <2>1, InsertMaps
  <2>3. /\ T = [b \in {bucket} |-> AsBucket(heap)] /\ T \notin {NoTable, Wild}
        /\ U = [b \in {bucket} |-> AsBucket(heap')]
    BY <2>1, <2>2, Maps
  <2>4. U = Abstract!Inserted(T, k)
    <3>1. Abstract!Inserted([b \in {bucket} |-> AsBucket(heap)], k) =
             [b \in {bucket} |-> Abstract!hashing_insert(AsBucket(heap), k)]
      BY OneBucket
    <3> HIDE DEF T, U
    <3> QED BY <2>2, <2>3, <3>1
  <2> QED BY <2>1, <2>3, <2>4, AbstractSteps
<1>3. ASSUME NEW k \in Keys, HeapDelete(k) PROVE Abstract!Delete(k)
  <2> DEFINE c == AsBucket(heap)
  <2>1. ChainOK(heap) /\ heap' = delete(heap, k) /\ file' = file
    BY <1>3 DEF HeapDelete, HeapReady, HeapInv
  <2>2. IF Abstract!DeleteIsUndefined(c, k) THEN heap' = Wild
        ELSE ChainOK(heap') /\ AsBucket(heap') = Abstract!hashing_delete(c, k)
    BY <2>1, DeleteMaps
  <2>3. T = [b \in {bucket} |-> c] /\ T \notin {NoTable, Wild}
    BY <2>1, Maps
  <2>4. Abstract!Deleted(T, k) = IF Abstract!DeleteIsUndefined(c, k) THEN Wild
                                 ELSE [b \in {bucket} |-> Abstract!hashing_delete(c, k)]
    <3>1. Abstract!Deleted([b \in {bucket} |-> c], k) =
             IF Abstract!DeleteIsUndefined(c, k) THEN Wild
             ELSE [b \in {bucket} |-> Abstract!hashing_delete(c, k)]
      BY OneBucket
    <3> HIDE DEF T, c
    <3> QED BY <2>3, <3>1
  <2>5. U = Abstract!Deleted(T, k)
    BY <2>2, <2>4, Maps
  <2> QED BY <2>1, <2>3, <2>5, AbstractSteps
<1>4. CASE HeapSave
  <2>1. ChainOK(heap) /\ file' = save(heap) /\ heap' = heap
    BY <1>4 DEF HeapSave, HeapReady, HeapInv
  <2>2. FileOK(file') /\ AsSaved(file') = Abstract!hashing_save(AsBucket(heap))
    BY <2>1, SaveMaps
  <2>3. /\ T = [b \in {bucket} |-> AsBucket(heap)] /\ T \notin {NoTable, Wild}
        /\ G = [b \in {bucket} |-> AsSaved(file')]
    BY <2>1, <2>2, Maps
  <2>4. G = Abstract!Saved(T)
    BY <2>2, <2>3 DEF Abstract!Saved
  <2> QED BY <2>1, <2>3, <2>4, AbstractSteps DEF Abstract!Next
<1>5. CASE HeapLoad
  <2>1. heap = NoTable /\ heap' = load(file) /\ file' = file
    BY <1>5 DEF HeapLoad
  <2>2. T = NoTable
    BY <2>1, Maps
  <2>3. U = Abstract!Loaded(F)
    <3>1. CASE file = NoFile
      <4>1. heap' = EmptyHeap /\ F = NoFile
        BY <2>1, <3>1, Maps DEF load
      <4> QED BY <4>1, Maps, EmptyMaps DEF Abstract!Loaded, Abstract!EmptyTable
    <3>2. CASE file # NoFile
      <4>1. FileOK(file)
        BY <3>2 DEF HeapInv
      <4>2. ChainOK(heap') /\ AsBucket(heap') = Abstract!hashing_load(AsSaved(file))
        BY <2>1, <3>2, <4>1, LoadMaps
      <4>3. /\ F = [b \in {bucket} |-> AsSaved(file)] /\ F # NoFile
            /\ U = [b \in {bucket} |-> AsBucket(heap')]
        BY <4>1, <4>2, Maps
      <4> QED BY <4>2, <4>3 DEF Abstract!Loaded
    <3> QED BY <3>1, <3>2
  <2> QED BY <2>1, <2>2, <2>3, AbstractSteps DEF Abstract!Next
<1>6. CASE HeapTerminate
  <2>1. heap # NoTable /\ heap' = NoTable /\ file' = file
    BY <1>6 DEF HeapTerminate
  <2>2. heap = Wild \/ ChainOK(heap)
    BY <2>1 DEF HeapInv
  <2>3. T # NoTable /\ U = NoTable
    BY <2>1, <2>2, Maps, MarkAssumption
  <2> QED BY <2>1, <2>3, AbstractSteps DEF Abstract!Next
<1>7. CASE UNCHANGED heapVars
  <2>1. heap' = heap /\ file' = file
    BY <1>7 DEF heapVars
  <2> QED BY <2>1, AbstractSteps
<1> QED
  BY <1>1, <1>2, <1>3, <1>4, <1>5, <1>6, <1>7 DEF HeapNext, Abstract!Next

\* Inserting, deleting, saving and loading along the pointers is inserting,
\* deleting, saving and loading in HashTable: what it leaves out of a chain, its
\* order of the keys determines (hashing.c, the whole of it).
THEOREM ChainIsTable == HeapSpec => Refines
<1>1. HeapInit => Abstract!Init
  BY Maps, AbstractSteps DEF HeapInit
<1>2. HeapInv /\ [HeapNext]_heapVars => [Abstract!Next]_Abstract!tableVars
  BY HeapMaps
<1> QED
  BY <1>1, <1>2, ChainHeapInvariant, PTL DEF HeapSpec, Refines, Abstract!Spec

===============================================================================
