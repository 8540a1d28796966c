---------------------------- MODULE HashTableProofs ----------------------------
(***************************************************************************)
(* What the operations of hashing.c do to one bucket, and what its calls do *)
(* to a table and to its hash file, for every set of keys, every number of  *)
(* buckets and every hash function.  The calls are the operators of         *)
(* HashTable, which are built from those of HashBucket.                     *)
(***************************************************************************)
EXTENDS HashTable, WellFoundedInduction, TLAPS

\* Every backward pointer that is not Stale names a key in front, and the first
\* node has none.
LinksBack(c) ==
    \A k \in DOMAIN c :
        /\ c[k].previous \in Before(c, k) \cup {NULL, Stale}
        /\ Before(c, k) = {} => c[k].previous = NULL

-------------------------------------------------------------------------------
\* Greatest elements.

\* A set of natural numbers has a least element.
LEMMA LeastNatural ==
    ASSUME NEW S, S \subseteq Nat, S # {}
    PROVE  \E m \in S : \A y \in S : m <= y
<1> DEFINE R == {ss \in Nat \X Nat : ss[1] < ss[2]}
<1>1. R = OpToRel(<, Nat)
  BY DEF OpToRel
<1>2. IsWellFoundedOn(R, Nat)
  BY <1>1, NatLessThanWellFounded, Zenon
<1>3. PICK m \in S : \A y \in S : <<y, m>> \notin R
  <2> HIDE DEF R
  <2> QED BY <1>2, WFMin
<1>4. \A y \in S : ~(y < m)
  BY <1>3
<1> QED
  BY <1>4

\* A set of natural numbers with an upper bound has a greatest element.
LEMMA MaxBelow ==
    ASSUME NEW S, S \subseteq Nat, S # {}, NEW n \in Nat, \A x \in S : x < n
    PROVE  Max(S) \in S /\ \A y \in S : y <= Max(S)
<1> DEFINE D == {n - x : x \in S}
<1>1. D \subseteq Nat
  OBVIOUS
<1>2. D # {}
  OBVIOUS
<1>3. PICK d \in D : \A e \in D : d <= e
  BY <1>1, <1>2, LeastNatural
<1>4. PICK m \in S : d = n - m
  BY <1>3
<1>5. \A y \in S : m >= y
  <2>1. TAKE y \in S
  <2>2. n - m <= n - y
    BY <1>3, <1>4
  <2> QED BY <2>2
<1> QED
  BY <1>5 DEF Max

\* There is only one greatest element.
LEMMA MaxIs ==
    ASSUME NEW S, S \subseteq Nat, NEW m \in S, \A y \in S : y <= m
    PROVE  Max(S) = m
<1>1. Max(S) \in S /\ \A y \in S : Max(S) >= y
  <2>1. m \in S /\ \A y \in S : m >= y
    OBVIOUS
  <2> QED BY <2>1 DEF Max
<1>2. Max(S) <= m /\ m <= Max(S)
  BY <1>1
<1>3. Max(S) \in Nat
  BY <1>1
<1> QED
  BY <1>2, <1>3

\* The walk stops behind the greatest smaller key, if there is a smaller one.
LEMMA PredIsLast ==
    ASSUME NEW c, DOMAIN c \subseteq Keys, NEW k \in Keys
    PROVE  /\ Before(c, k) = {} => Pred(c, k) = NULL
           /\ Before(c, k) # {} => /\ Pred(c, k) \in Before(c, k)
                                   /\ \A x \in Before(c, k) : x <= Pred(c, k)
<1>1. Before(c, k) \subseteq Nat /\ k \in Nat /\ \A x \in Before(c, k) : x < k
  BY KeysAssumption DEF Before
<1>2. CASE Before(c, k) = {}
  BY <1>2 DEF Pred
<1>3. CASE Before(c, k) # {}
  <2>1. Max(Before(c, k)) \in Before(c, k) /\ \A y \in Before(c, k) : y <= Max(Before(c, k))
    BY <1>1, <1>3, MaxBelow
  <2> QED BY <2>1, <1>3 DEF Pred
<1> QED
  BY <1>2, <1>3

\* A key is in front of k's place in one chain just when it is in another that
\* has the same keys there.
LEMMA SamePred ==
    ASSUME NEW c, NEW d, NEW j, NEW k, Before(c, j) = Before(d, k)
    PROVE  Pred(c, j) = Pred(d, k)
BY DEF Pred

-------------------------------------------------------------------------------
\* hashing_insert.

\* Inserting links the key and unlinks none.
LEMMA InsertLinks ==
    ASSUME NEW c, IsBucket(c), NEW k \in Keys
    PROVE  LET d == hashing_insert(c, k)
           IN  /\ IsBucket(d)
               /\ DOMAIN d = DOMAIN c \cup {k}
               /\ \A x \in DOMAIN c : /\ d[x].previous = c[x].previous
                                      /\ x # k => d[x] = c[x]
               /\ k \notin DOMAIN c => /\ d[k].previous = Pred(c, k)
                                       /\ d[k].copies = 1
               /\ k \in DOMAIN c => /\ d[k].copies <= c[k].copies + 1
                                    /\ d[k].copies >= c[k].copies
<1> DEFINE d == hashing_insert(c, k)
<1>p. Pred(c, k) \in Keys \cup {NULL}
  BY PredIsLast DEF IsBucket, Before
<1>1. CASE k \notin DOMAIN c
  <2>1. d = [x \in DOMAIN c \cup {k} |->
               IF x = k THEN [previous |-> Pred(c, k), copies |-> 1] ELSE c[x]]
    BY <1>1 DEF hashing_insert
  <2>2. \A x \in DOMAIN d : d[x] \in Node
    BY <2>1, <1>p DEF IsBucket, Node
  <2>3. DOMAIN d \subseteq Keys
    BY <2>1 DEF IsBucket
  <2> QED
    BY <1>1, <2>1, <2>2, <2>3 DEF IsBucket
<1>2. CASE k \in DOMAIN c /\ Before(c, k) = {}
  <2>1. d = [c EXCEPT ![k].copies = @ + 1]
    BY <1>2 DEF hashing_insert
  <2>2. c \in [DOMAIN c -> Node]
    BY DEF IsBucket
  <2> QED
    BY <1>2, <2>1, <2>2 DEF IsBucket, Node
<1>3. CASE k \in DOMAIN c /\ Before(c, k) # {}
  <2>1. d = c
    BY <1>3 DEF hashing_insert
  <2>2. c[k].copies \in Nat
    BY <1>3 DEF IsBucket, Node
  <2>3. DOMAIN c = DOMAIN c \cup {k}
    BY <1>3
  <2> HIDE DEF d
  <2>4. IsBucket(d) /\ DOMAIN d = DOMAIN c \cup {k}
    BY <2>1, <2>3
  <2>5. d[k].copies <= c[k].copies + 1 /\ d[k].copies >= c[k].copies
    BY <2>1, <2>2
  <2> QED
    BY <1>3, <2>1, <2>4, <2>5 DEF d
<1> QED
  BY <1>1, <1>2, <1>3

\* Inserting keeps the backward pointers backward ...
LEMMA InsertLinksBack ==
    ASSUME NEW c, IsBucket(c), LinksBack(c), NEW k \in Keys
    PROVE  LinksBack(hashing_insert(c, k))
<1> DEFINE d == hashing_insert(c, k)
<1>1. /\ DOMAIN d = DOMAIN c \cup {k}
      /\ \A x \in DOMAIN c : d[x].previous = c[x].previous
      /\ k \notin DOMAIN c => d[k].previous = Pred(c, k)
  BY InsertLinks
<1>2. \A x : Before(c, x) \subseteq Before(d, x)
  BY <1>1 DEF Before
<1>3. k \notin DOMAIN c => Before(d, k) = Before(c, k)
  BY <1>1, KeysAssumption DEF Before, IsBucket
<1>4. Pred(c, k) \in Before(c, k) \cup {NULL} /\ (Before(c, k) = {} => Pred(c, k) = NULL)
  BY PredIsLast DEF IsBucket
<1> HIDE DEF d
<1>5. ASSUME NEW x \in DOMAIN d
      PROVE  /\ d[x].previous \in Before(d, x) \cup {NULL, Stale}
             /\ Before(d, x) = {} => d[x].previous = NULL
  <2>1. CASE x \in DOMAIN c
    BY <1>1, <1>2, <2>1 DEF LinksBack
  <2>2. CASE x \notin DOMAIN c
    <3>1. x = k /\ k \notin DOMAIN c
      BY <1>1, <2>2
    <3> QED BY <1>1, <1>3, <1>4, <3>1
  <2> QED BY <2>1, <2>2
<1> QED
  BY <1>5 DEF LinksBack, d

\* ... and, at the end of a chain, keeps them exact.
LEMMA InsertAtEnd ==
    ASSUME NEW c, IsBucket(c), WellLinked(c), NEW k \in Keys,
           \A x \in DOMAIN c : x < k
    PROVE  WellLinked(hashing_insert(c, k))
<1> DEFINE d == hashing_insert(c, k)
<1>0. k \notin DOMAIN c
  BY KeysAssumption
<1>1. /\ DOMAIN d = DOMAIN c \cup {k}
      /\ \A x \in DOMAIN c : d[x].previous = c[x].previous
      /\ d[k].previous = Pred(c, k)
  BY <1>0, InsertLinks
<1> HIDE DEF d
<1>2. \A x \in DOMAIN d : Before(d, x) = Before(c, x)
  BY <1>1, KeysAssumption DEF Before, IsBucket
<1>3. \A x \in DOMAIN d : Pred(d, x) = Pred(c, x)
  BY <1>2 DEF Pred
<1>4. \A x \in DOMAIN d : d[x].previous = Pred(d, x)
  BY <1>1, <1>3 DEF WellLinked
<1> QED
  BY <1>4 DEF WellLinked, d

-------------------------------------------------------------------------------
\* hashing_delete, hashing_create and hashing_load.

\* A chain with exact backward pointers has backward ones.
LEMMA WellLinkedBack ==
    ASSUME NEW c, IsBucket(c), WellLinked(c)
    PROVE  LinksBack(c)
<1>1. ASSUME NEW k \in DOMAIN c
      PROVE  /\ c[k].previous \in Before(c, k) \cup {NULL, Stale}
             /\ Before(c, k) = {} => c[k].previous = NULL
  <2>1. c[k].previous = Pred(c, k)
    BY DEF WellLinked
  <2> QED BY <2>1, PredIsLast DEF IsBucket
<1> QED
  BY <1>1 DEF LinksBack

\* What leaves a chain when k is deleted is k, if it had one node, and keys in
\* front of it.
LEMMA DeleteLinks ==
    ASSUME NEW c, IsBucket(c), LinksBack(c), NEW k \in Keys,
           ~DeleteIsUndefined(c, k)
    PROVE  LET d == hashing_delete(c, k)
           IN  /\ IsBucket(d)
               /\ LinksBack(d)
               /\ DOMAIN d \subseteq DOMAIN c
               /\ After(c, k) \subseteq DOMAIN d
               /\ \A x \in DOMAIN d :
                     d[x].copies = IF x = k THEN c[x].copies - 1 ELSE c[x].copies
<1> DEFINE d == hashing_delete(c, k)
<1>0. /\ DOMAIN c \subseteq Nat /\ k \in Nat
      /\ \A x \in DOMAIN c : c[x] \in Node
  BY KeysAssumption DEF IsBucket
<1>1. CASE k \notin DOMAIN c
  <2>1. d = c
    BY <1>1 DEF hashing_delete
  <2> QED BY <1>1, <2>1 DEF After
<1>2. CASE k \in DOMAIN c
  <2> DEFINE p      == c[k].previous
             rest   == After(c, k) \cup (IF c[k].copies > 1 THEN {k} ELSE {})
             linked == {x \in Before(c, k) : p # NULL /\ x <= p} \cup rest
             foremost(x) == x \in rest /\ \A y \in rest : x <= y
  <2>1. p \in Before(c, k) \cup {NULL} /\ (Before(c, k) = {} => p = NULL)
    BY <1>2 DEF DeleteIsUndefined, LinksBack
  <2>2. d = [x \in linked |->
                [previous |-> IF foremost(x) THEN p
                              ELSE IF c[x].previous \in linked \cup {NULL}
                              THEN c[x].previous
                              ELSE Stale,
                 copies   |-> IF x = k THEN c[x].copies - 1 ELSE c[x].copies]]
    BY <1>2 DEF hashing_delete
  <2>3. linked \subseteq DOMAIN c
    BY <1>2 DEF Before, After
  <2>4. \A x \in linked : x = k => c[k].copies > 1
    BY <1>0 DEF Before, After
  <2>5. \A x \in rest : x >= k
    BY <1>0 DEF After
  <2>6. p # NULL => p \in linked /\ p < k
    BY <2>1, <1>0 DEF Before
  <2>7. \A x \in linked \ rest : \A y \in Before(c, x) : y \in linked
    BY <1>0, <2>1 DEF Before
  <2>8. After(c, k) \subseteq linked
    OBVIOUS
  <2> HIDE DEF linked, rest, p, d
  <2>9. /\ DOMAIN d = linked
        /\ \A x \in linked :
              /\ d[x].previous = IF foremost(x) THEN p
                                 ELSE IF c[x].previous \in linked \cup {NULL}
                                 THEN c[x].previous
                                 ELSE Stale
              /\ d[x].copies = IF x = k THEN c[x].copies - 1 ELSE c[x].copies
    BY <2>2
  <2>10. ASSUME NEW x \in linked
         PROVE  /\ d[x].previous \in Before(d, x) \cup {NULL, Stale}
                /\ Before(d, x) = {} => d[x].previous = NULL
    <3>1. CASE foremost(x)
      <4>1. d[x].previous = p
        BY <3>1, <2>9
      <4>2. p # NULL => p \in Before(d, x)
        BY <3>1, <2>5, <2>6, <2>9, <2>3, <1>0 DEF Before
      <4> QED BY <4>1, <4>2
    <3>2. CASE ~foremost(x)
      <4>1. d[x].previous = IF c[x].previous \in linked \cup {NULL}
                            THEN c[x].previous ELSE Stale
        BY <3>2, <2>9
      <4>2. c[x].previous \in Before(c, x) \cup {NULL, Stale}
        BY <2>3 DEF LinksBack
      <4>3. Stale \notin linked
        BY <2>3, PointerAssumption DEF IsBucket
      <4>4. d[x].previous \in Before(d, x) \cup {NULL, Stale}
        BY <4>1, <4>2, <4>3, <2>9 DEF Before
      <4>5. ASSUME Before(d, x) = {} PROVE d[x].previous = NULL
        <5>1. x \notin rest
          <6> SUFFICES ASSUME x \in rest PROVE FALSE
            OBVIOUS
          <6>1. PICK y \in rest : ~(x <= y)
            BY <3>2
          <6>2. y \in linked
            BY <6>1 DEF linked
          <6>3. y < x
            BY <6>1, <6>2, <2>3, <1>0
          <6> QED BY <6>2, <6>3, <4>5, <2>9 DEF Before
        <5>2. Before(c, x) = {}
          BY <5>1, <2>7, <4>5, <2>9 DEF Before
        <5>3. c[x].previous = NULL
          BY <5>2, <2>3 DEF LinksBack
        <5> QED BY <5>3, <4>1
      <4> QED BY <4>4, <4>5
    <3> QED BY <3>1, <3>2
  <2>11. LinksBack(d)
    BY <2>9, <2>10 DEF LinksBack
  <2>12. ASSUME NEW x \in linked PROVE d[x] \in Node
    <3>1. d[x].previous \in Keys \cup {NULL, Stale}
      BY <2>9, <2>10, <2>3 DEF Before, IsBucket
    <3>2. d[x].copies \in Nat \ {0}
      BY <2>9, <2>4, <2>3, <1>0 DEF Node
    <3>3. d[x] = [previous |-> d[x].previous, copies |-> d[x].copies]
      BY <2>2
    <3> QED BY <3>1, <3>2, <3>3 DEF Node
  <2>13. IsBucket(d)
    <3>1. d = [x \in DOMAIN d |-> d[x]]
      BY <2>2
    <3> QED BY <3>1, <2>9, <2>12, <2>3 DEF IsBucket
  <2>14. d = hashing_delete(c, k)
    BY DEF d
  <2> QED
    BY <2>3, <2>8, <2>9, <2>11, <2>13, <2>14
<1> QED
  BY <1>1, <1>2

\* A chain with exact backward pointers loses one node of k, and keeps them
\* exact.
LEMMA DeleteExactly ==
    ASSUME NEW c, IsBucket(c), WellLinked(c), NEW k \in Keys
    PROVE  /\ ~DeleteIsUndefined(c, k)
           /\ WellLinked(hashing_delete(c, k))
           /\ DOMAIN hashing_delete(c, k) =
                  IF k \in DOMAIN c /\ c[k].copies > 1 THEN DOMAIN c
                  ELSE DOMAIN c \ {k}
<1> DEFINE d == hashing_delete(c, k)
<1>0. DOMAIN c \subseteq Nat /\ k \in Nat
  BY KeysAssumption DEF IsBucket
<1>1. CASE k \notin DOMAIN c
  BY <1>1 DEF hashing_delete, DeleteIsUndefined
<1>2. CASE k \in DOMAIN c
  <2> DEFINE p      == c[k].previous
             rest   == After(c, k) \cup (IF c[k].copies > 1 THEN {k} ELSE {})
             linked == {x \in Before(c, k) : p # NULL /\ x <= p} \cup rest
             foremost(x) == x \in rest /\ \A y \in rest : x <= y
  <2>1. p = Pred(c, k)
    BY <1>2 DEF WellLinked
  <2>2. /\ Before(c, k) = {} => p = NULL
        /\ Before(c, k) # {} => p \in Before(c, k) /\ \A x \in Before(c, k) : x <= p
    BY <2>1, PredIsLast DEF IsBucket
  <2>3. ~DeleteIsUndefined(c, k)
    BY <1>2, <2>2, PointerAssumption DEF DeleteIsUndefined, Before, IsBucket
  <2>4. Before(c, k) # {} => p # NULL
    BY <2>2, PointerAssumption DEF Before, IsBucket
  <2>5. linked = Before(c, k) \cup rest
    BY <2>2, <2>4
  <2>6. rest \subseteq DOMAIN c /\ \A x \in rest : x >= k
    BY <1>0, <1>2 DEF After
  <2>7. linked = IF c[k].copies > 1 THEN DOMAIN c ELSE DOMAIN c \ {k}
    BY <2>5, <1>0, <1>2 DEF Before, After
  <2>8. d = [x \in linked |->
                [previous |-> IF foremost(x) THEN p
                              ELSE IF c[x].previous \in linked \cup {NULL}
                              THEN c[x].previous
                              ELSE Stale,
                 copies   |-> IF x = k THEN c[x].copies - 1 ELSE c[x].copies]]
    BY <1>2 DEF hashing_delete
  <2>9. k \in linked => k \in rest
    BY <2>5, <1>0 DEF Before
  <2> HIDE DEF linked, rest, p, d
  <2>10. /\ DOMAIN d = linked
         /\ \A x \in linked : d[x].previous = IF foremost(x) THEN p
                                ELSE IF c[x].previous \in linked \cup {NULL}
                                THEN c[x].previous
                                ELSE Stale
    BY <2>8
  <2>11. ASSUME NEW x \in linked PROVE d[x].previous = Pred(d, x)
    <3>1. CASE foremost(x)
      <4>1. Before(d, x) = Before(c, k)
        BY <3>1, <2>5, <2>6, <2>10, <1>0 DEF Before
      <4> QED BY <3>1, <4>1, <2>1, <2>10 DEF Pred
    <3>2. CASE ~foremost(x) /\ x \in rest
      <4>1. PICK y \in rest : y < x
        BY <3>2, <2>6, <1>0
      <4>2. y \in Before(c, x) /\ x \in DOMAIN c /\ x \in Keys
        BY <3>2, <4>1, <2>6 DEF Before, IsBucket
      <4>3. /\ Pred(c, x) \in Before(c, x)
            /\ \A z \in Before(c, x) : z <= Pred(c, x)
        BY <4>2, PredIsLast DEF IsBucket
      <4>4. Pred(c, x) \in linked
        <5>1. CASE Pred(c, x) = k
          <6>1. y = k
            BY <5>1, <4>2, <4>3, <2>6, <1>0
          <6> QED BY <6>1, <5>1, <2>5, <4>1
        <5>2. CASE Pred(c, x) # k
          BY <5>2, <4>3, <2>7 DEF Before
        <5> QED BY <5>1, <5>2
      <4>5. d[x].previous = Pred(c, x)
        BY <3>2, <4>2, <4>4, <2>10 DEF WellLinked
      <4>6. Before(d, x) \subseteq Before(c, x) /\ Pred(c, x) \in Before(d, x)
        BY <4>3, <4>4, <2>7, <2>10 DEF Before
      <4>7. Before(d, x) \subseteq Nat
        BY <4>6, <1>0 DEF Before
      <4>8. Max(Before(d, x)) = Pred(c, x)
        BY <4>3, <4>6, <4>7, MaxIs
      <4> QED BY <4>5, <4>6, <4>8 DEF Pred
    <3>3. CASE x \notin rest
      <4>1. x \in DOMAIN c /\ x < k /\ x \in Keys
        BY <3>3, <2>5 DEF Before, IsBucket
      <4>2. Before(d, x) = Before(c, x)
        BY <4>1, <2>7, <2>10, <1>0 DEF Before
      <4>3. c[x].previous = Pred(c, x)
        BY <4>1 DEF WellLinked
      <4>4. Pred(c, x) \in Before(c, x) \cup {NULL}
        BY <4>1, PredIsLast DEF IsBucket
      <4>5. Pred(c, x) \in linked \cup {NULL}
        BY <4>2, <4>4, <2>10 DEF Before
      <4>6. Pred(d, x) = Pred(c, x)
        BY <4>2 DEF Pred
      <4> QED BY <3>3, <4>3, <4>5, <4>6, <2>10
    <3> QED BY <3>1, <3>2, <3>3
  <2>12. WellLinked(d)
    BY <2>10, <2>11 DEF WellLinked
  <2>13. d = hashing_delete(c, k)
    BY DEF d
  <2> QED
    BY <1>2, <2>3, <2>7, <2>10, <2>12, <2>13
<1> QED
  BY <1>1, <1>2

\* A chain read back has the keys of the saved one and exact pointers.
LEMMA LoadLinks ==
    ASSUME NEW f, IsSavedBucket(f)
    PROVE  /\ IsBucket(hashing_load(f))
           /\ DOMAIN hashing_load(f) = DOMAIN f
           /\ WellLinked(hashing_load(f))
<1> DEFINE d == hashing_load(f)
<1>1. d = [k \in DOMAIN f |-> [previous |-> Pred(f, k),
                               copies |-> IF Before(f, k) = {} THEN f[k] ELSE 1]]
  BY DEF hashing_load
<1>2. ASSUME NEW k \in DOMAIN f
      PROVE  [previous |-> Pred(f, k),
              copies |-> IF Before(f, k) = {} THEN f[k] ELSE 1] \in Node
  <2>1. Pred(f, k) \in Keys \cup {NULL}
    BY PredIsLast DEF IsSavedBucket, Before
  <2>2. f[k] \in Nat \ {0}
    BY DEF IsSavedBucket
  <2> QED BY <2>1, <2>2 DEF Node
<1>3. d \in [DOMAIN f -> Node] /\ DOMAIN d = DOMAIN f
  BY <1>1, <1>2
<1>4. \A k \in DOMAIN f : d[k].previous = Pred(f, k)
  BY <1>1
<1> HIDE DEF d
<1>5. \A k \in DOMAIN f : Pred(d, k) = Pred(f, k)
  BY <1>3 DEF Pred, Before
<1>6. IsBucket(d) /\ DOMAIN d = DOMAIN f /\ WellLinked(d)
  BY <1>3, <1>4, <1>5 DEF IsBucket, WellLinked, IsSavedBucket
<1> QED
  BY <1>6 DEF d

\* A new chain is empty.
LEMMA EmptyLinks == IsBucket(EmptyBucket) /\ DOMAIN EmptyBucket = {} /\ WellLinked(EmptyBucket)
BY DEF EmptyBucket, IsBucket, WellLinked

\* What hashing_save writes is a saved bucket with the keys of the chain.
LEMMA SaveLinks ==
    ASSUME NEW c, IsBucket(c)
    PROVE  IsSavedBucket(hashing_save(c)) /\ DOMAIN hashing_save(c) = DOMAIN c
BY DEF IsBucket, IsSavedBucket, hashing_save, Node

-------------------------------------------------------------------------------
\* The whole table.

\* A table whose backward pointers lead backward.
LinkedTable(t) == IsTable(t) /\ \A b \in Buckets : LinksBack(t[b])

\* The keys that are found in a table.
KeysIn(t) == {k \in Keys : Found(t, k)}

\* Every key of a table has one node.
OneNodeEach(t) == \A k \in KeysIn(t) : t[hash[k]][k].copies = 1

-------------------------------------------------------------------------------
\* Tables.

\* A table is neither of the two values that stand for none.
LEMMA TableIsReady ==
    ASSUME NEW t, IsTable(t)
    PROVE  t # NoTable /\ t # Wild
<1>1. ASSUME NEW b \in Buckets PROVE t[b] \in Bucket
  BY DEF IsTable, IsBucket, Bucket
<1>2. t \in [Buckets -> Bucket]
  BY <1>1 DEF IsTable
<1> QED
  BY <1>2, TableAssumption

\* Replacing the bucket of k by one whose other keys were there before.
LEMMA ReplaceBucket ==
    ASSUME NEW t, IsTable(t), NEW k \in Keys, NEW c, IsBucket(c),
           DOMAIN c \subseteq DOMAIN t[hash[k]] \cup {k}
    PROVE  LET u == [t EXCEPT ![hash[k]] = c]
           IN  /\ IsTable(u)
               /\ u[hash[k]] = c
               /\ \A b \in Buckets : b # hash[k] => u[b] = t[b]
<1> DEFINE u == [t EXCEPT ![hash[k]] = c]
<1>1. hash[k] \in Buckets
  BY HashAssumption
<1>2. DOMAIN t = Buckets
  BY DEF IsTable
<1>3. DOMAIN u = Buckets /\ u[hash[k]] = c /\ \A b \in Buckets : b # hash[k] => u[b] = t[b]
  BY <1>1, <1>2
<1>4. u \in [Buckets -> Range(u)]
  <2>1. \A b \in Buckets : u[b] \in Range(u)
    BY <1>3 DEF Range
  <2>2. u = [b \in Buckets |-> u[b]]
    BY <1>2
  <2> HIDE DEF u
  <2> QED BY <2>1, <2>2
<1> HIDE DEF u
<1>5. \A b \in Buckets : IsBucket(u[b])
  BY <1>3 DEF IsTable
<1>6. InItsBucket(u)
  BY <1>3 DEF IsTable, InItsBucket
<1> QED
  BY <1>3, <1>4, <1>5, <1>6 DEF IsTable, u

\* A function that gives each bucket a chain of keys that belong there is a table.
LEMMA MakeTable ==
    ASSUME NEW t, t = [b \in Buckets |-> t[b]], \A b \in Buckets : IsBucket(t[b]),
           InItsBucket(t)
    PROVE  IsTable(t)
<1>1. \A b \in Buckets : t[b] \in Range(t)
  BY DEF Range
<1>2. t \in [Buckets -> Range(t)]
  BY <1>1
<1> QED
  BY <1>2 DEF IsTable

\* hashing_create makes a table.
LEMMA EmptyTableIsTable ==
    IsTable(EmptyTable) /\ \A b \in Buckets : WellLinked(EmptyTable[b])
<1>1. \A b \in Buckets : EmptyTable[b] = EmptyBucket
  BY DEF EmptyTable
<1>2. EmptyTable = [b \in Buckets |-> EmptyTable[b]]
  BY DEF EmptyTable
<1> QED
  BY <1>1, <1>2, EmptyLinks, MakeTable DEF InItsBucket

\* hashing_load makes a table whose pointers are exact.
LEMMA LoadedIsTable ==
    ASSUME NEW f, f = NoFile \/ IsHashFile(f)
    PROVE  /\ IsTable(Loaded(f))
           /\ \A b \in Buckets : WellLinked(Loaded(f)[b])
           /\ f # NoFile =>
                \A b \in Buckets : DOMAIN Loaded(f)[b] = DOMAIN f[b]
<1>1. CASE f = NoFile
  BY <1>1, EmptyTableIsTable DEF Loaded
<1>2. CASE f # NoFile
  <2>1. Loaded(f) = [b \in Buckets |-> hashing_load(f[b])]
    BY <1>2 DEF Loaded
  <2>2. \A b \in Buckets : IsSavedBucket(f[b]) /\ Loaded(f)[b] = hashing_load(f[b])
    BY <1>2, <2>1 DEF IsHashFile
  <2>3. \A b \in Buckets : /\ IsBucket(Loaded(f)[b])
                           /\ DOMAIN Loaded(f)[b] = DOMAIN f[b]
                           /\ WellLinked(Loaded(f)[b])
    BY <2>2, LoadLinks
  <2>4. InItsBucket(Loaded(f))
    BY <1>2, <2>3 DEF InItsBucket, IsHashFile
  <2>5. IsTable(Loaded(f))
    BY <2>1, <2>2, <2>3, <2>4, MakeTable
  <2> QED BY <2>3, <2>5
<1> QED
  BY <1>1, <1>2

\* hashing_save makes a hash file.
LEMMA SavedIsHashFile ==
    ASSUME NEW t, IsTable(t)
    PROVE  IsHashFile(Saved(t))
<1> DEFINE f == Saved(t)
<1>1. f = [b \in Buckets |-> hashing_save(t[b])]
  BY DEF Saved
<1>2. \A b \in Buckets : IsSavedBucket(f[b]) /\ DOMAIN f[b] = DOMAIN t[b]
  BY <1>1, SaveLinks DEF IsTable
<1>3. f \in [Buckets -> Range(f)]
  <2>1. \A b \in Buckets : f[b] \in Range(f)
    BY <1>1 DEF Range
  <2> HIDE DEF f
  <2> QED BY <1>1, <2>1
<1> HIDE DEF f
<1>4. InItsBucket(f)
  BY <1>2 DEF IsTable, InItsBucket
<1> QED
  BY <1>2, <1>3, <1>4 DEF IsHashFile, f

-------------------------------------------------------------------------------
\* The calls.

\* A new table is linked and has no keys.
LEMMA EmptyTableLinked ==
    LinkedTable(EmptyTable) /\ KeysIn(EmptyTable) = {} /\ OneNodeEach(EmptyTable)
<1>1. LinkedTable(EmptyTable)
  BY EmptyTableIsTable, WellLinkedBack DEF LinkedTable, IsTable
<1>2. \A k \in Keys : ~Found(EmptyTable, k)
  BY EmptyLinks, HashAssumption DEF EmptyTable, Found, hashing_retrieve
<1> QED
  BY <1>1, <1>2 DEF KeysIn, OneNodeEach

\* Inserting adds the key and no other; a key that was new has one node.
LEMMA InsertedKeys ==
    ASSUME NEW t, LinkedTable(t), NEW k \in Keys
    PROVE  /\ LinkedTable(Inserted(t, k))
           /\ KeysIn(Inserted(t, k)) = KeysIn(t) \cup {k}
           /\ OneNodeEach(t) /\ ~Found(t, k) => OneNodeEach(Inserted(t, k))
<1> DEFINE c == t[hash[k]]
           d == hashing_insert(c, k)
           u == [t EXCEPT ![hash[k]] = d]
<1>1. /\ \A x \in Keys : hash[x] \in Buckets
      /\ IsTable(t) /\ IsBucket(c) /\ LinksBack(c)
  BY HashAssumption DEF LinkedTable, IsTable
<1>2. /\ IsBucket(d)
      /\ DOMAIN d = DOMAIN c \cup {k}
      /\ \A x \in DOMAIN c : x # k => d[x] = c[x]
      /\ k \notin DOMAIN c => d[k].copies = 1
  BY <1>1, InsertLinks
<1>3. LinksBack(d)
  BY <1>1, InsertLinksBack
<1>4. Inserted(t, k) = u
  BY DEF Inserted
<1> HIDE DEF d
<1>5. /\ IsTable(u)
      /\ u[hash[k]] = d
      /\ \A b \in Buckets : b # hash[k] => u[b] = t[b]
  BY <1>1, <1>2, ReplaceBucket
<1> HIDE DEF u
<1>6. LinkedTable(u)
  BY <1>3, <1>5 DEF LinkedTable
<1>7. ASSUME NEW x \in Keys
      PROVE  /\ Found(u, x) <=> Found(t, x) \/ x = k
             /\ x # k /\ Found(t, x) => u[hash[x]][x] = t[hash[x]][x]
             /\ ~Found(t, k) => u[hash[k]][k].copies = 1
  BY <1>1, <1>2, <1>5 DEF Found, hashing_retrieve
<1> QED
  BY <1>4, <1>6, <1>7 DEF KeysIn, OneNodeEach

\* Deleting adds no key and, unless the table ends in freed memory, keeps it
\* linked; a key with one node is gone.
LEMMA DeletedKeys ==
    ASSUME NEW t, LinkedTable(t), NEW k \in Keys, Deleted(t, k) # Wild
    PROVE  /\ LinkedTable(Deleted(t, k))
           /\ KeysIn(Deleted(t, k)) \subseteq KeysIn(t)
           /\ OneNodeEach(t) => /\ OneNodeEach(Deleted(t, k))
                                /\ k \notin KeysIn(Deleted(t, k))
<1> DEFINE c == t[hash[k]]
           d == hashing_delete(c, k)
           u == [t EXCEPT ![hash[k]] = d]
<1>1. /\ \A x \in Keys : hash[x] \in Buckets
      /\ IsTable(t) /\ IsBucket(c) /\ LinksBack(c)
  BY HashAssumption DEF LinkedTable, IsTable
<1>2. ~DeleteIsUndefined(c, k) /\ Deleted(t, k) = u
  BY DEF Deleted
<1>3. /\ IsBucket(d) /\ LinksBack(d) /\ DOMAIN d \subseteq DOMAIN c
      /\ \A x \in DOMAIN d :
            d[x].copies = IF x = k THEN c[x].copies - 1 ELSE c[x].copies
  BY <1>1, <1>2, DeleteLinks
<1> HIDE DEF d
<1>4. /\ IsTable(u)
      /\ u[hash[k]] = d
      /\ \A b \in Buckets : b # hash[k] => u[b] = t[b]
  BY <1>1, <1>3, ReplaceBucket
<1> HIDE DEF u
<1>5. LinkedTable(u)
  BY <1>3, <1>4, <1>1 DEF LinkedTable
<1>6. ASSUME NEW x \in Keys, Found(u, x)
      PROVE  /\ Found(t, x)
             /\ x # k => u[hash[x]][x].copies = t[hash[x]][x].copies
  BY <1>1, <1>3, <1>4, <1>6 DEF Found, hashing_retrieve
<1>7. ASSUME OneNodeEach(t) PROVE ~Found(u, k)
  <2> SUFFICES ASSUME Found(u, k) PROVE FALSE
    OBVIOUS
  <2>1. k \in DOMAIN d /\ k \in DOMAIN c
    BY <1>3, <1>4 DEF Found, hashing_retrieve
  <2>2. c[k].copies = 1
    BY <1>7, <2>1 DEF OneNodeEach, KeysIn, Found, hashing_retrieve
  <2>3. d[k].copies = 0
    BY <1>3, <2>1, <2>2
  <2>4. d[k].copies \in Nat \ {0}
    BY <1>3, <2>1 DEF IsBucket, Node
  <2> QED BY <2>3, <2>4
<1> QED
  BY <1>2, <1>5, <1>6, <1>7 DEF KeysIn, OneNodeEach

\* A table read from a hash file is linked.
LEMMA LoadedLinked ==
    ASSUME NEW f, f = NoFile \/ IsHashFile(f)
    PROVE  LinkedTable(Loaded(f))
BY LoadedIsTable, WellLinkedBack DEF LinkedTable, IsTable

\* A hash file is not the mark of none.
LEMMA FileIsThere == ASSUME NEW f, IsHashFile(f) PROVE f # NoFile
<1>1. \A b \in Buckets : f[b] \in SavedBucket
  BY DEF IsHashFile, IsSavedBucket, SavedBucket
<1>2. f \in [Buckets -> SavedBucket]
  BY <1>1 DEF IsHashFile
<1> QED
  BY <1>2, TableAssumption

\* Saving and reading back keeps the keys, and gives none of them more nodes.
LEMMA SavedKeys ==
    ASSUME NEW t, LinkedTable(t)
    PROVE  /\ Saved(t) # NoFile /\ IsHashFile(Saved(t))
           /\ KeysIn(Loaded(Saved(t))) = KeysIn(t)
           /\ OneNodeEach(t) => OneNodeEach(Loaded(Saved(t)))
<1> DEFINE f == Saved(t)
<1>1. IsTable(t) /\ \A x \in Keys : hash[x] \in Buckets
  BY HashAssumption DEF LinkedTable
<1>2. IsHashFile(f)
  BY <1>1, SavedIsHashFile
<1>3. f # NoFile
  BY <1>2, FileIsThere
<1>4. \A b \in Buckets : DOMAIN f[b] = DOMAIN t[b] /\ \A k \in DOMAIN t[b] : f[b][k] = t[b][k].copies
  BY DEF Saved, hashing_save
<1>5. Loaded(f) = [b \in Buckets |-> hashing_load(f[b])]
  BY <1>3 DEF Loaded
<1>6. \A b \in Buckets :
         /\ DOMAIN Loaded(f)[b] = DOMAIN t[b]
         /\ \A k \in DOMAIN t[b] : t[b][k].copies = 1 => Loaded(f)[b][k].copies = 1
  BY <1>4, <1>5 DEF hashing_load
<1> HIDE DEF f
<1>7. ASSUME NEW x \in Keys
      PROVE  /\ Found(Loaded(f), x) <=> Found(t, x)
             /\ Found(t, x) /\ t[hash[x]][x].copies = 1
                   => Loaded(f)[hash[x]][x].copies = 1
  BY <1>1, <1>6 DEF Found, hashing_retrieve
<1> QED
  BY <1>2, <1>3, <1>7 DEF KeysIn, OneNodeEach, f

===============================================================================
