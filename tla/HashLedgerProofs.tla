--------------------------- MODULE HashLedgerProofs ---------------------------
(***************************************************************************)
(* The properties of HashLedger for every set of keys, every number of      *)
(* buckets, every hash function and every sequence of calls.                *)
(***************************************************************************)
EXTENDS HashLedger, HashTableProofs

\* Every backward pointer that is followed without harm leads backward, and the
\* node in front has none.
PointersBack == Ready => \A b \in Buckets : LinksBack(table[b])

\* In a tidy table they are exact, and so is the account of its keys.
TidyIsExact ==
    Ready /\ tidy =>
        /\ \A b \in Buckets : WellLinked(table[b])
        /\ \A k \in Keys :
              owed[k] = IF Found(table, k) THEN table[hash[k]][k].copies ELSE 0

\* In a pristine table no key has been lost yet.
PristineIsWhole == Ready /\ pristine => \A k \in Keys : owed[k] > 0 => Found(table, k)

\* The inductive invariant.
LedgerInv == /\ TypeOK
             /\ PointersBack
             /\ TidyIsExact
             /\ PristineIsWhole
             /\ NoPhantomKey
             /\ TidyIsSafe

-------------------------------------------------------------------------------
\* The steps.

\* An invariant table, as the lemmas about buckets want it.
LEMMA ReadyTable ==
    ASSUME TypeOK, Ready
    PROVE  IsTable(table) /\ \A k \in Keys : hash[k] \in Buckets /\ IsBucket(table[hash[k]])
<1>1. IsTable(table)
  BY DEF TypeOK, TableTypeOK, Ready
<1> QED
  BY <1>1, HashAssumption DEF IsTable

\* A table just made or read: the record says what it holds.
LEMMA OpenedStep ==
    ASSUME IsTable(table'), \A b \in Buckets : WellLinked(table'[b]), Opened,
           UNCHANGED hashfile, TypeOK
    PROVE  LedgerInv'
<1>1. ASSUME NEW k \in Keys
      PROVE  /\ hash[k] \in Buckets
             /\ IsBucket(table'[hash[k]])
             /\ Found(table', k) => table'[hash[k]][k].copies \in Nat \ {0}
  BY HashAssumption DEF IsTable, IsBucket, Node, Found, hashing_retrieve
<1>2. /\ DOMAIN owed' = Keys
      /\ \A k \in Keys :
            owed'[k] = IF Found(table', k) THEN table'[hash[k]][k].copies ELSE 0
      /\ pristine' = TRUE /\ tidy' = TRUE
      /\ owed' \in [Keys -> Nat]
  BY <1>1 DEF Opened
<1>3. TypeOK'
  BY <1>2 DEF TypeOK, TableTypeOK
<1>4. PointersBack'
  <2>1. \A b \in Buckets : LinksBack(table'[b])
    BY WellLinkedBack DEF IsTable
  <2> QED BY <2>1 DEF PointersBack
<1>5. TidyIsExact'
  BY <1>2 DEF TidyIsExact, Found
<1>6. PristineIsWhole' /\ NoPhantomKey'
  <2>1. \A k \in Keys : owed'[k] > 0 => Found(table', k)
    BY <1>2
  <2>2. \A k \in Keys : Found(table', k) => table'[hash[k]][k].copies <= owed'[k]
    BY <1>1, <1>2
  <2> QED BY <2>1, <2>2 DEF PristineIsWhole, NoPhantomKey, Found
<1>7. TidyIsSafe'
  BY TableIsReady DEF TidyIsSafe
<1> QED
  BY <1>3, <1>4, <1>5, <1>6, <1>7 DEF LedgerInv

\* hashing_insert links the key in its bucket and leaves the others alone.
LEMMA InsertStep ==
    ASSUME LedgerInv, NEW k \in Keys, InsertKey(k)
    PROVE  LedgerInv'
<1> DEFINE h == hash[k]
           c == table[h]
           d == hashing_insert(c, k)
<1>1. /\ Ready /\ table' = [table EXCEPT ![h] = d] /\ hashfile' = hashfile
      /\ owed' = [owed EXCEPT ![k] = @ + 1]
      /\ pristine' = pristine
      /\ tidy' = (tidy /\ \A x \in DOMAIN c : x < k)
  BY DEF InsertKey, Insert, Inserted
<1>2. IsTable(table) /\ h \in Buckets /\ IsBucket(c)
  BY <1>1, ReadyTable DEF LedgerInv
<1>3. /\ IsBucket(d)
      /\ DOMAIN d = DOMAIN c \cup {k}
      /\ \A x \in DOMAIN c : d[x].previous = c[x].previous /\ (x # k => d[x] = c[x])
      /\ k \notin DOMAIN c => d[k].previous = Pred(c, k) /\ d[k].copies = 1
      /\ k \in DOMAIN c => d[k].copies <= c[k].copies + 1 /\ d[k].copies >= c[k].copies
  BY <1>2, InsertLinks
<1>4. LinksBack(d)
  <2>1. LinksBack(c)
    BY <1>1, <1>2 DEF LedgerInv, PointersBack
  <2> QED BY <1>2, <2>1, InsertLinksBack
<1> HIDE DEF d
<1>5. /\ IsTable(table')
      /\ table'[h] = d
      /\ \A b \in Buckets : b # h => table'[b] = table[b]
  <2> DEFINE u == [table EXCEPT ![hash[k]] = d]
  <2>1. IsTable(u) /\ u[h] = d /\ \A b \in Buckets : b # h => u[b] = table[b]
    BY <1>2, <1>3, ReplaceBucket
  <2> QED BY <1>1, <2>1
<1>6. \A x \in Keys : hash[x] \in Buckets
  BY HashAssumption
<1>7. /\ \A x \in Keys : x # k => owed'[x] = owed[x]
      /\ owed'[k] = owed[k] + 1
      /\ owed \in [Keys -> Nat] /\ owed' \in [Keys -> Nat]
  BY <1>1 DEF LedgerInv, TypeOK
<1>8. \A x \in Keys : x # k => /\ Found(table', x) <=> Found(table, x)
                               /\ Found(table, x) => table'[hash[x]][x] = table[hash[x]][x]
  BY <1>3, <1>5, <1>6 DEF Found, hashing_retrieve
<1>9. /\ Found(table', k)
      /\ ~Found(table, k) => table'[h][k].copies = 1
      /\ Found(table, k) => table'[h][k].copies <= table[h][k].copies + 1
  BY <1>3, <1>5 DEF Found, hashing_retrieve
<1>10. TypeOK'
  BY <1>1, <1>5, <1>7 DEF LedgerInv, TypeOK, TableTypeOK
<1>11. PointersBack'
  BY <1>1, <1>4, <1>5 DEF LedgerInv, PointersBack
<1>12. TidyIsExact'
  <2> SUFFICES ASSUME tidy'
               PROVE  /\ \A b \in Buckets : WellLinked(table'[b])
                      /\ \A x \in Keys : owed'[x] = IF Found(table', x)
                                     THEN table'[hash[x]][x].copies ELSE 0
    BY DEF TidyIsExact, Found
  <2>1. tidy /\ \A x \in DOMAIN c : x < k
    BY <1>1
  <2>2. /\ \A b \in Buckets : WellLinked(table[b])
        /\ \A x \in Keys :
              owed[x] = IF Found(table, x) THEN table[hash[x]][x].copies ELSE 0
    BY <1>1, <2>1 DEF LedgerInv, TidyIsExact
  <2>3. WellLinked(d)
    BY <1>2, <2>1, <2>2, InsertAtEnd DEF d
  <2>4. ~Found(table, k)
    BY <2>1, KeysAssumption DEF Found, hashing_retrieve
  <2>5. owed'[k] = table'[h][k].copies
    BY <1>7, <1>9, <2>2, <2>4
  <2>6. \A b \in Buckets : WellLinked(table'[b])
    BY <1>5, <2>2, <2>3
  <2>7. ASSUME NEW x \in Keys
        PROVE  owed'[x] = IF Found(table', x) THEN table'[hash[x]][x].copies ELSE 0
    <3>1. CASE x = k
      BY <1>9, <2>5, <3>1
    <3>2. CASE x # k
      BY <1>7, <1>8, <2>2, <3>2
    <3> QED BY <3>1, <3>2
  <2> QED BY <2>6, <2>7
<1>13. PristineIsWhole'
  <2> SUFFICES ASSUME pristine' PROVE \A x \in Keys : owed'[x] > 0 => Found(table', x)
    BY DEF PristineIsWhole, Found
  <2>1. \A x \in Keys : owed[x] > 0 => Found(table, x)
    BY <1>1 DEF LedgerInv, PristineIsWhole
  <2>2. ASSUME NEW x \in Keys, owed'[x] > 0 PROVE Found(table', x)
    BY <1>7, <1>8, <1>9, <2>1, <2>2
  <2> QED BY <2>2
<1>14. NoPhantomKey'
  <2>1. \A x \in Keys : Found(table, x) => table[hash[x]][x].copies <= owed[x]
    BY <1>1 DEF LedgerInv, NoPhantomKey
  <2>2. Found(table, k) => table[h][k].copies \in Nat /\ table'[h][k].copies \in Nat
    BY <1>2, <1>3, <1>5 DEF Found, hashing_retrieve, IsBucket, Node
  <2>3. table'[h][k].copies <= owed'[k]
    <3>1. CASE Found(table, k)
      BY <1>7, <1>9, <2>1, <2>2, <3>1
    <3>2. CASE ~Found(table, k)
      BY <1>7, <1>9, <3>2
    <3> QED BY <3>1, <3>2
  <2>4. \A x \in Keys : Found(table', x) => table'[hash[x]][x].copies <= owed'[x]
    <3>1. ASSUME NEW x \in Keys, Found(table', x)
          PROVE  table'[hash[x]][x].copies <= owed'[x]
      <4>1. CASE x = k
        BY <2>3, <4>1
      <4>2. CASE x # k
        BY <1>7, <1>8, <2>1, <3>1, <4>2
      <4> QED BY <4>1, <4>2
    <3> QED BY <3>1
  <2> QED BY <2>4 DEF NoPhantomKey, Found
<1>15. TidyIsSafe'
  BY <1>5, TableIsReady DEF TidyIsSafe
<1> QED
  BY <1>10, <1>11, <1>12, <1>13, <1>14, <1>15 DEF LedgerInv

\* hashing_delete takes one node of the key away and loses only keys in front.
LEMMA DeleteStep ==
    ASSUME LedgerInv, NEW k \in Keys, DeleteKey(k)
    PROVE  /\ LedgerInv'
           /\ table' # Wild =>
                \A x \in Keys : Found(table, x) /\ (hash[x] # hash[k] \/ x > k)
                                   => Found(table', x)
<1> DEFINE h == hash[k]
           c == table[h]
           d == hashing_delete(c, k)
<1>1. /\ Ready
      /\ table' = IF DeleteIsUndefined(c, k) THEN Wild ELSE [table EXCEPT ![h] = d]
      /\ hashfile' = hashfile
      /\ owed' = [owed EXCEPT ![k] = IF @ > 0 THEN @ - 1 ELSE 0]
      /\ pristine' = FALSE
      /\ tidy' = tidy
  BY DEF DeleteKey, Delete, Deleted
<1>2. IsTable(table) /\ h \in Buckets /\ IsBucket(c)
  BY <1>1, ReadyTable DEF LedgerInv
<1>3. /\ \A x \in Keys : x # k => owed'[x] = owed[x]
      /\ owed'[k] = IF owed[k] > 0 THEN owed[k] - 1 ELSE 0
      /\ owed \in [Keys -> Nat] /\ owed' \in [Keys -> Nat]
  BY <1>1 DEF LedgerInv, TypeOK
<1>4. \A x \in Keys : hash[x] \in Buckets
  BY HashAssumption
<1>5. LinksBack(c)
  BY <1>1, <1>2 DEF LedgerInv, PointersBack
<1>6. CASE DeleteIsUndefined(c, k)
  <2>1. table' = Wild
    BY <1>1, <1>6
  <2>2. ~tidy
    <3> SUFFICES ASSUME tidy PROVE FALSE
      OBVIOUS
    <3>1. WellLinked(c)
      BY <1>1, <1>2 DEF LedgerInv, TidyIsExact
    <3> QED BY <1>2, <1>6, <3>1, DeleteExactly
  <2>3. ~Ready'
    BY <2>1 DEF Ready
  <2>4. TypeOK'
    BY <1>1, <1>3, <2>1 DEF LedgerInv, TypeOK, TableTypeOK
  <2> QED
    BY <1>1, <2>1, <2>2, <2>3, <2>4
    DEF LedgerInv, PointersBack, TidyIsExact, PristineIsWhole, NoPhantomKey, TidyIsSafe
<1>7. CASE ~DeleteIsUndefined(c, k)
  <2>1. /\ IsBucket(d) /\ LinksBack(d) /\ DOMAIN d \subseteq DOMAIN c
        /\ After(c, k) \subseteq DOMAIN d
        /\ \A x \in DOMAIN d :
              d[x].copies = IF x = k THEN c[x].copies - 1 ELSE c[x].copies
    BY <1>2, <1>5, <1>7, DeleteLinks
  <2>2. tidy => /\ WellLinked(d)
                /\ DOMAIN d = IF k \in DOMAIN c /\ c[k].copies > 1 THEN DOMAIN c
                              ELSE DOMAIN c \ {k}
    <3> SUFFICES ASSUME tidy PROVE /\ WellLinked(d)
                                   /\ DOMAIN d = IF k \in DOMAIN c /\ c[k].copies > 1
                                                 THEN DOMAIN c ELSE DOMAIN c \ {k}
      OBVIOUS
    <3>1. WellLinked(c)
      BY <1>1, <1>2 DEF LedgerInv, TidyIsExact
    <3> QED BY <1>2, <3>1, DeleteExactly
  <2> HIDE DEF d
  <2>3. /\ IsTable(table')
        /\ table'[h] = d
        /\ \A b \in Buckets : b # h => table'[b] = table[b]
    <3> DEFINE u == [table EXCEPT ![hash[k]] = d]
    <3>1. IsTable(u) /\ u[h] = d /\ \A b \in Buckets : b # h => u[b] = table[b]
      BY <1>2, <2>1, ReplaceBucket
    <3> QED BY <1>1, <1>7, <3>1
  <2>4. TypeOK'
    BY <1>1, <1>3, <2>3 DEF LedgerInv, TypeOK, TableTypeOK
  <2>5. PointersBack'
    BY <1>1, <2>1, <2>3 DEF LedgerInv, PointersBack
  <2>6. ASSUME NEW x \in Keys, x # k, Found(table', x)
        PROVE  Found(table, x) /\ table'[hash[x]][x].copies = table[hash[x]][x].copies
    BY <1>4, <2>1, <2>3, <2>6 DEF Found, hashing_retrieve
  <2>7. ASSUME Found(table', k)
        PROVE  Found(table, k) /\ table'[h][k].copies = table[h][k].copies - 1
    BY <2>1, <2>3, <2>7 DEF Found, hashing_retrieve
  <2>8. Found(table, k) => c[k].copies \in Nat \ {0}
    BY <1>2 DEF Found, hashing_retrieve, IsBucket, Node
  <2>9. NoPhantomKey'
    <3>1. \A x \in Keys : Found(table, x) => table[hash[x]][x].copies <= owed[x]
      BY <1>1 DEF LedgerInv, NoPhantomKey
    <3>2. ASSUME NEW x \in Keys, Found(table', x)
          PROVE  table'[hash[x]][x].copies <= owed'[x]
      <4>1. CASE x = k
        BY <1>3, <2>7, <2>8, <3>1, <3>2, <4>1
      <4>2. CASE x # k
        BY <1>3, <2>6, <3>1, <3>2, <4>2
      <4> QED BY <4>1, <4>2
    <3> QED BY <3>2 DEF NoPhantomKey, Found
  <2>10. TidyIsExact'
    <3> SUFFICES ASSUME tidy'
                 PROVE  /\ \A b \in Buckets : WellLinked(table'[b])
                        /\ \A x \in Keys : owed'[x] = IF Found(table', x)
                                       THEN table'[hash[x]][x].copies ELSE 0
      BY DEF TidyIsExact, Found
    <3>1. tidy
      BY <1>1
    <3>2. /\ \A b \in Buckets : WellLinked(table[b])
          /\ \A x \in Keys :
                owed[x] = IF Found(table, x) THEN table[hash[x]][x].copies ELSE 0
      BY <1>1, <3>1 DEF LedgerInv, TidyIsExact
    <3>3. \A b \in Buckets : WellLinked(table'[b])
      BY <2>2, <2>3, <3>1, <3>2
    <3>4. ASSUME NEW x \in Keys
          PROVE  owed'[x] = IF Found(table', x) THEN table'[hash[x]][x].copies ELSE 0
      <4>1. CASE x = k
        <5>1. CASE Found(table', k)
          <6>1. owed[k] = c[k].copies
            BY <2>7, <3>2, <5>1
          <6> QED BY <1>3, <2>7, <2>8, <4>1, <5>1, <6>1
        <5>2. CASE ~Found(table', k) /\ Found(table, k)
          <6>1. c[k].copies = 1
            BY <2>2, <2>3, <2>8, <3>1, <5>2 DEF Found, hashing_retrieve
          <6> QED BY <1>3, <3>2, <4>1, <5>2, <6>1
        <5>3. CASE ~Found(table', k) /\ ~Found(table, k)
          BY <1>3, <3>2, <4>1, <5>3
        <5> QED BY <5>1, <5>2, <5>3
      <4>2. CASE x # k
        <5>1. Found(table, x) => Found(table', x)
          BY <1>4, <2>2, <2>3, <3>1, <4>2 DEF Found, hashing_retrieve
        <5> QED BY <1>3, <2>6, <3>2, <4>2, <5>1
      <4> QED BY <4>1, <4>2
    <3> QED BY <3>3, <3>4
  <2>11. PristineIsWhole'
    BY <1>1 DEF PristineIsWhole
  <2>12. TidyIsSafe'
    BY <2>3, TableIsReady DEF TidyIsSafe
  <2>13. LedgerInv'
    BY <2>4, <2>5, <2>9, <2>10, <2>11, <2>12 DEF LedgerInv
  <2>14. ASSUME NEW x \in Keys, Found(table, x), hash[x] # hash[k] \/ x > k
         PROVE  Found(table', x)
    <3>1. CASE hash[x] # hash[k]
      BY <1>4, <2>3, <2>14, <3>1 DEF Found, hashing_retrieve
    <3>2. CASE hash[x] = hash[k]
      BY <2>1, <2>3, <2>14, <3>2 DEF Found, hashing_retrieve, After
    <3> QED BY <3>1, <3>2
  <2> QED BY <2>13, <2>14
<1> QED
  BY <1>6, <1>7

-------------------------------------------------------------------------------
\* The theorems.

\* Every call keeps the invariant, and the calls that are no calls of the
\* table's leave it alone.
LEMMA LedgerInvInductive ==
    /\ LedgerInit => LedgerInv
    /\ LedgerInv /\ [LedgerNext]_vars => LedgerInv'
<1>1. LedgerInit => LedgerInv
  BY TableAssumption
  DEF LedgerInit, Init, LedgerInv, TypeOK, TableTypeOK, Ready, PointersBack,
      TidyIsExact, PristineIsWhole, NoPhantomKey, TidyIsSafe
<1>2. ASSUME LedgerInv, [LedgerNext]_vars PROVE LedgerInv'
  <2>1. CASE NewTable
    BY <1>2, <2>1, EmptyTableIsTable, OpenedStep DEF NewTable, Create, LedgerInv
  <2>2. CASE LoadTable
    <3>1. hashfile = NoFile \/ IsHashFile(hashfile)
      BY <1>2 DEF LedgerInv, TypeOK, TableTypeOK
    <3>2. table' = Loaded(hashfile) /\ UNCHANGED hashfile /\ Opened /\ TypeOK
      BY <1>2, <2>2 DEF LoadTable, Load, LedgerInv
    <3> QED BY <3>1, <3>2, LoadedIsTable, OpenedStep
  <2>3. CASE \E k \in Keys : InsertKey(k)
    BY <1>2, <2>3, InsertStep
  <2>4. CASE \E k \in Keys : DeleteKey(k)
    BY <1>2, <2>4, DeleteStep
  <2>5. CASE SaveTable
    <3>1. /\ UNCHANGED <<table, owed, pristine, tidy>>
          /\ hashfile' = Saved(table)
          /\ Ready
      BY <2>5 DEF SaveTable, Save
    <3>2. IsHashFile(hashfile')
      BY <1>2, <3>1, ReadyTable, SavedIsHashFile DEF LedgerInv
    <3>3. TypeOK'
      BY <1>2, <3>1, <3>2 DEF LedgerInv, TypeOK, TableTypeOK
    <3> QED
      BY <1>2, <3>1, <3>3
      DEF LedgerInv, PointersBack, TidyIsExact, PristineIsWhole, NoPhantomKey,
          TidyIsSafe, Ready
  <2>6. CASE DropTable
    <3>1. table' = NoTable /\ UNCHANGED <<hashfile, owed, pristine, tidy>>
      BY <2>6 DEF DropTable, Terminate
    <3>2. TypeOK'
      BY <1>2, <3>1 DEF LedgerInv, TypeOK, TableTypeOK
    <3> QED
      BY <1>2, <3>1, <3>2, TableAssumption
      DEF LedgerInv, PointersBack, TidyIsExact, PristineIsWhole, NoPhantomKey,
          TidyIsSafe, Ready
  <2>7. CASE UNCHANGED vars
    BY <1>2, <2>7
    DEF LedgerInv, TypeOK, TableTypeOK, PointersBack, TidyIsExact, PristineIsWhole,
        NoPhantomKey, TidyIsSafe, Ready, vars
  <2> QED
    BY <1>2, <2>1, <2>2, <2>3, <2>4, <2>5, <2>6, <2>7 DEF LedgerNext
<1> QED
  BY <1>1, <1>2

\* The inductive invariant holds in every reachable state.
THEOREM LedgerInvariant == LedgerSpec => []LedgerInv
BY LedgerInvInductive, PTL DEF LedgerSpec

\* Tables hold chains of keys that hash to their bucket, and hash files what
\* hashing_save can write.
THEOREM TypeCorrect == LedgerSpec => []TypeOK
<1>1. LedgerInv => TypeOK
  BY DEF LedgerInv
<1> QED
  BY <1>1, LedgerInvariant, PTL

\* hashing_delete never leaves a node behind that should be gone.
THEOREM NoPhantom == LedgerSpec => []NoPhantomKey
<1>1. LedgerInv => NoPhantomKey
  BY DEF LedgerInv
<1> QED
  BY <1>1, LedgerInvariant, PTL

\* Without deletions, or without insertions in front of others, no key is
\* forgotten.
THEOREM NoneForgotten == LedgerSpec => []NothingForgotten
<1>1. LedgerInv => NothingForgotten
  <2> SUFFICES ASSUME LedgerInv, Ready, pristine \/ tidy, NEW k \in Keys, owed[k] > 0
               PROVE  Found(table, k)
    BY DEF NothingForgotten
  <2> QED BY DEF LedgerInv, PristineIsWhole, TidyIsExact
<1> QED
  BY <1>1, LedgerInvariant, PTL

\* Without insertions in front of others no deletion follows a stale pointer.
THEOREM TidySafe == LedgerSpec => []TidyIsSafe
<1>1. LedgerInv => TidyIsSafe
  BY DEF LedgerInv
<1> QED
  BY <1>1, LedgerInvariant, PTL

\* The node in front never has a predecessor.
THEOREM FirstInFront == LedgerSpec => []FirstHasNoPrevious
<1>1. LedgerInv => FirstHasNoPrevious
  BY DEF LedgerInv, FirstHasNoPrevious, PointersBack, LinksBack
<1> QED
  BY <1>1, LedgerInvariant, PTL

\* A deletion unlinks keys of its own bucket only, and none behind its own.
THEOREM LossInFront == LedgerSpec => LossIsInFront
<1>1. LedgerInv /\ [LedgerNext]_vars =>
        [\A k \in Keys : DeleteKey(k) /\ table' # Wild =>
            \A x \in Keys : Found(table, x) /\ (hash[x] # hash[k] \/ x > k)
                               => Found(table', x)]_vars
  BY DeleteStep
<1> QED
  BY <1>1, LedgerInvariant, PTL DEF LedgerSpec, LossIsInFront

===============================================================================
