---------------------------- MODULE CatalogueProofs ----------------------------
(***************************************************************************)
(* The safety properties of Catalogue, for every set of names, every order  *)
(* of them, any number of versions and sessions, and every interruption.    *)
(***************************************************************************)
EXTENDS Catalogue, SequenceTheorems, WellFoundedInduction, TLAPS

\* The handles in the list, whatever their order; the relations that have one, and
\* those that have no more than one.
Handles(l)   == {l[i] : i \in DOMAIN l}
Listed(l, n) == \E h \in Handles(l) : h.name = n
Once(l, n)   == \A i, j \in DOMAIN l : l[i].name = n /\ l[j].name = n => i = j

\* The names that leaprel or its table has a row of.
Mentioned(d) == NamesIn(d.rows \cup Known(d))

\* What a session does between two commands, and in the steps of one.
Making   == {"row", "link", "attributes", "header"}
Removing == {"rows", "file", "hash"}
Moving   == {"moving", "renaming", "retitling"}
Active   == op.at \notin {"closed", "opening", "saving", "disposing"}

\* No interruption, and no relation that was made anew over the files of another.
Quiet == Faults = {} /\ "reuse" \notin mishaps

\* leaprel: a table that was changed has been read, and the row in the first slot is of a
\* relation that was not finished.
DictionaryOK(d) == /\ IsDictionary(d)
                   /\ d.changed => d.read
                   /\ \A r \in d.front : r.attributes = 0

\* TypeOK, with a sequence for the list.
CatalogueType ==
    /\ list \in Seq(Handle)
    /\ \A h \in Handles(list) : h.updated => h.table \in Versions
    /\ TypeOK
    /\ DictionaryOK(leaprel)

\* What the operation in progress has done of its work.
OpOK ==
    /\ op.at \in {"closed", "opening", "idle", "saving", "disposing"} => op.rel = NoName
    /\ op.at \in Making \cup Removing \cup Moving \cup {"changing"} => op.rel \in Names
    /\ op.at \in {"row", "link"} =>
          ~Listed(list, op.rel) /\ files[op.rel] # NoFile /\ files[op.rel].stage = "empty"
    /\ op.at \in {"attributes", "header"} =>
          /\ Listed(list, op.rel) /\ files[op.rel] # NoFile
          /\ files[op.rel].stage = IF op.at = "attributes" THEN "header" ELSE "blank"
          /\ \A h \in Handles(list) : h.name = op.rel => h.table \in Versions
    /\ op.at \in Removing /\ op.rel \notin renamed => ~Listed(list, op.rel)
    /\ op.at = "renaming" => /\ {op.rel, op.to} \subseteq renamed \cap Names
                             /\ Listed(list, op.rel)

\* The relation that rl_compact compacts, and its copy.
CompactOK ==
    /\ op.at \in {"moving", "retitling"} => op.compact
    /\ op.compact =>
          /\ {op.rel, op.to} \subseteq Names /\ Temp \in {op.rel, op.to} /\ op.rel # op.to
          /\ op.at \in Making =>
                /\ op.rel = Temp /\ Listed(list, op.to)
                /\ files[op.to] # NoFile
          /\ op.at \in Removing =>
                /\ op.to = Temp /\ Listed(list, Temp) /\ files[Temp] # NoFile
          /\ op.at = "moving" => op.rel = Temp /\ Listed(list, Temp) /\ files[Temp] # NoFile
          /\ op.at = "renaming" => files[op.to] # NoFile
          /\ op.at = "retitling" =>
                /\ {op.rel, op.to} \subseteq renamed
                /\ Listed(list, op.to) /\ files[op.to] # NoFile

\* The rows of a relation in leaprel: its row says how many attributes it has once it
\* is whole; a relation has a row, as far as the table knows; a row has a relation.
RowsOK(n) ==
    /\ Whole(n) => \A r \in leaprel.rows : r.name = n => r.attributes = 1
    /\ Active =>
          /\ Listed(list, n) /\ Whole(n) => n \in Mentioned(leaprel)
          /\ op.rel = n /\ op.at \in {"link", "attributes", "header"} =>
                n \in Mentioned(leaprel)
          /\ n \in NamesIn(leaprel.rows) =>
                Listed(list, n) \/ (op.rel = n /\ op.at \in {"link", "rows"})

\* Its file: a relation in the list has one.
FilesOK(n) ==
    /\ Listed(list, n) /\ op.at # "disposing" => files[n] # NoFile
    /\ Faults = {} /\ files[n] # NoFile /\ files[n].stage = "empty" =>
          op.rel = n /\ op.at \in {"row", "link"}

\* Its status: file and handle agree, and a temporary file is being made or removed, or
\* has a handle that the closing walk has still to come to.
StatusOK(n) ==
    Faults = {} =>
        /\ op.at # "disposing" =>
              \A h \in Handles(list) : h.name = n => h.temp = Flag(files[n].temp)
        /\ files[n] # NoFile /\ files[n].temp =>
              \/ op.rel = n /\ op.at \in {"row", "link", "rows", "file"}
              \/ op.at # "disposing" /\ \E h \in Handles(list) : h.name = n /\ h.temp = 1
              \/ op.at = "disposing" /\ \E i \in DOMAIN list : /\ walk <= i
                                                               /\ list[i].name = n
                                                               /\ list[i].temp = 1

\* The table of a relation is still to be saved, or its hash file to be removed: in the
\* end, by the closing walk.
Awaited(n) ==
    \/ /\ op.at \notin {"saving", "disposing"}
       /\ \E h \in Handles(list) : h.name = n /\ h.updated
    \/ /\ op.at = "saving"
       /\ \E i \in DOMAIN list : /\ list[i].name = n /\ list[i].updated
                                 /\ list[i].temp = 0 => walk <= i
    \/ /\ op.at = "disposing"
       /\ \E i \in DOMAIN list : /\ list[i].name = n /\ list[i].updated
                                 /\ list[i].temp = 1 /\ walk <= i

\* Its table and its hash file: both are of the tuples in the file, or the hash file
\* will be written or removed before the session ends.
HashOK(n) ==
    Quiet =>
        /\ op.at # "disposing" =>
              \A h \in Handles(list) : h.name = n =>
                  \/ h.table = files[n].version
                  \/ /\ h.table = NoTable /\ ~h.updated
                     /\ hashes[n] # NoFile /\ hashes[n] = files[n].version
        /\ hashes[n] # NoFile =>
              \/ op.rel = n /\ op.at \in Removing
              \/ files[n] # NoFile /\ (hashes[n] = files[n].version \/ Awaited(n))
        /\ op.rel = n /\ op.at \in Making => hashes[n] = NoFile

\* All of these, of a relation that has the name it was made with.
NameOK(n) == Once(list, n) /\ RowsOK(n) /\ FilesOK(n) /\ StatusOK(n) /\ HashOK(n)

NamesOK == \A n \in Names \ renamed : NameOK(n)

\* While leaprel is read, its rows are those of the relations that were opened, and of
\* those that are still to be.
OpeningOK ==
    op.at = "opening" =>
        /\ NamesIn(leaprel.rows) = ListNames \cup pending
        /\ \A n \in ListNames : files[n] # NoFile
        /\ \A h \in Handles(list) : h.name \notin pending /\ ~h.updated

\* What the last session left is there until the next one has read it.
KeptOK ==
    op.at \in {"saving", "disposing", "closed", "opening"} =>
        \A n \in kept.named \ renamed :
            /\ n \in NamesIn(leaprel.rows) /\ files[n] # NoFile
            /\ op.at \in {"saving", "disposing"} =>
                  \A h \in Handles(list) : h.name = n => h.temp = 0

\* A file with a header and no attributes is in the hands of an operation.
WreckOK ==
    mishaps \cap {"crash", "signal", "wreck"} = {} =>
        \A n \in Names : files[n] # NoFile /\ files[n].stage = "header" =>
            op.rel = n /\ op.at \in {"attributes", "rows", "file"}

ClosedOK == op.at = "closed" => list = <<>>

CatalogueInv == /\ CatalogueType
                /\ OpOK
                /\ CompactOK
                /\ NamesOK
                /\ OpeningOK
                /\ KeptOK
                /\ WreckOK
                /\ ClosedOK

-------------------------------------------------------------------------------
\* Lists.

\* A set of natural numbers has a smallest element.
LEMMA SmallestOf ==
    ASSUME NEW T \in SUBSET Nat, T # {}
    PROVE  \E n \in T : \A m \in T : n <= m
<1>1. PICK n \in T : \A m \in T : ~(<<m, n>> \in OpToRel(<, Nat))
  BY NatLessThanWellFounded, WFMin
<1>2. \A m \in T : ~(m < n)
  BY <1>1 DEF OpToRel
<1> QED
  BY <1>2

\* InsertAt moves what stands at a place and behind it.
LEMMA InsertedAt ==
    ASSUME NEW l \in Seq(Handle), NEW p \in 1 .. Len(l) + 1, NEW h \in Handle
    PROVE  /\ InsertAt(l, p, h) \in Seq(Handle)
           /\ DOMAIN InsertAt(l, p, h) = 1 .. Len(l) + 1
           /\ InsertAt(l, p, h)[p] = h
           /\ \A j \in 1 .. Len(l) : j < p => InsertAt(l, p, h)[j] = l[j]
           /\ \A j \in 1 .. Len(l) : p <= j => InsertAt(l, p, h)[j + 1] = l[j]
<1> DEFINE a == SubSeq(l, 1, p - 1)
           c == SubSeq(l, p, Len(l))
           b == a \o <<h>>
<1>1. /\ a \in Seq(Handle) /\ Len(a) = p - 1
      /\ \A i \in 1 .. p - 1 : a[i] = l[i]
  <2>1. \A i \in 1 .. p - 1 : l[i] \in Handle
    OBVIOUS
  <2> QED BY <2>1
<1>2. /\ c \in Seq(Handle) /\ Len(c) = Len(l) - p + 1
      /\ \A i \in 1 .. Len(l) - p + 1 : c[i] = l[p + i - 1]
  <2>1. \A i \in p .. Len(l) : l[i] \in Handle
    OBVIOUS
  <2> QED BY <2>1
<1>3. <<h>> \in Seq(Handle) /\ Len(<<h>>) = 1 /\ <<h>>[1] = h
  OBVIOUS
<1> HIDE DEF a, c
<1>4. /\ b \in Seq(Handle) /\ Len(b) = p
      /\ \A i \in 1 .. p : b[i] = IF i <= p - 1 THEN a[i] ELSE <<h>>[i - (p - 1)]
  BY <1>1, <1>3, ConcatProperties
<1>5. b[p] = h /\ \A i \in 1 .. p - 1 : b[i] = l[i]
  BY <1>1, <1>3, <1>4
<1> HIDE DEF b
<1>6. /\ b \o c \in Seq(Handle) /\ Len(b \o c) = Len(l) + 1
      /\ \A i \in 1 .. Len(l) + 1 : (b \o c)[i] = IF i <= p THEN b[i] ELSE c[i - p]
  <2>1. /\ b \o c \in Seq(Handle) /\ Len(b \o c) = Len(b) + Len(c)
        /\ \A i \in 1 .. Len(b) + Len(c) :
              (b \o c)[i] = IF i <= Len(b) THEN b[i] ELSE c[i - Len(b)]
    BY <1>2, <1>4, ConcatProperties
  <2>2. Len(b) = p /\ Len(b) + Len(c) = Len(l) + 1
    BY <1>2, <1>4
  <2> QED BY <2>1, <2>2
<1>7. InsertAt(l, p, h) = b \o c
  BY DEF InsertAt, a, b, c
<1>8. DOMAIN (b \o c) = 1 .. Len(l) + 1
  BY <1>6
<1>9. \A j \in 1 .. Len(l) : j < p => (b \o c)[j] = l[j]
  BY <1>5, <1>6
<1>10. \A j \in 1 .. Len(l) : p <= j => (b \o c)[j + 1] = l[j]
  <2> SUFFICES ASSUME NEW j \in 1 .. Len(l), p <= j
               PROVE  (b \o c)[j + 1] = l[j]
    OBVIOUS
  <2>1. (b \o c)[j + 1] = c[j + 1 - p]
    BY <1>6
  <2>2. j + 1 - p \in 1 .. Len(l) - p + 1 /\ p + (j + 1 - p) - 1 = j
    OBVIOUS
  <2> QED BY <1>2, <2>1, <2>2
<1> QED
  BY <1>5, <1>6, <1>7, <1>8, <1>9, <1>10

\* RemoveAt moves what stands behind a place.
LEMMA RemovedAt ==
    ASSUME NEW l \in Seq(Handle), NEW p \in 1 .. Len(l)
    PROVE  /\ RemoveAt(l, p) \in Seq(Handle)
           /\ DOMAIN RemoveAt(l, p) = 1 .. Len(l) - 1
           /\ \A j \in 1 .. Len(l) - 1 :
                 RemoveAt(l, p)[j] = IF j < p THEN l[j] ELSE l[j + 1]
<1> DEFINE a == SubSeq(l, 1, p - 1)
           c == SubSeq(l, p + 1, Len(l))
<1>1. /\ a \in Seq(Handle) /\ Len(a) = p - 1
      /\ \A i \in 1 .. p - 1 : a[i] = l[i]
  <2>1. \A i \in 1 .. p - 1 : l[i] \in Handle
    OBVIOUS
  <2> QED BY <2>1
<1>2. /\ c \in Seq(Handle) /\ Len(c) = Len(l) - p
      /\ \A i \in 1 .. Len(l) - p : c[i] = l[p + i]
  <2>1. \A i \in p + 1 .. Len(l) : l[i] \in Handle
    OBVIOUS
  <2> QED BY <2>1
<1> HIDE DEF a, c
<1>3. /\ a \o c \in Seq(Handle) /\ Len(a \o c) = Len(l) - 1
      /\ \A i \in 1 .. Len(l) - 1 :
            (a \o c)[i] = IF i <= p - 1 THEN a[i] ELSE c[i - (p - 1)]
  <2>1. /\ a \o c \in Seq(Handle) /\ Len(a \o c) = Len(a) + Len(c)
        /\ \A i \in 1 .. Len(a) + Len(c) :
              (a \o c)[i] = IF i <= Len(a) THEN a[i] ELSE c[i - Len(a)]
    BY <1>1, <1>2, ConcatProperties
  <2>2. Len(a) = p - 1 /\ Len(a) + Len(c) = Len(l) - 1
    BY <1>1, <1>2
  <2> QED BY <2>1, <2>2
<1>4. RemoveAt(l, p) = a \o c
  BY DEF RemoveAt, a, c
<1>5. \A j \in 1 .. Len(l) - 1 : (a \o c)[j] = IF j < p THEN l[j] ELSE l[j + 1]
  <2> SUFFICES ASSUME NEW j \in 1 .. Len(l) - 1
               PROVE  (a \o c)[j] = IF j < p THEN l[j] ELSE l[j + 1]
    OBVIOUS
  <2>1. CASE j < p
    BY <1>1, <1>3, <2>1
  <2>2. CASE ~(j < p)
    <3>1. (a \o c)[j] = c[j - (p - 1)]
      BY <1>3, <2>2
    <3>2. j - (p - 1) \in 1 .. Len(l) - p /\ p + (j - (p - 1)) = j + 1
      BY <2>2
    <3> QED BY <1>2, <2>2, <3>1, <3>2
  <2> QED BY <2>1, <2>2
<1> QED
  BY <1>3, <1>4, <1>5

\* The place where a relation is put into a list.
LEMMA PlaceIsThere ==
    ASSUME NEW l \in Seq(Handle), NEW n
    PROVE  PlaceOf(l, n) \in 1 .. Len(l) + 1
<1> DEFINE later == {i \in DOMAIN l : Rank[l[i].name] >= Rank[n]}
<1>1. CASE later = {}
  BY <1>1 DEF PlaceOf
<1>2. CASE later # {}
  <2>1. later \in SUBSET Nat
    OBVIOUS
  <2>2. \E i \in later : \A j \in later : i <= j
    <3> HIDE DEF later
    <3> QED BY <1>2, <2>1, SmallestOf
  <2>3. (CHOOSE i \in later : \A j \in later : i <= j) \in later
    <3> HIDE DEF later
    <3> QED BY <2>2
  <2> QED BY <1>2, <2>3 DEF PlaceOf
<1> QED
  BY <1>1, <1>2

\* What is in a list that has one more relation.
LEMMA InsertedList ==
    ASSUME NEW l \in Seq(Handle), NEW h \in Handle
    PROVE  /\ relation_insert(l, h) \in Seq(Handle)
           /\ Handles(relation_insert(l, h)) = Handles(l) \cup {h}
           /\ \A n : n # h.name /\ Once(l, n) => Once(relation_insert(l, h), n)
           /\ ~Listed(l, h.name) => Once(relation_insert(l, h), h.name)
<1> DEFINE p == PlaceOf(l, h.name)
           u == relation_insert(l, h)
<1>1. p \in 1 .. Len(l) + 1 /\ u = InsertAt(l, p, h)
  BY PlaceIsThere DEF relation_insert
<1> HIDE DEF p
<1>2. /\ u \in Seq(Handle)
      /\ DOMAIN u = 1 .. Len(l) + 1
      /\ u[p] = h
      /\ \A j \in 1 .. Len(l) : j < p => u[j] = l[j]
      /\ \A j \in 1 .. Len(l) : p <= j => u[j + 1] = l[j]
  BY <1>1, InsertedAt
<1> HIDE DEF u
<1>3. DOMAIN l = 1 .. Len(l) /\ Len(l) \in Nat
  OBVIOUS
<1> DEFINE old(j) == IF j < p THEN j ELSE j - 1
<1>4. \A j \in DOMAIN u : j # p => old(j) \in DOMAIN l /\ u[j] = l[old(j)]
  <2> SUFFICES ASSUME NEW j \in 1 .. Len(l) + 1, j # p
               PROVE  old(j) \in 1 .. Len(l) /\ u[j] = l[old(j)]
    BY <1>2, <1>3
  <2>1. CASE j < p
    BY <1>1, <1>2, <1>3, <2>1
  <2>2. CASE j > p
    <3>1. j - 1 \in 1 .. Len(l) /\ p <= j - 1 /\ (j - 1) + 1 = j
      BY <1>1, <1>3, <2>2
    <3>2. u[(j - 1) + 1] = l[j - 1] /\ old(j) = j - 1
      BY <1>1, <1>2, <2>2, <3>1
    <3> QED BY <3>1, <3>2
  <2> QED BY <1>1, <1>3, <2>1, <2>2
<1>5. Handles(u) = Handles(l) \cup {h}
  <2>1. Handles(u) \subseteq Handles(l) \cup {h}
    BY <1>2, <1>4 DEF Handles
  <2>2. \A j \in DOMAIN l : l[j] \in Handles(u)
    <3> SUFFICES ASSUME NEW j \in 1 .. Len(l)
                 PROVE  \E i \in 1 .. Len(l) + 1 : u[i] = l[j]
      BY <1>2, <1>3 DEF Handles
    <3>1. CASE j < p
      BY <1>2, <1>3, <3>1
    <3>2. CASE p <= j
      BY <1>2, <1>3, <3>2
    <3> QED BY <1>1, <1>3, <3>1, <3>2
  <2>3. h \in Handles(u)
    BY <1>1, <1>2 DEF Handles
  <2> QED BY <2>1, <2>2, <2>3 DEF Handles
<1>6. ASSUME NEW n, n # h.name, Once(l, n)
      PROVE  Once(u, n)
  <2> SUFFICES ASSUME NEW i \in DOMAIN u, NEW j \in DOMAIN u, u[i].name = n, u[j].name = n
               PROVE  i = j
    BY DEF Once
  <2>1. i # p /\ j # p
    BY <1>2, <1>6
  <2>2. old(i) = old(j)
    BY <1>4, <1>6, <2>1 DEF Once
  <2> QED BY <1>1, <1>2, <1>3, <2>1, <2>2
<1>7. ASSUME ~Listed(l, h.name)
      PROVE  Once(u, h.name)
  <2>1. \A j \in DOMAIN u : j # p => u[j].name # h.name
    BY <1>4, <1>7 DEF Listed, Handles
  <2> QED BY <2>1 DEF Once
<1> QED
  BY <1>2, <1>5, <1>6, <1>7 DEF u

\* What is in a list that has one relation less.
LEMMA RemovedList ==
    ASSUME NEW l \in Seq(Handle), NEW p \in DOMAIN l
    PROVE  /\ RemoveAt(l, p) \in Seq(Handle)
           /\ Handles(RemoveAt(l, p)) \subseteq Handles(l)
           /\ \A h \in Handles(l) : h.name # l[p].name => h \in Handles(RemoveAt(l, p))
           /\ \A n : Once(l, n) => Once(RemoveAt(l, p), n)
           /\ Once(l, l[p].name) => ~Listed(RemoveAt(l, p), l[p].name)
<1> DEFINE u == RemoveAt(l, p)
           old(j) == IF j < p THEN j ELSE j + 1
<1>1. DOMAIN l = 1 .. Len(l) /\ Len(l) \in Nat
  OBVIOUS
<1>2. /\ u \in Seq(Handle) /\ DOMAIN u = 1 .. Len(l) - 1
      /\ \A j \in 1 .. Len(l) - 1 : u[j] = IF j < p THEN l[j] ELSE l[j + 1]
  BY <1>1, RemovedAt
<1> HIDE DEF u
<1>3. \A j \in DOMAIN u : old(j) \in DOMAIN l /\ old(j) # p /\ u[j] = l[old(j)]
  BY <1>1, <1>2
<1>4. \A h \in Handles(l) : h.name # l[p].name => h \in Handles(u)
  <2> SUFFICES ASSUME NEW j \in DOMAIN l, l[j].name # l[p].name
               PROVE  \E i \in DOMAIN u : u[i] = l[j]
    BY DEF Handles
  <2>1. CASE j < p
    <3>1. j \in DOMAIN u /\ u[j] = l[j]
      BY <1>1, <1>2, <2>1
    <3> QED BY <3>1
  <2>2. CASE p < j
    <3>1. j - 1 \in DOMAIN u /\ ~(j - 1 < p) /\ (j - 1) + 1 = j
      BY <1>1, <1>2, <2>2
    <3>2. u[j - 1] = l[j]
      BY <1>2, <3>1
    <3> QED BY <3>1, <3>2
  <2> QED BY <1>1, <2>1, <2>2
<1>5. ASSUME NEW n, Once(l, n) PROVE Once(u, n)
  <2> SUFFICES ASSUME NEW i \in DOMAIN u, NEW j \in DOMAIN u, u[i].name = n, u[j].name = n
               PROVE  i = j
    BY DEF Once
  <2>1. old(i) = old(j)
    BY <1>3, <1>5 DEF Once
  <2> QED BY <1>1, <1>2, <2>1
<1>6. ASSUME Once(l, l[p].name) PROVE ~Listed(u, l[p].name)
  BY <1>3, <1>6 DEF Once, Listed, Handles
<1>7. Handles(u) \subseteq Handles(l)
  BY <1>3 DEF Handles
<1> QED
  BY <1>2, <1>4, <1>5, <1>6, <1>7 DEF u

\* What is in a list in which the handle of one relation was changed, but not its name.
LEMMA ChangedList ==
    ASSUME NEW l \in Seq(Handle), NEW p \in DOMAIN l, NEW g \in Handle, g.name = l[p].name
    PROVE  /\ [l EXCEPT ![p] = g] \in Seq(Handle)
           /\ Handles([l EXCEPT ![p] = g]) \subseteq Handles(l) \cup {g}
           /\ g \in Handles([l EXCEPT ![p] = g])
           /\ \A h \in Handles(l) : h.name # g.name => h \in Handles([l EXCEPT ![p] = g])
           /\ \A n : Listed([l EXCEPT ![p] = g], n) <=> Listed(l, n)
           /\ \A n : Once(l, n) => Once([l EXCEPT ![p] = g], n)
           /\ Once(l, g.name) =>
                 \A h \in Handles([l EXCEPT ![p] = g]) : h.name = g.name => h = g
<1> DEFINE u == [l EXCEPT ![p] = g]
<1>1. /\ u \in Seq(Handle) /\ DOMAIN u = DOMAIN l /\ u[p] = g
      /\ \A j \in DOMAIN l : j # p => u[j] = l[j]
  OBVIOUS
<1> HIDE DEF u
<1>2. \A j \in DOMAIN l : u[j].name = l[j].name
  BY <1>1
<1>3. \A n : Once(l, n) => Once(u, n)
  BY <1>1, <1>2 DEF Once
<1>4. \A n : Listed(u, n) <=> Listed(l, n)
  BY <1>1, <1>2 DEF Listed, Handles
<1>5. Handles(u) \subseteq Handles(l) \cup {g} /\ g \in Handles(u)
  BY <1>1 DEF Handles
<1>6. \A h \in Handles(l) : h.name # g.name => h \in Handles(u)
  BY <1>1 DEF Handles
<1>7. Once(l, g.name) => \A h \in Handles(u) : h.name = g.name => h = g
  BY <1>1, <1>2 DEF Once, Handles
<1> QED
  BY <1>1, <1>3, <1>4, <1>5, <1>6, <1>7 DEF u

\* What is in a list in which the handle of one relation was given another name.
LEMMA RenamedList ==
    ASSUME NEW l \in Seq(Handle), NEW p \in DOMAIN l, NEW g \in Handle
    PROVE  /\ [l EXCEPT ![p] = g] \in Seq(Handle)
           /\ Handles([l EXCEPT ![p] = g]) \subseteq Handles(l) \cup {g}
           /\ g \in Handles([l EXCEPT ![p] = g])
           /\ \A h \in Handles(l) : h.name # l[p].name => h \in Handles([l EXCEPT ![p] = g])
           /\ \A n : n # g.name /\ Once(l, n) => Once([l EXCEPT ![p] = g], n)
<1> DEFINE u == [l EXCEPT ![p] = g]
<1>1. /\ u \in Seq(Handle) /\ DOMAIN u = DOMAIN l /\ u[p] = g
      /\ \A j \in DOMAIN l : j # p => u[j] = l[j]
  OBVIOUS
<1> HIDE DEF u
<1>2. ASSUME NEW n, n # g.name, Once(l, n) PROVE Once(u, n)
  <2>1. \A i \in DOMAIN u : u[i].name = n => i # p /\ l[i].name = n
    BY <1>1, <1>2
  <2> QED BY <1>1, <1>2, <2>1 DEF Once
<1>3. Handles(u) \subseteq Handles(l) \cup {g} /\ g \in Handles(u)
  BY <1>1 DEF Handles
<1>4. \A h \in Handles(l) : h.name # l[p].name => h \in Handles(u)
  BY <1>1 DEF Handles
<1> QED
  BY <1>1, <1>2, <1>3, <1>4 DEF u

\* relation_find finds what is in the list.
LEMMA FoundIsThere ==
    ASSUME list \in Seq(Handle), NEW n, Named(n) # {}
    PROVE  /\ Found(n) \in DOMAIN list /\ list[Found(n)].name = n
           /\ list[Found(n)] \in Handles(list) /\ list[Found(n)] \in Handle
<1>1. Named(n) \in SUBSET Nat
  BY DEF Named
<1>2. Found(n) \in Named(n)
  BY <1>1, SmallestOf DEF Found
<1> QED
  BY <1>2 DEF Named, Handles

\* A relation is in the list if it is found there.
LEMMA ListedIsNamed ==
    ASSUME NEW n PROVE Listed(list, n) <=> Named(n) # {}
BY DEF Listed, Handles, Named

-------------------------------------------------------------------------------
\* leaprel.

\* A row that is added loses no row of a relation that was finished.
LEMMA AddedRow ==
    ASSUME NEW d, DictionaryOK(d), NEW r \in Row, r.attributes = 0
    PROVE  /\ DictionaryOK(Added(d, r))
           /\ Added(d, r).rows \subseteq d.rows \cup {r}
           /\ \A x \in d.rows : x.attributes = 1 => x \in Added(d, r).rows
           /\ Known(d) \subseteq Known(Added(d, r)) /\ r \in Known(Added(d, r))
<1> DEFINE u == Added(d, r)
           new == r \notin Known(d)
<1>1. /\ DOMAIN u = DOMAIN d
      /\ u.rows = IF new THEN (d.rows \ Covered(d)) \cup {r} ELSE d.rows
      /\ u.front = IF new /\ d.gap THEN {r} ELSE d.front
      /\ u.gap = FALSE /\ u.read = TRUE /\ u.table = Known(d) \cup {r}
      /\ u.saved = d.saved /\ u.changed = TRUE
  BY DEF Added, DictionaryOK, IsDictionary
<1>2. Known(d) \subseteq Row
  BY DEF DictionaryOK, IsDictionary, Known
<1>3. \A x \in Covered(d) : x.attributes = 0
  BY DEF DictionaryOK, Covered
<1> HIDE DEF u
<1>4. u.front \subseteq u.rows /\ u.rows \subseteq Row
  <2>1. CASE new /\ d.gap
    BY <1>1, <2>1 DEF DictionaryOK, IsDictionary
  <2>2. CASE ~(new /\ d.gap)
    BY <1>1, <2>2 DEF DictionaryOK, IsDictionary, Covered
  <2> QED BY <2>1, <2>2
<1>5. IsDictionary(u)
  <2>1. u.gap \in BOOLEAN /\ u.read \in BOOLEAN /\ u.changed \in BOOLEAN
    BY <1>1
  <2>2. u.table \subseteq Row /\ u.saved \subseteq Row
    BY <1>1, <1>2 DEF DictionaryOK, IsDictionary
  <2> QED BY <1>1, <1>4, <2>1, <2>2 DEF DictionaryOK, IsDictionary
<1>6. u.changed => u.read
  BY <1>1
<1>7. \A x \in u.front : x.attributes = 0
  BY <1>1 DEF DictionaryOK
<1>8. u.rows \subseteq d.rows \cup {r} /\ \A x \in d.rows : x.attributes = 1 => x \in u.rows
  BY <1>1, <1>3
<1>9. Known(u) = Known(d) \cup {r}
  BY <1>1 DEF Known
<1> QED
  BY <1>5, <1>6, <1>7, <1>8, <1>9 DEF u, DictionaryOK

\* Rows that are deleted are gone from file and table, and no others.
LEMMA ErasedRows ==
    ASSUME NEW d, DictionaryOK(d), NEW R \in SUBSET d.rows
    PROVE  /\ DictionaryOK(Erased(d, R))
           /\ Erased(d, R).rows = d.rows \ R
           /\ Known(Erased(d, R)) = Known(d) \ R
<1>1. CASE R = {}
  BY <1>1 DEF Erased
<1>2. CASE R # {}
  <2> DEFINE u == Erased(d, R)
  <2>1. /\ DOMAIN u = DOMAIN d
        /\ u.rows = d.rows \ R /\ u.front = d.front \ R
        /\ u.gap = TRUE /\ u.read = TRUE /\ u.table = Known(d) \ R
        /\ u.saved = d.saved /\ u.changed = TRUE
    BY <1>2 DEF Erased, DictionaryOK, IsDictionary
  <2>2. Known(d) \subseteq Row
    BY DEF DictionaryOK, IsDictionary, Known
  <2> HIDE DEF u
  <2>3. IsDictionary(u)
    <3>1. u.gap \in BOOLEAN /\ u.read \in BOOLEAN /\ u.changed \in BOOLEAN
      BY <2>1
    <3>2. /\ u.table \subseteq Row /\ u.saved \subseteq Row /\ u.rows \subseteq Row
          /\ u.front \subseteq u.rows
      BY <2>1, <2>2 DEF DictionaryOK, IsDictionary
    <3> QED BY <2>1, <3>1, <3>2 DEF DictionaryOK, IsDictionary
  <2>4. (u.changed => u.read) /\ \A x \in u.front : x.attributes = 0
    BY <2>1 DEF DictionaryOK
  <2>5. Known(u) = Known(d) \ R
    BY <2>1 DEF Known
  <2> QED BY <2>1, <2>3, <2>4, <2>5 DEF u, DictionaryOK
<1> QED
  BY <1>1, <1>2

\* A change of rows that keeps their names, and forgets no attribute.
RowChange(to) == /\ to \in [Row -> Row]
                 /\ \A r \in Row : to[r].name = r.name /\ r.attributes <= to[r].attributes

\* Each row of c comes from one of d: no name is new, and no attribute is forgotten.
RowsFrom(c, d) == \A y \in c.rows :
                      \E x \in d.rows : x.name = y.name /\ (x.attributes = 1 => y.attributes = 1)

\* A row of c is one of d that is not in R, or what a row in R was made.
RowsBecome(c, d, R, to) == \A y \in c.rows : y \in d.rows \ R \/ \E x \in R : y = to[x]

\* A name has kept a row, or the table of d has a row of it that the file has not.
NamesStay(d, c) == \A x \in d.rows : \/ x.name \in NamesIn(c.rows)
                                     \/ x.name \in NamesIn(Phantoms(d))

\* What an update that changes no names makes of the rows.  A relation can only lose its
\* row to a row of the table that is not in the file.
LEMMA UpdatedRows ==
    ASSUME NEW d, DictionaryOK(d), NEW R \in SUBSET d.rows,
           NEW to, RowChange(to)
    PROVE  /\ DictionaryOK(Updated(d, R, to))
           /\ RowsBecome(Updated(d, R, to), d, R, to)
           /\ NamesStay(d, Updated(d, R, to))
           /\ Mentioned(d) \subseteq Mentioned(Updated(d, R, to))
<1>1. CASE R = {}
  BY <1>1 DEF Updated, NamesIn, RowsBecome, NamesStay
<1>2. CASE R # {}
  <2> DEFINE u == Updated(d, R, to)
             others == Known(d) \ R
             new == {to[r] : r \in R}
  <2>1. /\ DOMAIN u = DOMAIN d
        /\ u.rows = (d.rows \ R) \cup (new \ others) /\ u.front = d.front \ R
        /\ u.gap = TRUE /\ u.read = TRUE /\ u.table = others \cup new
        /\ u.saved = d.saved /\ u.changed = TRUE
    BY <1>2 DEF Updated, DictionaryOK, IsDictionary
  <2>2. Known(d) \subseteq Row /\ R \subseteq Row /\ new \subseteq Row
    BY DEF DictionaryOK, IsDictionary, Known, RowChange
  <2> HIDE DEF u
  <2>3. IsDictionary(u)
    <3>1. u.gap \in BOOLEAN /\ u.read \in BOOLEAN /\ u.changed \in BOOLEAN
      BY <2>1
    <3>2. /\ u.table \subseteq Row /\ u.saved \subseteq Row /\ u.rows \subseteq Row
          /\ u.front \subseteq u.rows
      BY <2>1, <2>2 DEF DictionaryOK, IsDictionary
    <3> QED BY <2>1, <3>1, <3>2 DEF DictionaryOK, IsDictionary
  <2>4. (u.changed => u.read) /\ \A x \in u.front : x.attributes = 0
    BY <2>1 DEF DictionaryOK
  <2>5. \A y \in u.rows : y \in d.rows \ R \/ \E x \in R : y = to[x]
    BY <2>1
  <2>6. Known(u) = others \cup new
    BY <2>1 DEF Known
  <2>7. \A x \in R : to[x].name = x.name
    BY <2>2 DEF RowChange
  <2>8. ASSUME NEW x \in d.rows
        PROVE  x.name \in NamesIn(u.rows) \/ x.name \in NamesIn(Phantoms(d))
    <3>1. CASE x \notin R
      BY <2>1, <3>1 DEF NamesIn
    <3>2. CASE x \in R /\ to[x] \notin others
      BY <2>1, <2>7, <3>2 DEF NamesIn
    <3>3. CASE x \in R /\ to[x] \in others
      <4>1. to[x] \in d.rows => to[x] \in u.rows
        BY <2>1, <3>3
      <4>2. to[x] \notin d.rows => to[x] \in Phantoms(d)
        BY <3>3 DEF Phantoms
      <4> QED BY <2>7, <3>3, <4>1, <4>2 DEF NamesIn
    <3> QED BY <3>1, <3>2, <3>3
  <2>9. ASSUME NEW x \in d.rows \cup Known(d)
        PROVE  x.name \in Mentioned(u)
    <3>1. CASE x \notin R
      BY <2>1, <2>6, <3>1 DEF Mentioned, NamesIn
    <3>2. CASE x \in R
      <4>1. to[x] \in Known(u) /\ to[x].name = x.name
        BY <2>6, <2>7, <3>2
      <4> QED BY <4>1 DEF Mentioned, NamesIn
    <3> QED BY <3>1, <3>2
  <2>10. Mentioned(d) \subseteq Mentioned(u)
    BY <2>9 DEF Mentioned, NamesIn
  <2>11. DictionaryOK(u)
    BY <2>3, <2>4 DEF DictionaryOK
  <2>12. RowsBecome(u, d, R, to) /\ NamesStay(d, u)
    BY <2>5, <2>8 DEF RowsBecome, NamesStay
  <2> QED BY <2>10, <2>11, <2>12 DEF u
<1> QED
  BY <1>1, <1>2

\* Adding rows to leapattributes changes no row of leaprel.
LEMMA TouchedRows ==
    ASSUME NEW d, DictionaryOK(d)
    PROVE  /\ DictionaryOK(Touched(d))
           /\ Touched(d).rows = d.rows /\ Known(Touched(d)) = Known(d)
<1> DEFINE u == Touched(d)
<1>1. /\ DOMAIN u = DOMAIN d
      /\ u.rows = d.rows /\ u.front = d.front
      /\ u.gap = TRUE /\ u.read = TRUE /\ u.table = Known(d)
      /\ u.saved = d.saved /\ u.changed = TRUE
  BY DEF Touched, DictionaryOK, IsDictionary
<1>2. Known(d) \subseteq Row
  BY DEF DictionaryOK, IsDictionary, Known
<1> HIDE DEF u
<1>3. IsDictionary(u)
  <2>1. u.gap \in BOOLEAN /\ u.read \in BOOLEAN /\ u.changed \in BOOLEAN
    BY <1>1
  <2>2. u.table \subseteq Row
    BY <1>1, <1>2
  <2> QED BY <1>1, <2>1, <2>2 DEF DictionaryOK, IsDictionary
<1>4. (u.changed => u.read) /\ \A x \in u.front : x.attributes = 0
  BY <1>1 DEF DictionaryOK
<1>5. Known(u) = Known(d)
  BY <1>1 DEF Known
<1> QED
  BY <1>1, <1>3, <1>4, <1>5 DEF u, DictionaryOK

\* Saving, unloading and reading leaprel's table changes no row.
LEMMA StoredRows ==
    ASSUME NEW d, DictionaryOK(d), NEW garbage \in BOOLEAN
    PROVE  /\ DictionaryOK(SavedIfChanged(d)) /\ SavedIfChanged(d).rows = d.rows
           /\ DictionaryOK(Unloaded(d)) /\ Unloaded(d).rows = d.rows
           /\ DictionaryOK(Reloaded(d, garbage)) /\ Reloaded(d, garbage).rows = d.rows
<1> DEFINE s == SavedIfChanged(d)
           u == Unloaded(d)
           v == Reloaded(d, garbage)
<1>1. /\ DOMAIN s = DOMAIN d /\ s.rows = d.rows /\ s.front = d.front /\ s.gap = d.gap
      /\ s.read = d.read /\ s.table = d.table /\ s.changed = d.changed
      /\ s.saved = IF d.changed THEN d.table ELSE d.saved
  BY DEF SavedIfChanged, DictionaryOK, IsDictionary
<1>2. /\ DOMAIN u = DOMAIN d /\ u.rows = d.rows /\ u.front = d.front /\ u.gap = d.gap
      /\ u.read = FALSE /\ u.table = {} /\ u.changed = FALSE /\ u.saved = d.saved
  BY DEF Unloaded, DictionaryOK, IsDictionary
<1>3. /\ DOMAIN v = DOMAIN d /\ v.rows = d.rows /\ v.front = d.front /\ v.gap = garbage
      /\ v.read = FALSE /\ v.table = {} /\ v.changed = FALSE /\ v.saved = d.saved
  BY <1>2 DEF Reloaded, DictionaryOK, IsDictionary
<1> HIDE DEF s, u, v
<1>4. DictionaryOK(s)
  <2>1. s.saved \subseteq Row
    BY <1>1 DEF DictionaryOK, IsDictionary
  <2> QED BY <1>1, <2>1 DEF DictionaryOK, IsDictionary
<1>5. DictionaryOK(u)
  <2>1. u.read \in BOOLEAN /\ u.changed \in BOOLEAN
    BY <1>2
  <2>2. (u.changed => u.read) /\ u.table \subseteq Row
    BY <1>2
  <2> QED BY <1>2, <2>1, <2>2 DEF DictionaryOK, IsDictionary
<1>6. DictionaryOK(v)
  <2>1. v.read \in BOOLEAN /\ v.changed \in BOOLEAN /\ v.gap \in BOOLEAN
    BY <1>3
  <2>2. (v.changed => v.read) /\ v.table \subseteq Row
    BY <1>3
  <2> QED BY <1>3, <2>1, <2>2 DEF DictionaryOK, IsDictionary
<1> QED
  BY <1>1, <1>2, <1>3, <1>4, <1>5, <1>6 DEF s, u, v

\* The process ends, and with it rows that are on their way.
LEMMA LostRows ==
    ASSUME NEW d, DictionaryOK(d), NEW R
    PROVE  LET u == Unloaded([d EXCEPT !.rows = @ \ R, !.front = @ \ R])
           IN  DictionaryOK(u) /\ u.rows = d.rows \ R
<1> DEFINE e == [d EXCEPT !.rows = @ \ R, !.front = @ \ R]
<1>1. /\ DOMAIN e = DOMAIN d /\ e.rows = d.rows \ R /\ e.front = d.front \ R /\ e.gap = d.gap
      /\ e.read = d.read /\ e.table = d.table /\ e.changed = d.changed /\ e.saved = d.saved
  BY DEF DictionaryOK, IsDictionary
<1> HIDE DEF e
<1>2. DictionaryOK(e)
  <2>1. e.rows \subseteq Row /\ e.front \subseteq e.rows
    BY <1>1 DEF DictionaryOK, IsDictionary
  <2> QED BY <1>1, <2>1 DEF DictionaryOK, IsDictionary
<1> QED
  BY <1>1, <1>2, StoredRows DEF e

-------------------------------------------------------------------------------
\* Rows, and operations.

\* The changes that are made to rows are such changes.
LEMMA RowChanges ==
    /\ RowChange(Described)
    /\ \A r \in Row : Described[r].attributes = 1
    /\ \A b \in BOOLEAN : /\ RowChange([r \in Row |-> [r EXCEPT !.temp = b]])
                          /\ RowChange([r \in Row |-> [r EXCEPT !.updated = b]])
<1>1. ASSUME NEW r \in Row
      PROVE  /\ [r EXCEPT !.attributes = 1] \in Row
             /\ [r EXCEPT !.attributes = 1].name = r.name
             /\ [r EXCEPT !.attributes = 1].attributes = 1
             /\ r.attributes <= 1
  BY DEF Row
<1>2. ASSUME NEW r \in Row, NEW b \in BOOLEAN
      PROVE  /\ [r EXCEPT !.temp = b] \in Row
             /\ [r EXCEPT !.temp = b].name = r.name
             /\ [r EXCEPT !.temp = b].attributes = r.attributes
             /\ [r EXCEPT !.updated = b] \in Row
             /\ [r EXCEPT !.updated = b].name = r.name
             /\ [r EXCEPT !.updated = b].attributes = r.attributes
             /\ r.attributes <= r.attributes
  BY DEF Row
<1>3. RowChange(Described) /\ \A r \in Row : Described[r].attributes = 1
  BY <1>1 DEF Described, RowChange
<1>4. ASSUME NEW b \in BOOLEAN
      PROVE  /\ RowChange([r \in Row |-> [r EXCEPT !.temp = b]])
             /\ RowChange([r \in Row |-> [r EXCEPT !.updated = b]])
  BY <1>2 DEF RowChange
<1> QED
  BY <1>3, <1>4

OpType == [at : Phases, rel : Names \cup {NoName}, to : Names \cup {NoName},
           temp : BOOLEAN, compact : BOOLEAN]

\* The fields of an operation that goes on.
LEMMA OnwardFields ==
    ASSUME NEW o \in OpType, NEW at \in Phases
    PROVE  /\ [o EXCEPT !.at = at] \in OpType
           /\ [o EXCEPT !.at = at].at = at
           /\ [o EXCEPT !.at = at].rel = o.rel /\ [o EXCEPT !.at = at].to = o.to
           /\ [o EXCEPT !.at = at].temp = o.temp /\ [o EXCEPT !.at = at].compact = o.compact
BY DEF OpType

\* The fields of an operation that begins, and of none.
LEMMA DoingFields ==
    ASSUME NEW at \in Phases, NEW n \in Names \cup {NoName}
    PROVE  /\ Doing(at, n) \in OpType
           /\ Doing(at, n).at = at /\ Doing(at, n).rel = n /\ Doing(at, n).to = NoName
           /\ Doing(at, n).temp = FALSE /\ Doing(at, n).compact = FALSE
BY DEF Doing, OpType

\* The operation in hand has these fields.
LEMMA OpFields ==
    ASSUME TypeOK
    PROVE  /\ op \in OpType
           /\ op.at \in Phases /\ op.rel \in Names \cup {NoName}
           /\ op.to \in Names \cup {NoName} /\ op.temp \in BOOLEAN /\ op.compact \in BOOLEAN
<1>1. op \in OpType
  BY DEF TypeOK, OpType
<1> QED
  BY <1>1 DEF OpType

\* The fields of a file and of a handle.
LEMMA FileFields ==
    ASSUME NEW f \in Files
    PROVE  /\ f.stage \in Stages /\ f.title \in Names /\ f.temp \in BOOLEAN
           /\ f.version \in Versions /\ f.version # 0
           /\ \A s \in Stages : /\ [f EXCEPT !.stage = s] \in Files
                                /\ [f EXCEPT !.stage = s].stage = s
                                /\ [f EXCEPT !.stage = s].title = f.title
                                /\ [f EXCEPT !.stage = s].temp = f.temp
                                /\ [f EXCEPT !.stage = s].version = f.version
BY DEF Files

\* A file that a relation has.
LEMMA FileIsThere ==
    ASSUME TypeOK, NEW n \in Names, files[n] # NoFile
    PROVE  files[n] \in Files
BY DEF TypeOK

\* The names of rows.
LEMMA RowNames ==
    ASSUME NEW d, DictionaryOK(d)
    PROVE  /\ \A r \in d.rows : r \in Row /\ r.name \in Names
           /\ d.rows \in SUBSET Row
           /\ \A n : RowsOf(d, n) \in SUBSET d.rows
           /\ NamesIn(d.rows) \subseteq Names
BY DEF DictionaryOK, IsDictionary, Row, RowsOf, NamesIn

-------------------------------------------------------------------------------
\* What a step leaves alone.

\* A relation with which a step has nothing to do.
LEMMA OthersKeep ==
    ASSUME NEW n \in Names, NameOK(n), Active, Active',
           op.rel # n \/ op.at \notin Making \cup Removing,
           op'.rel # n \/ op'.at \notin Making \cup Removing,
           \A h : h.name = n => (h \in Handles(list) <=> h \in Handles(list)'),
           Once(list, n) => Once(list, n)',
           files'[n] = files[n], hashes'[n] = hashes[n], mishaps \subseteq mishaps',
           \A r \in leaprel'.rows : r.name = n =>
               \E x \in leaprel.rows : x.name = n /\ (x.attributes = 1 => r.attributes = 1),
           Whole(n) /\ n \in Mentioned(leaprel) => n \in Mentioned(leaprel')
    PROVE  NameOK(n)'
<1>0. /\ ~(op.rel = n /\ op.at \in {"row", "link", "attributes", "header", "rows", "file", "hash"})
      /\ ~(op'.rel = n /\ op'.at \in {"row", "link", "attributes", "header", "rows", "file", "hash"})
  BY DEF Making, Removing
<1>1. Listed(list, n)' <=> Listed(list, n)
  BY DEF Listed
<1>2. Whole(n)' <=> Whole(n)
  BY DEF Whole
<1>3. op.at \notin {"saving", "disposing"} /\ op'.at \notin {"saving", "disposing"}
  BY DEF Active
<1>4. Awaited(n)' <=> Awaited(n)
  BY <1>3 DEF Awaited
<1>5. (Faults = {})' => Faults = {}
  BY DEF Faults
<1>6. Quiet' => Quiet
  BY <1>5 DEF Quiet
<1>7. Once(list, n)'
  BY DEF NameOK
<1>8. RowsOK(n)'
  <2>1. Whole(n) => \A r \in leaprel'.rows : r.name = n => r.attributes = 1
    BY DEF NameOK, RowsOK
  <2>2. n \in NamesIn(leaprel.rows)' => n \in NamesIn(leaprel.rows)
    BY DEF NamesIn
  <2>3. n \in NamesIn(leaprel.rows)' => Listed(list, n)'
    BY <1>0, <1>1, <2>2 DEF NameOK, RowsOK
  <2>4. Listed(list, n)' /\ Whole(n)' => n \in Mentioned(leaprel')
    BY <1>1, <1>2 DEF NameOK, RowsOK
  <2> QED BY <1>0, <1>2, <2>1, <2>3, <2>4 DEF RowsOK
<1>9. FilesOK(n)'
  BY <1>0, <1>1, <1>3, <1>5 DEF NameOK, FilesOK
<1>10. StatusOK(n)'
  BY <1>0, <1>3, <1>5 DEF NameOK, StatusOK
<1>11. HashOK(n)'
  BY <1>0, <1>3, <1>4, <1>6 DEF NameOK, HashOK, Making, Removing
<1> QED
  BY <1>7, <1>8, <1>9, <1>10, <1>11 DEF NameOK

\* A relation that is not in the list after a step: what is left to say of it.
LEMMA UnlistedKeeps ==
    ASSUME NEW n, ~Listed(list, n)', Active',
           (Whole(n) => \A r \in leaprel.rows : r.name = n => r.attributes = 1)',
           (op.rel = n /\ op.at \in {"link", "attributes", "header"} =>
               n \in Mentioned(leaprel))',
           (n \in NamesIn(leaprel.rows) => op.rel = n /\ op.at \in {"link", "rows"})',
           (Faults = {} /\ files[n] # NoFile /\ files[n].stage = "empty" =>
               op.rel = n /\ op.at \in {"row", "link"})',
           (Faults = {} /\ files[n] # NoFile /\ files[n].temp =>
               op.rel = n /\ op.at \in {"row", "link", "rows", "file"})',
           (Quiet /\ hashes[n] # NoFile =>
               \/ op.rel = n /\ op.at \in Removing
               \/ files[n] # NoFile /\ hashes[n] = files[n].version)',
           (Quiet /\ op.rel = n /\ op.at \in Making => hashes[n] = NoFile)'
    PROVE  NameOK(n)'
<1>1. \A h \in Handles(list)' : h.name # n
  BY DEF Listed
<1>2. \A i \in DOMAIN list' : list'[i].name # n
  BY <1>1 DEF Handles
<1>3. Once(list, n)'
  BY <1>2 DEF Once
<1>4. RowsOK(n)'
  BY DEF RowsOK
<1>5. FilesOK(n)'
  BY DEF FilesOK
<1>6. op'.at \notin {"saving", "disposing"}
  BY DEF Active
<1>7. StatusOK(n)'
  BY <1>1, <1>6 DEF StatusOK
<1>8. HashOK(n)'
  BY <1>1 DEF HashOK
<1> QED
  BY <1>3, <1>4, <1>5, <1>7, <1>8 DEF NameOK

\* In the middle of a session the other parts of the invariant are empty.
LEMMA ActiveKeeps ==
    ASSUME CatalogueType', OpOK', CompactOK', NamesOK', WreckOK', Active'
    PROVE  CatalogueInv'
BY DEF CatalogueInv, OpeningOK, KeptOK, ClosedOK, Active

\* Unless a step makes a file with a header and no attributes, there is none after it
\* that was not in the same hands before.
LEMMA NoMoreWrecks ==
    ASSUME WreckOK, mishaps \subseteq mishaps',
           \A n \in Names : (files[n] # NoFile /\ files[n].stage = "header")' =>
               \/ files[n] # NoFile /\ files[n].stage = "header" /\
                     (op.rel = n /\ op.at \in {"attributes", "rows", "file"} =>
                         op'.rel = n /\ op'.at \in {"attributes", "rows", "file"})
               \/ op'.rel = n /\ op'.at \in {"attributes", "rows", "file"}
    PROVE  WreckOK'
BY DEF WreckOK

-------------------------------------------------------------------------------
\* Making a relation.

\* The file that relation_create opens.
LEMMA NewFile ==
    ASSUME CatalogueType, NEW n \in Names, NEW temp \in BOOLEAN, CreateFile(n, temp)
    PROVE  /\ files' \in [Names -> Files \cup {NoFile}]
           /\ files'[n] # NoFile /\ files'[n] \in Files
           /\ files'[n].stage = "empty" /\ files'[n].temp = temp
           /\ \A m \in Names : m # n => files'[m] = files[m]
           /\ made' \in Versions
           /\ mishaps \subseteq mishaps' /\ mishaps' \subseteq {"crash", "signal", "wreck", "reuse"}
           /\ hashes[n] # NoFile => "reuse" \in mishaps'
<1> DEFINE f == [stage |-> "empty", title |-> n, temp |-> temp, version |-> made + 1]
<1>1. made + 1 \in Versions \ {0}
  BY MadeAssumption DEF CatalogueType, TypeOK, CreateFile, Versions
<1>2. f \in Files /\ f.stage = "empty" /\ f.temp = temp
  BY <1>1 DEF Files, Stages
<1>3. f # NoFile
  BY <1>2, MarkAssumption
<1>4. files' = [files EXCEPT ![n] = f] /\ made' = made + 1
  BY DEF CreateFile
<1> HIDE DEF f
<1>5. /\ files' \in [Names -> Files \cup {NoFile}] /\ files'[n] = f
      /\ \A m \in Names : m # n => files'[m] = files[m]
  BY <1>2, <1>4 DEF CatalogueType, TypeOK
<1>6. /\ mishaps \subseteq mishaps' /\ mishaps' \subseteq {"crash", "signal", "wreck", "reuse"}
      /\ hashes[n] # NoFile => "reuse" \in mishaps'
  BY DEF CreateFile, CatalogueType, TypeOK
<1> QED
  BY <1>1, <1>2, <1>3, <1>4, <1>5, <1>6

\* CreateFile, by relation_create or by rl_compact.
LEMMA CreateFileKeeps ==
    ASSUME CatalogueInv, NEW n \in Names, NEW temp \in BOOLEAN, CreateFile(n, temp), Idle,
           op' \in OpType, op'.at = "row", op'.rel = n, CompactOK'
    PROVE  CatalogueInv'
<1> USE DEF CatalogueInv
<1>1. /\ files' \in [Names -> Files \cup {NoFile}]
      /\ files'[n] # NoFile /\ files'[n] \in Files
      /\ files'[n].stage = "empty" /\ files'[n].temp = temp
      /\ \A m \in Names : m # n => files'[m] = files[m]
      /\ made' \in Versions
      /\ mishaps \subseteq mishaps' /\ mishaps' \subseteq {"crash", "signal", "wreck", "reuse"}
      /\ hashes[n] # NoFile => "reuse" \in mishaps'
  BY NewFile
<1>2. UNCHANGED <<list, hashes, leaprel, walk, pending, kept, renamed>>
  BY DEF CreateFile
<1>3. ~Listed(list, n) /\ ~Listed(list, n)'
  BY <1>2, ListedIsNamed DEF CreateFile, Listed
<1>4. op.at = "idle" /\ (\A m \in Names : op.rel # m) /\ Active /\ Active'
  BY NameAssumption DEF Idle, OpOK, Active
<1>5. CatalogueType'
  <2>1. TypeOK'
    BY <1>1, <1>2 DEF CatalogueType, TypeOK, OpType
  <2> QED BY <1>2, <2>1 DEF CatalogueType
<1>6. OpOK'
  BY <1>1, <1>3 DEF OpOK, Making, Removing, Moving
<1>7. NamesOK'
  <2> SUFFICES ASSUME NEW m \in Names \ renamed PROVE NameOK(m)'
    BY <1>2 DEF NamesOK
  <2>1. NameOK(m)
    BY DEF NamesOK
  <2>2. CASE m # n
    BY <1>1, <1>2, <1>4, <2>1, <2>2, OthersKeep
  <2>3. CASE m = n
    <3>1. ~Whole(n)'
      BY <1>1 DEF Whole
    <3>2. n \notin NamesIn(leaprel'.rows)
      BY <1>2, <1>3, <1>4, <2>1, <2>3 DEF NameOK, RowsOK
    <3>3. Quiet' => hashes'[n] = NoFile
      BY <1>1, <1>2 DEF Quiet
    <3> QED BY <1>1, <1>3, <1>4, <2>3, <3>1, <3>2, <3>3, UnlistedKeeps
  <2> QED BY <2>2, <2>3
<1>8. WreckOK'
  BY <1>1, <1>4, NoMoreWrecks
<1> QED
  BY <1>4, <1>5, <1>6, <1>7, <1>8, ActiveKeeps

\* relation_create.
LEMMA CreateKeeps ==
    ASSUME CatalogueInv, NEW n \in Names, NEW temp \in BOOLEAN, relation_create(n, temp)
    PROVE  CatalogueInv'
<1>1. op' = Doing("row", n) /\ Idle /\ CreateFile(n, temp)
  BY DEF relation_create
<1>2. op' \in OpType /\ op'.at = "row" /\ op'.rel = n /\ op'.compact = FALSE
  <2>1. "row" \in Phases
    BY DEF Phases
  <2> QED BY <1>1, <2>1, DoingFields
<1>3. CompactOK'
  BY <1>2 DEF CompactOK
<1> QED
  BY <1>1, <1>2, <1>3, CreateFileKeeps

\* rl_compact begins with its copy.
LEMMA CompactKeeps ==
    ASSUME CatalogueInv, NEW n \in Names \ {Temp}, NEW temp \in BOOLEAN, rl_compact(n, temp)
    PROVE  CatalogueInv'
<1>1. /\ op' = [Doing("row", Temp) EXCEPT !.to = n, !.compact = TRUE]
      /\ Idle /\ CreateFile(Temp, temp) /\ Named(n) # {} /\ files[n] # NoFile
  BY DEF rl_compact
<1>2. /\ op' = [at |-> "row", rel |-> Temp, to |-> n, temp |-> FALSE, compact |-> TRUE]
  BY <1>1 DEF Doing
<1>3. op' \in OpType
  BY <1>2, NameAssumption DEF OpType, Phases
<1>4. op'.at = "row" /\ op'.rel = Temp /\ op'.to = n
  BY <1>2
<1>5. Temp \in Names /\ files'[n] # NoFile
  BY <1>1, NameAssumption, NewFile DEF CatalogueInv
<1>6. Listed(list, n)'
  BY <1>1, ListedIsNamed DEF CreateFile, Listed
<1>7. CompactOK'
  BY <1>4, <1>5, <1>6 DEF CompactOK, Making, Removing
<1> QED
  BY <1>1, <1>3, <1>4, <1>5, <1>7, CreateFileKeeps

\* The row.
LEMMA CreateRowKeeps ==
    ASSUME CatalogueInv, CreateRow
    PROVE  CatalogueInv'
<1> USE DEF CatalogueInv
<1> DEFINE n == op.rel
           r == [name |-> n, temp |-> files[n].temp, attributes |-> 0, updated |-> FALSE]
<1>1. /\ op.at = "row" /\ leaprel' = Added(leaprel, r) /\ op' = [op EXCEPT !.at = "link"]
      /\ UNCHANGED <<list, files, hashes, walk, pending, made, kept, renamed, mishaps>>
  BY DEF CreateRow, Onward
<1>2. TypeOK /\ DictionaryOK(leaprel)
  BY DEF CatalogueType
<1>3. /\ n \in Names /\ ~Listed(list, n) /\ files[n] # NoFile /\ files[n].stage = "empty"
      /\ files[n] \in Files
  BY <1>1, <1>2, FileIsThere DEF OpOK, Making
<1>4. r \in Row /\ r.attributes = 0 /\ r.name = n
  <2>1. files[n].temp \in BOOLEAN
    BY <1>3, FileFields
  <2> QED BY <1>3, <2>1 DEF Row
<1> HIDE DEF r
<1>5. /\ op' \in OpType /\ op'.at = "link" /\ op'.rel = n /\ op'.to = op.to
      /\ op'.compact = op.compact
  BY <1>1, <1>2, OpFields, OnwardFields DEF Phases
<1> HIDE DEF n
<1>6. /\ DictionaryOK(leaprel')
      /\ leaprel'.rows \subseteq leaprel.rows \cup {r}
      /\ \A x \in leaprel.rows : x.attributes = 1 => x \in leaprel'.rows
      /\ Known(leaprel) \subseteq Known(leaprel') /\ r \in Known(leaprel')
  BY <1>1, <1>2, <1>4, AddedRow
<1>7. CatalogueType'
  <2>1. TypeOK'
    BY <1>1, <1>2, <1>5, <1>6 DEF TypeOK, OpType, DictionaryOK
  <2> QED BY <1>1, <1>6, <2>1 DEF CatalogueType
<1>8. OpOK'
  BY <1>1, <1>3, <1>5 DEF OpOK, Making, Removing, Moving, Listed
<1>9. CompactOK'
  BY <1>1, <1>5 DEF CompactOK, Making, Removing, Listed, n
<1>10. Active /\ Active'
  BY <1>1, <1>5 DEF Active
<1>11. NamesOK'
  <2> SUFFICES ASSUME NEW m \in Names \ renamed PROVE NameOK(m)'
    BY <1>1 DEF NamesOK
  <2>1. NameOK(m)
    BY DEF NamesOK
  <2>2. CASE m # n
    <3>1. \A y \in leaprel'.rows : y.name = m => y \in leaprel.rows
      BY <1>4, <1>6, <2>2
    <3>2. Whole(m) /\ m \in Mentioned(leaprel) => m \in Mentioned(leaprel')
      <4> SUFFICES ASSUME Whole(m), NEW x \in leaprel.rows \cup Known(leaprel), x.name = m
                   PROVE  x \in leaprel'.rows \cup Known(leaprel')
        BY DEF Mentioned, NamesIn
      <4>1. x \in leaprel.rows => x.attributes = 1
        BY <2>1 DEF NameOK, RowsOK
      <4> QED BY <1>6, <4>1
    <3> QED BY <1>1, <1>5, <1>10, <2>1, <2>2, <3>1, <3>2, OthersKeep DEF n
  <2>3. CASE m = n
    <3>1. ~Listed(list, m)' /\ ~Whole(m)'
      BY <1>1, <1>3, <2>3 DEF Listed, Whole
    <3>2. m \in Mentioned(leaprel')
      BY <1>4, <1>6, <2>3 DEF Mentioned, NamesIn
    <3>3. Quiet' => Quiet
      BY <1>1 DEF Quiet, Faults
    <3>4. Quiet' => hashes'[m] = NoFile
      BY <1>1, <2>1, <2>3, <3>3 DEF NameOK, HashOK, Making, n
    <3> QED BY <1>5, <1>10, <2>3, <3>1, <3>2, <3>4, UnlistedKeeps DEF Making, Removing
  <2> QED BY <2>2, <2>3
<1>12. WreckOK'
  BY <1>1, NoMoreWrecks
<1> QED
  BY <1>7, <1>8, <1>9, <1>10, <1>11, <1>12, ActiveKeeps

\* The header, and the list.
LEMMA CreateLinkKeeps ==
    ASSUME CatalogueInv, CreateLink
    PROVE  CatalogueInv'
<1> USE DEF CatalogueInv
<1>1. PICK n \in Names : n = op.rel
  BY DEF CreateLink, OpOK, Making
<1> DEFINE h == [name |-> n, temp |-> Flag(files[n].temp), updated |-> FALSE,
                 table |-> files[n].version]
<1>2. /\ op.at = "link" /\ files' = [files EXCEPT ![n].stage = "header"]
      /\ list' = relation_insert(list, h) /\ op' = [op EXCEPT !.at = "attributes"]
      /\ UNCHANGED <<hashes, leaprel, walk, pending, made, kept, renamed, mishaps>>
  BY <1>1 DEF CreateLink, Onward
<1>3. TypeOK /\ list \in Seq(Handle)
  BY DEF CatalogueType
<1>4. /\ ~Listed(list, n) /\ files[n] # NoFile /\ files[n] \in Files
      /\ files[n].temp \in BOOLEAN /\ files[n].version \in Versions
  <2>1. ~Listed(list, n) /\ files[n] # NoFile
    BY <1>1, <1>2 DEF OpOK
  <2> QED BY <1>3, <2>1, FileIsThere, FileFields
<1>5. /\ h \in Handle /\ h.name = n /\ h.temp = Flag(files[n].temp) /\ h.updated = FALSE
      /\ h.table = files[n].version
  <2>1. Flag(files[n].temp) \in 0 .. 2
    BY <1>4 DEF Flag
  <2> QED BY <1>4, <2>1 DEF Handle
<1>6. /\ files'[n] \in Files /\ files'[n] # NoFile /\ files'[n].stage = "header"
      /\ files'[n].temp = files[n].temp /\ files'[n].version = files[n].version
      /\ files' \in [Names -> Files \cup {NoFile}]
      /\ \A m \in Names : m # n => files'[m] = files[m]
  <2>1. [files[n] EXCEPT !.stage = "header"] \in Files
    BY <1>4, FileFields DEF Stages
  <2>2. files \in [Names -> Files \cup {NoFile}]
    BY <1>3 DEF TypeOK
  <2>3. files'[n] = [files[n] EXCEPT !.stage = "header"]
    BY <1>2, <2>2
  <2>4. /\ files' \in [Names -> Files \cup {NoFile}]
        /\ \A m \in Names : m # n => files'[m] = files[m]
    BY <1>2, <2>1, <2>2
  <2> QED BY <1>4, <2>1, <2>3, <2>4, FileFields, MarkAssumption DEF Stages
<1> HIDE DEF h
<1>7. /\ list' \in Seq(Handle)
      /\ Handles(list') = Handles(list) \cup {h}
      /\ \A m : m # n /\ Once(list, m) => Once(list', m)
      /\ Once(list', n)
  BY <1>2, <1>3, <1>4, <1>5, InsertedList
<1>8. /\ op' \in OpType /\ op'.at = "attributes" /\ op'.rel = n /\ op'.to = op.to
      /\ op'.compact = op.compact
  BY <1>1, <1>2, <1>3, OpFields, OnwardFields DEF Phases
<1>9. Handles(list)' = Handles(list) \cup {h}
  BY <1>7 DEF Handles
<1>10. \A g \in Handles(list)' : g.name = n => g = h
  BY <1>4, <1>9 DEF Listed
<1>11. Listed(list, n)'
  BY <1>5, <1>9 DEF Listed
<1>12. CatalogueType'
  <2>1. TypeOK'
    <3>1. \A i \in DOMAIN list' : list'[i] \in Handle
      BY <1>7
    <3> QED BY <1>2, <1>3, <1>6, <1>8, <3>1 DEF TypeOK, OpType
  <2>2. \A g \in Handles(list)' : g.updated => g.table \in Versions
    BY <1>5, <1>9 DEF CatalogueType
  <2> QED BY <1>2, <1>7, <2>1, <2>2 DEF CatalogueType
<1>13. OpOK'
  BY <1>4, <1>5, <1>6, <1>8, <1>10, <1>11 DEF OpOK, Making, Removing, Moving
<1>14. CompactOK'
  <2>1. Listed(list, op.to) => Listed(list', op'.to)
    BY <1>8, <1>7 DEF Listed
  <2> QED BY <1>1, <1>2, <1>6, <1>8, <2>1 DEF CompactOK, Making, Removing
<1>15. Active /\ Active'
  BY <1>2, <1>8 DEF Active
<1>16. NamesOK'
  <2> SUFFICES ASSUME NEW m \in Names \ renamed PROVE NameOK(m)'
    BY <1>2 DEF NamesOK
  <2>1. NameOK(m)
    BY DEF NamesOK
  <2>2. CASE m # n
    <3>1. \A g : g.name = m => (g \in Handles(list) <=> g \in Handles(list)')
      BY <1>5, <1>9, <2>2
    <3> QED BY <1>1, <1>2, <1>6, <1>7, <1>8, <1>15, <2>1, <2>2, <3>1, OthersKeep
  <2>3. CASE m = n
    <3>1. ~Whole(n)'
      BY <1>6 DEF Whole
    <3>2. Faults' = Faults /\ (Quiet' <=> Quiet)
      BY <1>2 DEF Quiet, Faults
    <3>3. Once(list, n)'
      BY <1>7
    <3>4. RowsOK(n)'
      <4>1. n \in Mentioned(leaprel')
        BY <1>1, <1>2, <1>15, <2>1, <2>3 DEF NameOK, RowsOK
      <4> QED BY <1>11, <3>1, <4>1 DEF RowsOK
    <3>5. FilesOK(n)'
      BY <1>6 DEF FilesOK
    <3>6. StatusOK(n)'
      <4>1. h \in Handles(list)' /\ (files'[n].temp => h.temp = 1)
        BY <1>5, <1>6, <1>9 DEF Flag
      <4> QED BY <1>5, <1>6, <1>8, <1>10, <4>1 DEF StatusOK
    <3>7. HashOK(n)'
      <4>1. Quiet' => hashes'[n] = NoFile
        BY <1>1, <1>2, <2>1, <2>3, <3>2 DEF NameOK, HashOK, Making
      <4> QED BY <1>5, <1>6, <1>10, <4>1 DEF HashOK
    <3> QED BY <2>3, <3>3, <3>4, <3>5, <3>6, <3>7 DEF NameOK
  <2> QED BY <2>2, <2>3
<1>17. WreckOK'
  BY <1>1, <1>2, <1>6, <1>8, NoMoreWrecks
<1> QED
  BY <1>12, <1>13, <1>14, <1>15, <1>16, <1>17, ActiveKeeps

\* A file whose stage is changed.
LEMMA StageChanges ==
    ASSUME TypeOK, NEW n \in Names, files[n] # NoFile, NEW s \in Stages,
           files' = [files EXCEPT ![n].stage = s]
    PROVE  /\ files'[n] \in Files /\ files'[n] # NoFile /\ files'[n].stage = s
           /\ files'[n].temp = files[n].temp /\ files'[n].version = files[n].version
           /\ files'[n].title = files[n].title
           /\ files' \in [Names -> Files \cup {NoFile}]
           /\ \A m \in Names : m # n => files'[m] = files[m]
<1>1. files[n] \in Files /\ [files[n] EXCEPT !.stage = s] \in Files
  BY FileIsThere, FileFields
<1>2. files \in [Names -> Files \cup {NoFile}]
  BY DEF TypeOK
<1>3. files'[n] = [files[n] EXCEPT !.stage = s]
  BY <1>2
<1>4. /\ files' \in [Names -> Files \cup {NoFile}]
      /\ \A m \in Names : m # n => files'[m] = files[m]
  BY <1>1, <1>2
<1> QED
  BY <1>1, <1>3, <1>4, FileFields, MarkAssumption

\* The attributes.
LEMMA CreateAttributesKeeps ==
    ASSUME CatalogueInv, CreateAttributes
    PROVE  CatalogueInv'
<1> USE DEF CatalogueInv
<1>1. PICK n \in Names : n = op.rel
  BY DEF CreateAttributes, OpOK, Making
<1>2. /\ op.at = "attributes" /\ files' = [files EXCEPT ![n].stage = "blank"]
      /\ leaprel' = Touched(leaprel) /\ op' = [op EXCEPT !.at = "header"]
      /\ UNCHANGED <<list, hashes, walk, pending, made, kept, renamed, mishaps>>
  BY <1>1 DEF CreateAttributes, Onward
<1>3. TypeOK /\ list \in Seq(Handle) /\ DictionaryOK(leaprel)
  BY DEF CatalogueType
<1>4. /\ Listed(list, n) /\ files[n] # NoFile
      /\ \A h \in Handles(list) : h.name = n => h.table \in Versions
  BY <1>1, <1>2 DEF OpOK
<1>5. /\ files'[n] # NoFile /\ files'[n].stage = "blank"
      /\ files'[n].temp = files[n].temp /\ files'[n].version = files[n].version
      /\ files' \in [Names -> Files \cup {NoFile}]
      /\ \A m \in Names : m # n => files'[m] = files[m]
  BY <1>2, <1>3, <1>4, StageChanges DEF Stages
<1>6. /\ op' \in OpType /\ op'.at = "header" /\ op'.rel = n /\ op'.to = op.to
      /\ op'.compact = op.compact
  BY <1>1, <1>2, <1>3, OpFields, OnwardFields DEF Phases
<1>7. DictionaryOK(leaprel') /\ leaprel'.rows = leaprel.rows /\ Known(leaprel') = Known(leaprel)
  BY <1>2, <1>3, TouchedRows
<1>8. Mentioned(leaprel') = Mentioned(leaprel)
  BY <1>7 DEF Mentioned
<1>9. CatalogueType'
  <2>1. TypeOK'
    BY <1>2, <1>3, <1>5, <1>6, <1>7 DEF TypeOK, OpType, DictionaryOK
  <2> QED BY <1>2, <1>7, <2>1 DEF CatalogueType
<1>10. Handles(list)' = Handles(list) /\ \A m : Listed(list, m)' <=> Listed(list, m)
  BY <1>2 DEF Handles, Listed
<1>11. OpOK'
  <2>1. Listed(list', op'.rel) /\ \A h \in Handles(list') : h.name = op'.rel => h.table \in Versions
    BY <1>2, <1>4, <1>6
  <2> QED BY <1>5, <1>6, <2>1 DEF OpOK, Making, Removing, Moving
<1>12. CompactOK'
  BY <1>1, <1>2, <1>5, <1>6 DEF CompactOK, Making, Removing
<1>13. Active /\ Active'
  BY <1>2, <1>6 DEF Active
<1>14. NamesOK'
  <2> SUFFICES ASSUME NEW m \in Names \ renamed PROVE NameOK(m)'
    BY <1>2 DEF NamesOK
  <2>1. NameOK(m)
    BY DEF NamesOK
  <2>2. CASE m # n
    <3>1. Once(list, m) => Once(list, m)'
      BY <1>2 DEF Once
    <3> QED BY <1>1, <1>2, <1>5, <1>6, <1>7, <1>8, <1>10, <1>13, <2>1, <2>2, <3>1, OthersKeep
  <2>3. CASE m = n
    <3>1. ~Whole(n)' /\ Listed(list, n)'
      BY <1>4, <1>5, <1>10 DEF Whole
    <3>2. Faults' = Faults /\ (Quiet' <=> Quiet)
      BY <1>2 DEF Quiet, Faults
    <3>3. Once(list, n)'
      BY <1>2, <2>1, <2>3 DEF NameOK, Once
    <3>4. RowsOK(n)'
      <4>1. n \in Mentioned(leaprel')
        BY <1>1, <1>2, <1>8, <1>13, <2>1, <2>3 DEF NameOK, RowsOK
      <4> QED BY <3>1, <4>1 DEF RowsOK
    <3>5. FilesOK(n)'
      BY <1>5 DEF FilesOK
    <3>6. StatusOK(n)'
      <4>1. Faults = {} => /\ \A h \in Handles(list) : h.name = n => h.temp = Flag(files[n].temp)
                           /\ files[n].temp => \E h \in Handles(list) : h.name = n /\ h.temp = 1
        BY <1>2, <1>4, <2>1, <2>3 DEF NameOK, StatusOK
      <4>2. Flag(files'[n].temp) = Flag(files[n].temp)
        BY <1>5
      <4> QED BY <1>5, <1>6, <1>10, <3>2, <4>1, <4>2 DEF StatusOK
    <3>7. HashOK(n)'
      <4>1. Quiet' => hashes'[n] = NoFile
        BY <1>1, <1>2, <2>1, <2>3, <3>2 DEF NameOK, HashOK, Making
      <4>2. Quiet' => \A h \in Handles(list)' : h.name = n => h.table = files'[n].version
        BY <1>2, <1>4, <1>5, <1>10, <2>1, <2>3, <3>2, MarkAssumption DEF NameOK, HashOK
      <4> QED BY <4>1, <4>2 DEF HashOK
    <3> QED BY <2>3, <3>3, <3>4, <3>5, <3>6, <3>7 DEF NameOK
  <2> QED BY <2>2, <2>3
<1>15. WreckOK'
  BY <1>1, <1>5, <1>2, NoMoreWrecks
<1> QED
  BY <1>9, <1>11, <1>12, <1>13, <1>14, <1>15, ActiveKeeps

\* Rows that change and stay with their names: none appears, and what the table knows of
\* a relation is never forgotten.
LEMMA UpdateKeepsRows ==
    ASSUME TypeOK, DictionaryOK(leaprel), NEW m, NEW to, RowChange(to),
           leaprel' = Updated(leaprel, RowsOf(leaprel, m), to)
    PROVE  /\ DictionaryOK(leaprel')
           /\ RowsFrom(leaprel', leaprel)
           /\ \A y \in leaprel'.rows : y.name = m => \E x \in leaprel.rows : y = to[x]
           /\ NamesIn(leaprel'.rows) \subseteq NamesIn(leaprel.rows)
           /\ \A n : n \in Mentioned(leaprel) => n \in Mentioned(leaprel')
<1> DEFINE R == RowsOf(leaprel, m)
<1>1. R \in SUBSET leaprel.rows /\ leaprel.rows \in SUBSET Row
  BY RowNames
<1>2. /\ DictionaryOK(leaprel')
      /\ RowsBecome(leaprel', leaprel, R, to)
      /\ Mentioned(leaprel) \subseteq Mentioned(leaprel')
  <2>1. /\ DictionaryOK(Updated(leaprel, R, to))
        /\ RowsBecome(Updated(leaprel, R, to), leaprel, R, to)
        /\ Mentioned(leaprel) \subseteq Mentioned(Updated(leaprel, R, to))
    <3> HIDE DEF R
    <3> QED BY <1>1, UpdatedRows
  <2> QED BY <2>1
<1>3. \A r \in Row : to[r] \in Row /\ r.attributes \in 0 .. 1 /\ to[r].attributes \in 0 .. 1
  <2>1. \A r \in Row : r.attributes \in 0 .. 1
    BY DEF Row
  <2> QED BY <2>1 DEF RowChange
<1>4. ASSUME NEW y \in leaprel'.rows
      PROVE  \E x \in leaprel.rows : x.name = y.name /\ (x.attributes = 1 => y.attributes = 1)
  <2>1. CASE y \in leaprel.rows \ R
    BY <2>1
  <2>2. CASE \E x \in R : y = to[x]
    <3>1. PICK x \in R : y = to[x]
      BY <2>2
    <3>2. x \in Row /\ x.name = y.name /\ x.attributes <= y.attributes
      BY <1>1, <3>1 DEF RowChange
    <3>3. x.attributes = 1 => y.attributes = 1
      BY <1>3, <3>1, <3>2
    <3> QED BY <1>1, <3>2, <3>3
  <2> QED BY <1>2, <2>1, <2>2 DEF RowsBecome
<1>5. \A y \in leaprel'.rows : y.name = m => \E x \in leaprel.rows : y = to[x]
  <2>1. \A y \in leaprel.rows \ R : y.name # m
    BY DEF RowsOf
  <2> QED BY <1>1, <1>2, <2>1 DEF RowsBecome
<1>6. NamesIn(leaprel'.rows) \subseteq NamesIn(leaprel.rows)
  BY <1>4 DEF NamesIn
<1>7. RowsFrom(leaprel', leaprel)
  BY <1>4 DEF RowsFrom
<1> QED
  BY <1>2, <1>5, <1>6, <1>7

\* The list, when the relation that is made has its header.
HeaderList(n, filled) == [list EXCEPT ![Found(n)].updated = filled]

\* The row that says how many attributes the relation has.
LEMMA DescribedRows ==
    ASSUME TypeOK, DictionaryOK(leaprel), NEW n,
           leaprel' = Updated(leaprel, RowsOf(leaprel, n), Described)
    PROVE  /\ DictionaryOK(leaprel')
           /\ RowsFrom(leaprel', leaprel)
           /\ \A y \in leaprel'.rows : y.name = n => y.attributes = 1
           /\ NamesIn(leaprel'.rows) \subseteq NamesIn(leaprel.rows)
           /\ \A m : m \in Mentioned(leaprel) => m \in Mentioned(leaprel')
<1>2. /\ DictionaryOK(leaprel')
      /\ RowsFrom(leaprel', leaprel)
      /\ \A y \in leaprel'.rows : y.name = n => \E x \in leaprel.rows : y = Described[x]
      /\ NamesIn(leaprel'.rows) \subseteq NamesIn(leaprel.rows)
      /\ \A m : m \in Mentioned(leaprel) => m \in Mentioned(leaprel')
  BY RowChanges, UpdateKeepsRows
<1>3. \A y \in leaprel'.rows : y.name = n => y.attributes = 1
  <2>1. leaprel.rows \in SUBSET Row
    BY RowNames
  <2> QED BY <1>2, <2>1, RowChanges
<1> QED
  BY <1>2, <1>3

\* This list has the same relations, and the same handles but for that one.
LEMMA HeaderListFacts ==
    ASSUME CatalogueInv, NEW n \in Names, n = op.rel, op.at = "header",
           NEW filled \in BOOLEAN
    PROVE  /\ HeaderList(n, filled) \in Seq(Handle)
           /\ \A h \in Handles(HeaderList(n, filled)) : h.updated => h.table \in Versions
           /\ \A h : h.name # n => (h \in Handles(HeaderList(n, filled)) <=> h \in Handles(list))
           /\ \A m : Listed(HeaderList(n, filled), m) <=> Listed(list, m)
           /\ \A m : Once(list, m) => Once(HeaderList(n, filled), m)
           /\ \E g \in Handles(HeaderList(n, filled)) : g.name = n
           /\ Once(list, n) => \A h \in Handles(HeaderList(n, filled)) : h.name = n =>
                 \E g \in Handles(list) : /\ g.name = n /\ h.temp = g.temp /\ h.table = g.table
           /\ Once(list, n) => \A g \in Handles(list) : g.name = n =>
                 \E h \in Handles(HeaderList(n, filled)) : h.name = n /\ h.temp = g.temp
           /\ DOMAIN HeaderList(n, filled) = DOMAIN list
           /\ \A i \in DOMAIN list : HeaderList(n, filled)[i].name = list[i].name
<1> USE DEF CatalogueInv
<1> DEFINE described == HeaderList(n, filled)
<1>1. TypeOK /\ list \in Seq(Handle) /\ DictionaryOK(leaprel)
  BY DEF CatalogueType
<1>2. /\ Listed(list, n) /\ files[n] # NoFile
      /\ \A h \in Handles(list) : h.name = n => h.table \in Versions
  BY DEF OpOK
<1>4. PICK p \in DOMAIN list : p = Found(n) /\ list[p].name = n
                               /\ list[p] \in Handles(list) /\ list[p] \in Handle
  BY <1>1, <1>2, FoundIsThere, ListedIsNamed
<1> DEFINE g == [list[p] EXCEPT !.updated = filled]
<1>5. g \in Handle /\ g.name = n /\ g.temp = list[p].temp /\ g.table = list[p].table
  BY <1>4 DEF Handle
<1>6. described = [list EXCEPT ![p] = g]
  BY <1>4 DEF HeaderList
<1> HIDE DEF described
<1> HIDE DEF g
<1>7. /\ described \in Seq(Handle)
      /\ Handles(described) \subseteq Handles(list) \cup {g}
      /\ g \in Handles(described)
      /\ \A h \in Handles(list) : h.name # n => h \in Handles(described)
      /\ \A m : Listed(described, m) <=> Listed(list, m)
      /\ \A m : Once(list, m) => Once(described, m)
      /\ Once(list, n) => \A h \in Handles(described) : h.name = n => h = g
  <2>1. g.name = list[p].name
    BY <1>4, <1>5
  <2> DEFINE u == [list EXCEPT ![p] = g]
  <2>2. /\ u \in Seq(Handle)
        /\ Handles(u) \subseteq Handles(list) \cup {g}
        /\ g \in Handles(u)
        /\ \A h \in Handles(list) : h.name # g.name => h \in Handles(u)
        /\ \A m : Listed(u, m) <=> Listed(list, m)
        /\ \A m : Once(list, m) => Once(u, m)
        /\ Once(list, g.name) => \A h \in Handles(u) : h.name = g.name => h = g
    BY <1>1, <1>5, <2>1, ChangedList
  <2> HIDE DEF u
  <2> QED BY <1>5, <1>6, <2>2 DEF u
<1>8. /\ DOMAIN described = DOMAIN list
      /\ \A i \in DOMAIN list : described[i].name = list[i].name
  BY <1>1, <1>4, <1>5, <1>6
<1>9. \A h \in Handles(described) : h.updated => h.table \in Versions
  BY <1>2, <1>4, <1>5, <1>7 DEF CatalogueType
<1>10. \A h : h.name # n => (h \in Handles(described) <=> h \in Handles(list))
  BY <1>5, <1>7
<1>11. ASSUME Once(list, n), NEW h \in Handles(list), h.name = n
       PROVE  h = list[p]
  BY <1>4, <1>11 DEF Once, Handles
<1>12. Once(list, n) => \A h \in Handles(described) : h.name = n =>
           \E f \in Handles(list) : /\ f.name = n /\ h.temp = f.temp /\ h.table = f.table
  BY <1>4, <1>5, <1>7
<1>13. Once(list, n) => \A f \in Handles(list) : f.name = n =>
           \E h \in Handles(described) : h.name = n /\ h.temp = f.temp
  BY <1>5, <1>7, <1>11
<1> QED
  BY <1>5, <1>7, <1>8, <1>9, <1>10, <1>12, <1>13 DEF described

\* Names and wrecks when the header is written: the relation that was made.
LEMMA HeaderKeepsName ==
    ASSUME CatalogueInv, NEW n \in Names \ renamed, n = op.rel, op.at = "header",
           NEW filled \in BOOLEAN,
           \A h : h.name = n =>
               (h \in Handles(list)' <=> h \in Handles(HeaderList(n, filled))),
           Once(HeaderList(n, filled), n) => Once(list, n)',
           leaprel' = Updated(leaprel, RowsOf(leaprel, n), Described),
           files' = [files EXCEPT ![n].stage = "whole"],
           UNCHANGED <<hashes, mishaps>>, Active', op'.rel # n
    PROVE  NameOK(n)'
<1> USE DEF CatalogueInv
<1> DEFINE described == HeaderList(n, filled)
<1>0. TypeOK /\ DictionaryOK(leaprel) /\ files[n] # NoFile
  BY DEF CatalogueType, OpOK
<1>1. /\ Once(list, n) => Once(described, n)
      /\ \E g \in Handles(described) : g.name = n
      /\ Once(list, n) => \A h \in Handles(described) : h.name = n =>
            \E g \in Handles(list) : /\ g.name = n /\ h.temp = g.temp /\ h.table = g.table
      /\ Once(list, n) => \A g \in Handles(list) : g.name = n =>
            \E h \in Handles(described) : h.name = n /\ h.temp = g.temp
  BY HeaderListFacts
<1>12. /\ files'[n] # NoFile /\ files'[n].stage = "whole"
       /\ files'[n].temp = files[n].temp /\ files'[n].version = files[n].version
  BY <1>0, StageChanges DEF Stages
<1>13. /\ \A y \in leaprel'.rows : y.name = n => y.attributes = 1
       /\ \A m : m \in Mentioned(leaprel) => m \in Mentioned(leaprel')
  BY <1>0, DescribedRows
<1> HIDE DEF described
<1>2. \A h : h.name = n => (h \in Handles(list)' <=> h \in Handles(described))
  BY DEF described
<1>3. NameOK(n) /\ Once(list, n)
  BY DEF NamesOK, NameOK
<1>4. Once(list, n)'
  BY <1>1, <1>3 DEF described
<1>5. Listed(list, n)'
  BY <1>1, <1>2 DEF Listed
<1>6. Faults' = Faults /\ (Quiet' <=> Quiet)
  BY DEF Quiet, Faults
<1>7. op'.at \notin {"saving", "disposing"} /\ Active
  BY DEF Active
<1>8. RowsOK(n)'
  <2>1. n \in Mentioned(leaprel')
    BY <1>3, <1>7, <1>13 DEF NameOK, RowsOK
  <2> QED BY <1>5, <1>13, <2>1 DEF RowsOK
<1>9. FilesOK(n)'
  BY <1>12 DEF FilesOK
<1>10. StatusOK(n)'
  <2>1. Faults = {} => /\ \A h \in Handles(list) : h.name = n => h.temp = Flag(files[n].temp)
                       /\ files[n] # NoFile /\ files[n].temp =>
                             \E h \in Handles(list) : h.name = n /\ h.temp = 1
    BY <1>3 DEF NameOK, StatusOK
  <2>2. Flag(files'[n].temp) = Flag(files[n].temp) /\ files[n] # NoFile
    BY <1>0, <1>12
  <2>3. Faults = {} => \A h \in Handles(described) : h.name = n => h.temp = Flag(files'[n].temp)
    BY <1>1, <1>3, <2>1, <2>2
  <2>4. Faults = {} /\ files'[n].temp => \E h \in Handles(described) : h.name = n /\ h.temp = 1
    BY <1>1, <1>3, <2>1, <2>2
  <2> QED BY <1>2, <1>6, <1>7, <2>3, <2>4 DEF StatusOK
<1>11. HashOK(n)'
  <2>1. Quiet => hashes[n] = NoFile
    BY <1>3 DEF NameOK, HashOK, Making
  <2>2. Quiet => \A h \in Handles(list) : h.name = n => h.table = files[n].version
    BY <1>3, MarkAssumption DEF NameOK, HashOK, OpOK
  <2>3. Quiet => \A h \in Handles(described) : h.name = n => h.table = files'[n].version
    BY <1>1, <1>3, <1>12, <2>2
  <2> QED BY <1>2, <1>6, <2>1, <2>3 DEF HashOK
<1> QED
  BY <1>4, <1>8, <1>9, <1>10, <1>11 DEF NameOK

\* What the writing of the header does, whoever makes the relation.
LEMMA HeaderStep ==
    ASSUME CatalogueInv, NEW n \in Names, n = op.rel, NEW filled \in BOOLEAN,
           CreateHeader(filled)
    PROVE  /\ op.at = "header" /\ Active
           /\ files' \in [Names -> Files \cup {NoFile}]
           /\ files'[n] # NoFile /\ files'[n].stage = "whole"
           /\ \A m \in Names : m # n => files'[m] = files[m]
           /\ DictionaryOK(leaprel') /\ RowsFrom(leaprel', leaprel)
           /\ \A m : m \in Mentioned(leaprel) => m \in Mentioned(leaprel')
           /\ UNCHANGED <<hashes, walk, pending, made, kept, renamed, mishaps>>
           /\ WreckOK'
<1> USE DEF CatalogueInv
<1>1. /\ op.at = "header" /\ files' = [files EXCEPT ![n].stage = "whole"]
      /\ leaprel' = Updated(leaprel, RowsOf(leaprel, n), Described)
      /\ UNCHANGED <<hashes, walk, pending, made, kept, renamed, mishaps>>
  BY DEF CreateHeader
<1>2. TypeOK /\ DictionaryOK(leaprel) /\ files[n] # NoFile
  BY <1>1 DEF CatalogueType, OpOK
<1>3. /\ files'[n] # NoFile /\ files'[n].stage = "whole"
      /\ files' \in [Names -> Files \cup {NoFile}]
      /\ \A m \in Names : m # n => files'[m] = files[m]
  BY <1>1, <1>2, StageChanges DEF Stages
<1>4. /\ DictionaryOK(leaprel') /\ RowsFrom(leaprel', leaprel)
      /\ \A m : m \in Mentioned(leaprel) => m \in Mentioned(leaprel')
  BY <1>1, <1>2, DescribedRows
<1>5. WreckOK'
  BY <1>1, <1>3, NoMoreWrecks
<1> QED
  BY <1>1, <1>3, <1>4, <1>5 DEF Active

\* The header, of a relation that a user or an operator makes.
LEMMA CreateHeaderKeeps ==
    ASSUME CatalogueInv, NEW filled \in BOOLEAN, CreateHeader(filled), ~op.compact
    PROVE  CatalogueInv'
<1> USE DEF CatalogueInv
<1>1. PICK n \in Names : n = op.rel
  BY DEF CreateHeader, OpOK, Making
<1>2. /\ op.at = "header" /\ Active
      /\ files' \in [Names -> Files \cup {NoFile}]
      /\ files'[n] # NoFile
      /\ \A m \in Names : m # n => files'[m] = files[m]
      /\ DictionaryOK(leaprel') /\ RowsFrom(leaprel', leaprel)
      /\ \A m : m \in Mentioned(leaprel) => m \in Mentioned(leaprel')
      /\ UNCHANGED <<hashes, walk, pending, made, kept, renamed, mishaps>>
      /\ WreckOK'
  BY <1>1, HeaderStep
<1>3. list' = HeaderList(n, filled) /\ op' = Resting("idle")
  BY <1>1 DEF CreateHeader, HeaderList, Finished
<1>4. op' \in OpType /\ op'.at = "idle" /\ op'.rel = NoName /\ op'.compact = FALSE
  <2>1. "idle" \in Phases
    BY DEF Phases
  <2> QED BY <1>3, <2>1, DoingFields DEF Resting
<1>5. /\ HeaderList(n, filled) \in Seq(Handle)
      /\ \A h \in Handles(HeaderList(n, filled)) : h.updated => h.table \in Versions
      /\ \A h : h.name # n => (h \in Handles(HeaderList(n, filled)) <=> h \in Handles(list))
      /\ \A m : Once(list, m) => Once(HeaderList(n, filled), m)
  BY <1>1, <1>2, HeaderListFacts
<1>6. Handles(list)' = Handles(HeaderList(n, filled))
  BY <1>3 DEF Handles
<1>7. CatalogueType'
  <2>1. \A i \in DOMAIN list' : list'[i] \in Handle
    BY <1>3, <1>5
  <2>2. TypeOK'
    BY <1>2, <1>4, <2>1 DEF CatalogueType, TypeOK, OpType, DictionaryOK
  <2> QED BY <1>2, <1>3, <1>5, <1>6, <2>2 DEF CatalogueType
<1>8. OpOK' /\ CompactOK'
  BY <1>4 DEF OpOK, CompactOK, Making, Removing, Moving
<1>9. Active' /\ op'.rel # n /\ \A m \in Names : op'.rel # m
  BY <1>4, NameAssumption DEF Active
<1>10. NamesOK'
  <2> SUFFICES ASSUME NEW m \in Names \ renamed PROVE NameOK(m)'
    BY <1>2 DEF NamesOK
  <2>1. NameOK(m)
    BY DEF NamesOK
  <2>2. CASE m # n
    <3>1. \A h : h.name = m => (h \in Handles(list) <=> h \in Handles(list)')
      BY <1>5, <1>6, <2>2
    <3>2. Once(list, m) => Once(list, m)'
      BY <1>3, <1>5
    <3>3. \A r \in leaprel'.rows : r.name = m =>
             \E x \in leaprel.rows : x.name = m /\ (x.attributes = 1 => r.attributes = 1)
      BY <1>2 DEF RowsFrom
    <3> QED BY <1>1, <1>2, <1>9, <2>1, <2>2, <3>1, <3>2, <3>3, OthersKeep
  <2>3. CASE m = n
    <3>1. /\ leaprel' = Updated(leaprel, RowsOf(leaprel, n), Described)
          /\ files' = [files EXCEPT ![n].stage = "whole"]
      BY <1>1 DEF CreateHeader
    <3>2. Once(HeaderList(n, filled), n) => Once(list, n)'
      BY <1>3
    <3> QED BY <1>1, <1>2, <1>6, <1>9, <2>3, <3>1, <3>2, HeaderKeepsName
  <2> QED BY <2>2, <2>3
<1> QED
  BY <1>2, <1>7, <1>8, <1>9, <1>10, ActiveKeeps

\* The header of the copy that rl_compact makes, and the original out of the list.
LEMMA CompactHeaderKeeps ==
    ASSUME CatalogueInv, NEW filled \in BOOLEAN, CreateHeader(filled), op.compact
    PROVE  CatalogueInv'
<1> USE DEF CatalogueInv
<1>1. PICK n \in Names : n = op.rel
  BY DEF CreateHeader, OpOK, Making
<1>2. /\ op.at = "header" /\ Active
      /\ files' \in [Names -> Files \cup {NoFile}]
      /\ files'[n] # NoFile
      /\ \A m \in Names : m # n => files'[m] = files[m]
      /\ DictionaryOK(leaprel') /\ RowsFrom(leaprel', leaprel)
      /\ \A m : m \in Mentioned(leaprel) => m \in Mentioned(leaprel')
      /\ UNCHANGED <<hashes, walk, pending, made, kept, renamed, mishaps>>
      /\ WreckOK'
  BY <1>1, HeaderStep
<1>3. PICK t \in Names : t = op.to
  BY DEF CompactOK
<1>4. n = Temp /\ t # n /\ Listed(list, t) /\ files[t] # NoFile /\ files[t].temp \in BOOLEAN
  <2>1. n = Temp /\ t # n /\ Listed(list, t) /\ files[t] # NoFile
    BY <1>1, <1>2, <1>3 DEF CompactOK, Making
  <2> QED BY <2>1, FileIsThere, FileFields DEF CatalogueType
<1> DEFINE d == HeaderList(n, filled)
<1>5. /\ d \in Seq(Handle)
      /\ \A h \in Handles(d) : h.updated => h.table \in Versions
      /\ \A h : h.name # n => (h \in Handles(d) <=> h \in Handles(list))
      /\ \A m : Once(list, m) => Once(d, m)
      /\ \E g \in Handles(d) : g.name = n
      /\ DOMAIN d = DOMAIN list
      /\ \A i \in DOMAIN list : d[i].name = list[i].name
  BY <1>1, <1>2, HeaderListFacts
<1>6. PICK p \in DOMAIN list : p = Found(t) /\ list[p].name = t
  BY <1>4, FoundIsThere, ListedIsNamed DEF CatalogueType
<1>7. /\ list' = RemoveAt(d, p)
      /\ op' = [op EXCEPT !.at = "rows", !.rel = t, !.to = n, !.temp = files[t].temp]
  BY <1>1, <1>3, <1>6 DEF CreateHeader, HeaderList
<1> HIDE DEF d
<1>8. /\ op' \in OpType /\ op'.at = "rows" /\ op'.rel = t /\ op'.to = n /\ op'.compact
  <2>1. op \in OpType
    BY OpFields DEF CatalogueType
  <2> QED BY <1>4, <1>7, <2>1 DEF OpType, Phases
<1>9. p \in DOMAIN d /\ d[p].name = t
  BY <1>5, <1>6
<1>10. /\ list' \in Seq(Handle)
       /\ Handles(list') \subseteq Handles(d)
       /\ \A h \in Handles(d) : h.name # t => h \in Handles(list')
       /\ \A m : Once(d, m) => Once(list', m)
       /\ Once(d, t) => ~Listed(list', t)
  BY <1>5, <1>7, <1>9, RemovedList
<1>11. Handles(list)' = Handles(list')
  BY DEF Handles
<1>12. \A h : h.name # t => (h \in Handles(list)' <=> h \in Handles(d))
  BY <1>10, <1>11
<1>13. CatalogueType'
  <2>1. \A i \in DOMAIN list' : list'[i] \in Handle
    BY <1>10
  <2>2. TypeOK'
    BY <1>2, <1>8, <2>1 DEF CatalogueType, TypeOK, OpType, DictionaryOK
  <2> QED BY <1>2, <1>5, <1>10, <1>11, <2>2 DEF CatalogueType
<1>14. t \notin renamed => Once(list, t) /\ ~Listed(list', t)
  BY <1>5, <1>10 DEF NamesOK, NameOK
<1>15. OpOK'
  BY <1>2, <1>8, <1>14 DEF OpOK, Making, Removing, Moving
<1>16. Listed(list', n)
  BY <1>4, <1>5, <1>10 DEF Listed
<1>17. CompactOK'
  BY <1>2, <1>4, <1>8, <1>16 DEF CompactOK, Making, Removing
<1>18. Active'
  BY <1>8 DEF Active
<1>19. NamesOK'
  <2> SUFFICES ASSUME NEW m \in Names \ renamed PROVE NameOK(m)'
    BY <1>2 DEF NamesOK
  <2>1. NameOK(m)
    BY DEF NamesOK
  <2>2. CASE m # n /\ m # t
    <3>1. \A h : h.name = m => (h \in Handles(list) <=> h \in Handles(list)')
      BY <1>5, <1>12, <2>2
    <3>2. Once(list, m) => Once(list, m)'
      BY <1>5, <1>10
    <3>3. \A r \in leaprel'.rows : r.name = m =>
             \E x \in leaprel.rows : x.name = m /\ (x.attributes = 1 => r.attributes = 1)
      BY <1>2 DEF RowsFrom
    <3> QED BY <1>1, <1>2, <1>8, <1>18, <2>1, <2>2, <3>1, <3>2, <3>3, OthersKeep
  <2>3. CASE m = n
    <3>1. /\ leaprel' = Updated(leaprel, RowsOf(leaprel, n), Described)
          /\ files' = [files EXCEPT ![n].stage = "whole"]
      BY <1>1 DEF CreateHeader
    <3>2. Once(d, n) => Once(list, n)'
      BY <1>10
    <3>3. \A h : h.name = n => (h \in Handles(list)' <=> h \in Handles(d))
      BY <1>4, <1>12
    <3>4. /\ Once(HeaderList(n, filled), n) => Once(list, n)'
          /\ \A h : h.name = n =>
                (h \in Handles(list)' <=> h \in Handles(HeaderList(n, filled)))
      BY <3>2, <3>3 DEF d
    <3> QED BY <1>1, <1>2, <1>4, <1>8, <1>18, <2>3, <3>1, <3>4, HeaderKeepsName
  <2>4. CASE m = t
    <3>1. ~Listed(list, t)'
      BY <1>14, <2>4
    <3>2. Whole(t)' <=> Whole(t)
      BY <1>2, <1>4 DEF Whole
    <3>3. (Whole(t) => \A r \in leaprel.rows : r.name = t => r.attributes = 1)'
      BY <1>2, <2>1, <2>4, <3>2 DEF NameOK, RowsOK, RowsFrom
    <3>4. Faults' = Faults /\ files'[t] = files[t]
      BY <1>2, <1>4 DEF Faults
    <3>5. Faults = {} => files[t].stage # "empty"
      BY <1>1, <1>4, <2>1, <2>4 DEF NameOK, FilesOK
    <3> QED BY <1>8, <1>18, <2>4, <3>1, <3>3, <3>4, <3>5, UnlistedKeeps DEF Removing, Making
  <2> QED BY <2>2, <2>3, <2>4
<1> QED
  BY <1>2, <1>13, <1>15, <1>17, <1>18, <1>19, ActiveKeeps

\* An operator leaves its result half made.
LEMMA AbandonKeeps ==
    ASSUME CatalogueInv, CreateAbandoned
    PROVE  CatalogueInv'
<1> USE DEF CatalogueInv
<1>1. PICK n \in Names : n = op.rel
  BY DEF CreateAbandoned, OpOK, Making
<1>2. /\ op.at = "attributes" /\ op' = Resting("idle") /\ mishaps' = mishaps \cup {"wreck"}
      /\ UNCHANGED <<list, files, hashes, leaprel, walk, pending, made, kept, renamed>>
  BY DEF CreateAbandoned, Finished, disk
<1>3. op' \in OpType /\ op'.at = "idle" /\ op'.rel = NoName /\ op'.compact = FALSE
  <2>1. "idle" \in Phases
    BY DEF Phases
  <2> QED BY <1>2, <2>1, DoingFields DEF Resting
<1>4. Listed(list, n) /\ files[n] # NoFile /\ files[n].stage = "header"
  BY <1>1, <1>2 DEF OpOK
<1>5. Handles(list)' = Handles(list) /\ \A m : Listed(list, m)' <=> Listed(list, m)
  BY <1>2 DEF Handles, Listed
<1>6. CatalogueType'
  <2>1. TypeOK'
    BY <1>2, <1>3 DEF CatalogueType, TypeOK, OpType
  <2> QED BY <1>2, <1>5, <2>1 DEF CatalogueType
<1>7. OpOK' /\ CompactOK'
  BY <1>3 DEF OpOK, CompactOK, Making, Removing, Moving
<1>8. Active /\ Active' /\ \A m \in Names : op'.rel # m
  BY <1>2, <1>3, NameAssumption DEF Active
<1>9. NamesOK'
  <2> SUFFICES ASSUME NEW m \in Names \ renamed PROVE NameOK(m)'
    BY <1>2 DEF NamesOK
  <2>1. NameOK(m)
    BY DEF NamesOK
  <2>2. Once(list, m) => Once(list, m)'
    BY <1>2 DEF Once
  <2>3. CASE m # n
    <3>1. \A r \in leaprel'.rows : r.name = m =>
             \E x \in leaprel.rows : x.name = m /\ (x.attributes = 1 => r.attributes = 1)
      BY <1>2
    <3> QED BY <1>1, <1>2, <1>3, <1>5, <1>8, <2>1, <2>2, <2>3, <3>1, OthersKeep
  <2>4. CASE m = n
    <3>1. Faults' = Faults /\ (Quiet' <=> Quiet)
      BY <1>2 DEF Quiet, Faults
    <3>2. RowsOK(n)'
      BY <1>2, <1>3, <1>4, <1>5 DEF RowsOK, Whole
    <3>3. FilesOK(n)'
      BY <1>2, <1>4 DEF FilesOK
    <3>4. StatusOK(n)'
      BY <1>2, <1>3, <1>5, <2>1, <2>4, <3>1 DEF NameOK, StatusOK
    <3>5. HashOK(n)'
      BY <1>1, <1>2, <1>3, <1>5, <2>1, <2>4, <3>1 DEF NameOK, HashOK, Making
    <3> QED BY <2>1, <2>2, <2>4, <3>2, <3>3, <3>4, <3>5 DEF NameOK
  <2> QED BY <2>3, <2>4
<1>10. WreckOK'
  BY <1>2 DEF WreckOK
<1> QED
  BY <1>6, <1>7, <1>8, <1>9, <1>10, ActiveKeeps

-------------------------------------------------------------------------------
\* Removing a relation.

\* The handle goes, on a command or because the creation is refused.
LEMMA RemovalBegins ==
    ASSUME CatalogueInv, NEW n \in Names, op.at \in {"idle", "attributes", "header"},
           op.rel \in {n, NoName}, Listed(list, n),
           list' = RemoveAt(list, Found(n)),
           op' \in OpType, op'.at = "rows", op'.rel = n, op'.compact = FALSE,
           UNCHANGED <<files, hashes, leaprel, walk, pending, made, kept, renamed, mishaps>>
    PROVE  CatalogueInv'
<1> USE DEF CatalogueInv
<1>1. TypeOK /\ list \in Seq(Handle)
  BY DEF CatalogueType
<1>2. PICK p \in DOMAIN list : p = Found(n) /\ list[p].name = n
  BY <1>1, FoundIsThere, ListedIsNamed
<1>3. /\ list' \in Seq(Handle)
      /\ Handles(list') \subseteq Handles(list)
      /\ \A h \in Handles(list) : h.name # n => h \in Handles(list')
      /\ \A m : Once(list, m) => Once(list', m)
      /\ Once(list, n) => ~Listed(list', n)
  BY <1>1, <1>2, RemovedList
<1>4. Handles(list)' = Handles(list')
  BY DEF Handles
<1>5. CatalogueType'
  <2>1. \A i \in DOMAIN list' : list'[i] \in Handle
    BY <1>3
  <2>2. TypeOK'
    BY <1>1, <2>1 DEF TypeOK, OpType
  <2> QED BY <1>3, <1>4, <2>2 DEF CatalogueType
<1>6. n \notin renamed => ~Listed(list', n)
  BY <1>3 DEF NamesOK, NameOK
<1>7. OpOK' /\ CompactOK'
  BY <1>6 DEF OpOK, CompactOK, Making, Removing, Moving
<1>8. Active /\ Active'
  BY DEF Active
<1>9. NamesOK'
  <2> SUFFICES ASSUME NEW m \in Names \ renamed PROVE NameOK(m)'
    BY DEF NamesOK
  <2>1. NameOK(m)
    BY DEF NamesOK
  <2>2. CASE m # n
    <3>1. \A r \in leaprel'.rows : r.name = m =>
             \E x \in leaprel.rows : x.name = m /\ (x.attributes = 1 => r.attributes = 1)
      OBVIOUS
    <3>2. op.rel # m /\ op'.rel # m
      BY <2>2, NameAssumption
    <3>3. \A h : h.name = m => (h \in Handles(list) <=> h \in Handles(list)')
      BY <1>3, <1>4, <2>2
    <3>4. Once(list, m) => Once(list, m)'
      BY <1>3
    <3> QED BY <1>8, <2>1, <3>1, <3>2, <3>3, <3>4, OthersKeep
  <2>3. CASE m = n
    <3>1. ~Listed(list, n)'
      BY <1>6, <2>3
    <3>2. (Whole(n) => \A r \in leaprel.rows : r.name = n => r.attributes = 1)'
      BY <2>1, <2>3 DEF NameOK, RowsOK, Whole
    <3>3. Faults' = Faults
      BY DEF Faults
    <3>4. ~(Faults = {} /\ files[n] # NoFile /\ files[n].stage = "empty")
      BY <2>1, <2>3 DEF NameOK, FilesOK
    <3> QED BY <1>8, <2>3, <3>1, <3>2, <3>3, <3>4, UnlistedKeeps DEF Removing, Making
  <2> QED BY <2>2, <2>3
<1>10. WreckOK'
  BY NameAssumption DEF WreckOK
<1> QED
  BY <1>5, <1>7, <1>8, <1>9, <1>10, ActiveKeeps

\* The creation is refused.
LEMMA RefuseKeeps ==
    ASSUME CatalogueInv, CreateRefused
    PROVE  CatalogueInv'
<1>1. PICK n \in Names : n = op.rel
  BY DEF CreateRefused, CatalogueInv, OpOK, Making
<1>2. /\ op.at \in {"attributes", "header"} /\ op.compact = FALSE
      /\ list' = RemoveAt(list, Found(n)) /\ op' = [op EXCEPT !.at = "rows"]
      /\ UNCHANGED <<files, hashes, leaprel, walk, pending, made, kept, renamed, mishaps>>
  BY <1>1, OpFields DEF CreateRefused, Onward, disk, CatalogueInv, CatalogueType
<1>3. Listed(list, n)
  BY <1>1, <1>2 DEF CatalogueInv, OpOK
<1>4. op' \in OpType /\ op'.at = "rows" /\ op'.rel = n /\ op'.compact = FALSE
  <2>1. "rows" \in Phases
    BY DEF Phases
  <2> QED BY <1>1, <1>2, <2>1, OpFields, OnwardFields DEF CatalogueInv, CatalogueType
<1> QED
  BY <1>1, <1>2, <1>3, <1>4, RemovalBegins

\* relation_remove.
LEMMA RemoveKeeps ==
    ASSUME CatalogueInv, NEW n \in Names, relation_remove(n)
    PROVE  CatalogueInv'
<1>1. /\ op.at = "idle" /\ Named(n) # {}
      /\ list' = RemoveAt(list, Found(n)) /\ op' = Doing("rows", n)
      /\ UNCHANGED <<files, hashes, leaprel, walk, pending, made, kept, renamed, mishaps>>
  BY DEF relation_remove, Idle, disk
<1>2. Listed(list, n) /\ op.rel = NoName
  BY <1>1, ListedIsNamed DEF CatalogueInv, OpOK
<1>3. op' \in OpType /\ op'.at = "rows" /\ op'.rel = n /\ op'.compact = FALSE
  <2>1. "rows" \in Phases
    BY DEF Phases
  <2> QED BY <1>1, <2>1, DoingFields
<1> QED
  BY <1>1, <1>2, <1>3, RemovalBegins

\* Its rows.
LEMMA RemoveRowsKeeps ==
    ASSUME CatalogueInv, RemoveRows
    PROVE  CatalogueInv'
<1> USE DEF CatalogueInv
<1>1. PICK n \in Names : n = op.rel
  BY DEF RemoveRows, OpOK, Removing
<1>2. /\ op.at = "rows" /\ leaprel' = Erased(leaprel, RowsOf(leaprel, n))
      /\ op' = [op EXCEPT !.at = "file"]
      /\ UNCHANGED <<list, files, hashes, walk, pending, made, kept, renamed, mishaps>>
  BY <1>1 DEF RemoveRows, Onward
<1>3. TypeOK /\ DictionaryOK(leaprel)
  BY DEF CatalogueType
<1>4. /\ DictionaryOK(leaprel') /\ leaprel'.rows = leaprel.rows \ RowsOf(leaprel, n)
      /\ Known(leaprel') = Known(leaprel) \ RowsOf(leaprel, n)
  BY <1>2, <1>3, RowNames, ErasedRows
<1>5. /\ op' \in OpType /\ op'.at = "file" /\ op'.rel = n /\ op'.to = op.to
      /\ op'.compact = op.compact
  <2>1. "file" \in Phases
    BY DEF Phases
  <2> QED BY <1>1, <1>2, <1>3, <2>1, OpFields, OnwardFields
<1>6. Handles(list)' = Handles(list) /\ \A m : Listed(list, m)' <=> Listed(list, m)
  BY <1>2 DEF Handles, Listed
<1>7. CatalogueType'
  <2>1. TypeOK'
    BY <1>2, <1>3, <1>4, <1>5 DEF TypeOK, OpType, DictionaryOK
  <2> QED BY <1>2, <1>4, <1>6, <2>1 DEF CatalogueType
<1>8. OpOK'
  BY <1>1, <1>2, <1>5, <1>6 DEF OpOK, Making, Removing, Moving
<1>9. CompactOK'
  BY <1>1, <1>2, <1>5, <1>6 DEF CompactOK, Making, Removing
<1>10. Active /\ Active'
  BY <1>2, <1>5 DEF Active
<1>11. NamesOK'
  <2> SUFFICES ASSUME NEW m \in Names \ renamed PROVE NameOK(m)'
    BY <1>2 DEF NamesOK
  <2>1. NameOK(m)
    BY DEF NamesOK
  <2>2. CASE m # n
    <3>1. \A r \in leaprel'.rows : r.name = m =>
             \E x \in leaprel.rows : x.name = m /\ (x.attributes = 1 => r.attributes = 1)
      BY <1>4
    <3>2. m \in Mentioned(leaprel) => m \in Mentioned(leaprel')
      BY <1>4, <2>2 DEF Mentioned, NamesIn, RowsOf
    <3>3. Once(list, m) => Once(list, m)'
      BY <1>2 DEF Once
    <3> QED BY <1>1, <1>2, <1>5, <1>6, <1>10, <2>1, <2>2, <3>1, <3>2, <3>3, OthersKeep
  <2>3. CASE m = n
    <3>1. ~Listed(list, n)'
      BY <1>1, <1>2, <1>6, <2>3 DEF OpOK, Removing
    <3>2. \A r \in leaprel'.rows : r.name # n
      BY <1>4 DEF RowsOf
    <3>3. n \notin NamesIn(leaprel'.rows)
      BY <3>2 DEF NamesIn
    <3>4. Faults' = Faults
      BY <1>2 DEF Faults
    <3>5. ~(Faults = {} /\ files[n] # NoFile /\ files[n].stage = "empty")
      BY <1>2, <2>1, <2>3 DEF NameOK, FilesOK
    <3> QED BY <1>2, <1>5, <1>10, <2>3, <3>1, <3>2, <3>3, <3>4, <3>5, UnlistedKeeps
            DEF Removing, Making
  <2> QED BY <2>2, <2>3
<1>12. WreckOK'
  BY <1>1, <1>2, <1>5 DEF WreckOK
<1> QED
  BY <1>7, <1>8, <1>9, <1>10, <1>11, <1>12, ActiveKeeps

\* Its file.
LEMMA RemoveFileKeeps ==
    ASSUME CatalogueInv, RemoveFile
    PROVE  CatalogueInv'
<1> USE DEF CatalogueInv
<1>1. PICK n \in Names : n = op.rel
  BY DEF RemoveFile, OpOK, Removing
<1>2. /\ op.at = "file" /\ files' = [files EXCEPT ![n] = NoFile]
      /\ op' = [op EXCEPT !.at = "hash"]
      /\ UNCHANGED <<list, hashes, leaprel, walk, pending, made, kept, renamed, mishaps>>
  BY <1>1 DEF RemoveFile, Onward
<1>3. TypeOK /\ DictionaryOK(leaprel)
  BY DEF CatalogueType
<1>4. /\ files' \in [Names -> Files \cup {NoFile}] /\ files'[n] = NoFile
      /\ \A m \in Names : m # n => files'[m] = files[m]
  BY <1>2, <1>3 DEF TypeOK
<1>5. /\ op' \in OpType /\ op'.at = "hash" /\ op'.rel = n /\ op'.to = op.to
      /\ op'.compact = op.compact
  <2>1. "hash" \in Phases
    BY DEF Phases
  <2> QED BY <1>1, <1>2, <1>3, <2>1, OpFields, OnwardFields
<1>6. Handles(list)' = Handles(list) /\ \A m : Listed(list, m)' <=> Listed(list, m)
  BY <1>2 DEF Handles, Listed
<1>7. CatalogueType'
  <2>1. TypeOK'
    BY <1>2, <1>3, <1>4, <1>5 DEF TypeOK, OpType
  <2> QED BY <1>2, <1>6, <2>1 DEF CatalogueType
<1>8. OpOK'
  BY <1>1, <1>2, <1>5, <1>6 DEF OpOK, Making, Removing, Moving
<1>9. CompactOK'
  <2>1. op.compact => op.to # n /\ op.to \in Names /\ op.to = Temp
    BY <1>1, <1>2 DEF CompactOK, Removing
  <2> QED BY <1>1, <1>2, <1>4, <1>5, <1>6, <2>1 DEF CompactOK, Making, Removing
<1>10. Active /\ Active'
  BY <1>2, <1>5 DEF Active
<1>11. NamesOK'
  <2> SUFFICES ASSUME NEW m \in Names \ renamed PROVE NameOK(m)'
    BY <1>2 DEF NamesOK
  <2>1. NameOK(m)
    BY DEF NamesOK
  <2>2. CASE m # n
    <3>1. \A r \in leaprel'.rows : r.name = m =>
             \E x \in leaprel.rows : x.name = m /\ (x.attributes = 1 => r.attributes = 1)
      BY <1>2
    <3>2. Once(list, m) => Once(list, m)'
      BY <1>2 DEF Once
    <3> QED BY <1>1, <1>2, <1>4, <1>5, <1>6, <1>10, <2>1, <2>2, <3>1, <3>2, OthersKeep
  <2>3. CASE m = n
    <3>1. ~Listed(list, n) /\ ~Listed(list, n)'
      BY <1>1, <1>2, <1>6, <2>3 DEF OpOK, Removing
    <3>2. n \notin NamesIn(leaprel'.rows)
      BY <1>2, <1>10, <2>1, <2>3, <3>1 DEF NameOK, RowsOK
    <3>3. ~Whole(n)'
      BY <1>4 DEF Whole
    <3> QED BY <1>4, <1>5, <1>10, <2>3, <3>1, <3>2, <3>3, UnlistedKeeps DEF Removing, Making
  <2> QED BY <2>2, <2>3
<1>12. WreckOK'
  BY <1>1, <1>2, <1>4, NoMoreWrecks
<1> QED
  BY <1>7, <1>8, <1>9, <1>10, <1>11, <1>12, ActiveKeeps

\* Its hash file; rl_compact goes on with its copy.
LEMMA RemoveHashKeeps ==
    ASSUME CatalogueInv, RemoveHash
    PROVE  CatalogueInv'
<1> USE DEF CatalogueInv
<1>1. PICK n \in Names : n = op.rel
  BY DEF RemoveHash, OpOK, Removing
<1>2. /\ op.at = "hash" /\ hashes' = [hashes EXCEPT ![n] = NoFile]
      /\ UNCHANGED <<list, files, leaprel, walk, pending, made, kept, renamed, mishaps>>
  BY <1>1 DEF RemoveHash
<1>3. TypeOK /\ DictionaryOK(leaprel) /\ op \in OpType
  BY OpFields DEF CatalogueType
<1>4. /\ hashes' \in [Names -> Versions \cup {NoFile}] /\ hashes'[n] = NoFile
      /\ \A m \in Names : m # n => hashes'[m] = hashes[m]
  BY <1>2, <1>3 DEF TypeOK
<1>5. op.compact => /\ op.to \in Names /\ op.to = Temp /\ op.to # n
                    /\ Listed(list, Temp) /\ files[Temp] # NoFile
  BY <1>1, <1>2 DEF CompactOK, Removing
<1>6. /\ op' \in OpType /\ op'.rel # n
      /\ \/ op'.at = "idle" /\ op'.rel = NoName /\ ~op'.compact
         \/ op'.at = "moving" /\ op'.rel = Temp /\ op'.to = n /\ op'.compact /\ op.compact
  <2>1. CASE op.compact
    <3>1. op' = [op EXCEPT !.at = "moving", !.rel = op.to, !.to = n]
      BY <1>1, <2>1 DEF RemoveHash
    <3> QED BY <1>3, <1>5, <2>1, <3>1 DEF OpType, Phases
  <2>2. CASE ~op.compact
    <3>1. op' = Resting("idle") /\ "idle" \in Phases
      BY <2>2 DEF RemoveHash, Finished, Phases
    <3> QED BY <3>1, DoingFields, NameAssumption DEF Resting
  <2> QED BY <2>1, <2>2
<1>7. Handles(list)' = Handles(list) /\ \A m : Listed(list, m)' <=> Listed(list, m)
  BY <1>2 DEF Handles, Listed
<1>8. CatalogueType'
  <2>1. TypeOK'
    BY <1>2, <1>3, <1>4, <1>6 DEF TypeOK, OpType
  <2> QED BY <1>2, <1>7, <2>1 DEF CatalogueType
<1>9. OpOK'
  BY <1>6, NameAssumption DEF OpOK, Making, Removing, Moving
<1>10. CompactOK'
  BY <1>2, <1>5, <1>6, <1>7, NameAssumption DEF CompactOK, Making, Removing
<1>11. Active /\ Active' /\ op'.at \notin Making \cup Removing
  BY <1>2, <1>6 DEF Active, Making, Removing
<1>12. NamesOK'
  <2> SUFFICES ASSUME NEW m \in Names \ renamed PROVE NameOK(m)'
    BY <1>2 DEF NamesOK
  <2>1. NameOK(m)
    BY DEF NamesOK
  <2>2. CASE m # n
    <3>1. \A r \in leaprel'.rows : r.name = m =>
             \E x \in leaprel.rows : x.name = m /\ (x.attributes = 1 => r.attributes = 1)
      BY <1>2
    <3>2. Once(list, m) => Once(list, m)'
      BY <1>2 DEF Once
    <3> QED BY <1>1, <1>2, <1>4, <1>7, <1>11, <2>1, <2>2, <3>1, <3>2, OthersKeep
  <2>3. CASE m = n
    <3>1. ~Listed(list, n) /\ ~Listed(list, n)'
      BY <1>1, <1>2, <1>7, <2>3 DEF OpOK, Removing
    <3>2. n \notin NamesIn(leaprel'.rows)
      BY <1>2, <1>11, <2>1, <2>3, <3>1 DEF NameOK, RowsOK
    <3>3. (Whole(n) => \A r \in leaprel.rows : r.name = n => r.attributes = 1)'
      BY <1>2, <2>1, <2>3 DEF NameOK, RowsOK, Whole
    <3>4. Faults' = Faults
      BY <1>2 DEF Faults
    <3>5. ~(Faults = {} /\ files[n] # NoFile /\ files[n].stage = "empty")
      BY <1>2, <2>1, <2>3 DEF NameOK, FilesOK
    <3>6. ~(Faults = {} /\ files[n] # NoFile /\ files[n].temp)
      BY <1>2, <2>1, <2>3, <3>1 DEF NameOK, StatusOK, Listed
    <3> QED BY <1>2, <1>4, <1>6, <1>11, <2>3, <3>1, <3>2, <3>3, <3>4, <3>5, <3>6, UnlistedKeeps
            DEF Removing, Making
  <2> QED BY <2>2, <2>3
<1>13. WreckOK'
  BY <1>1, <1>2, NoMoreWrecks
<1> QED
  BY <1>8, <1>9, <1>10, <1>11, <1>12, <1>13, ActiveKeeps

-------------------------------------------------------------------------------
\* Renaming a relation.

\* The file is moved, by relation_rename or by rl_compact.
LEMMA MoveKeeps ==
    ASSUME CatalogueInv, NEW n \in Names, NEW m \in Names, n # m, files[n] # NoFile,
           Listed(list, n), op.at \in {"idle", "moving"}, op.rel \in {n, NoName},
           MoveFile(n, m), renamed' = renamed \cup {n, m},
           op' \in OpType, op'.at = "renaming", op'.rel = n, op'.to = m,
           op'.compact => Temp \in {n, m}
    PROVE  CatalogueInv'
<1> USE DEF CatalogueInv
<1>1. /\ files' = [files EXCEPT ![m] = files[n], ![n] = NoFile]
      /\ UNCHANGED <<list, hashes, leaprel, walk, pending, made, kept, mishaps>>
  BY DEF MoveFile
<1>2. TypeOK
  BY DEF CatalogueType
<1>3. /\ files' \in [Names -> Files \cup {NoFile}]
      /\ files'[m] = files[n] /\ files'[n] = NoFile
      /\ \A k \in Names : k # n /\ k # m => files'[k] = files[k]
  BY <1>1, <1>2 DEF TypeOK
<1>4. Handles(list)' = Handles(list) /\ \A k : Listed(list, k)' <=> Listed(list, k)
  BY <1>1 DEF Handles, Listed
<1>5. CatalogueType'
  <2>1. TypeOK'
    BY <1>1, <1>2, <1>3 DEF TypeOK, OpType
  <2> QED BY <1>1, <1>4, <2>1 DEF CatalogueType
<1>6. OpOK'
  BY <1>4 DEF OpOK, Making, Removing, Moving
<1>7. CompactOK'
  BY <1>3 DEF CompactOK, Making, Removing
<1>8. Active /\ Active' /\ op.at \notin Making \cup Removing /\ op'.at \notin Making \cup Removing
  BY DEF Active, Making, Removing
<1>9. NamesOK'
  <2> SUFFICES ASSUME NEW k \in Names \ (renamed \cup {n, m}) PROVE NameOK(k)'
    BY DEF NamesOK
  <2>1. NameOK(k)
    BY DEF NamesOK
  <2>2. \A r \in leaprel'.rows : r.name = k =>
           \E x \in leaprel.rows : x.name = k /\ (x.attributes = 1 => r.attributes = 1)
    BY <1>1
  <2>3. Once(list, k) => Once(list, k)'
    BY <1>1 DEF Once
  <2> QED BY <1>1, <1>3, <1>4, <1>8, <2>1, <2>2, <2>3, OthersKeep
<1>10. WreckOK'
  <2>1. mishaps \cap {"crash", "signal", "wreck"} = {} =>
           \A k \in Names : ~(files[k] # NoFile /\ files[k].stage = "header")
    BY DEF WreckOK
  <2>2. \A k \in Names : k = n \/ k = m \/ files'[k] = files[k]
    BY <1>3
  <2> QED BY <1>1, <1>3, <2>1, <2>2 DEF WreckOK
<1> QED
  BY <1>5, <1>6, <1>7, <1>8, <1>9, <1>10, ActiveKeeps

\* relation_rename.
LEMMA RenameKeeps ==
    ASSUME CatalogueInv, NEW n \in Names, NEW m \in Names, relation_rename(n, m)
    PROVE  CatalogueInv'
<1>1. /\ op.at = "idle" /\ Named(n) # {} /\ n # m /\ files[n] # NoFile
      /\ MoveFile(n, m) /\ renamed' = renamed \cup {n, m}
      /\ op' = [Doing("renaming", n) EXCEPT !.to = m]
  BY DEF relation_rename, Idle
<1>2. Listed(list, n) /\ op.rel = NoName
  BY <1>1, ListedIsNamed DEF CatalogueInv, OpOK
<1>3. op' = [at |-> "renaming", rel |-> n, to |-> m, temp |-> FALSE, compact |-> FALSE]
  BY <1>1 DEF Doing
<1>4. op' \in OpType /\ op'.at = "renaming" /\ op'.rel = n /\ op'.to = m /\ ~op'.compact
  BY <1>3 DEF OpType, Phases
<1> QED
  BY <1>1, <1>2, <1>4, MoveKeeps

\* rl_compact gives its copy the name of the original.
LEMMA CompactMoveKeeps ==
    ASSUME CatalogueInv, CompactMove
    PROVE  CatalogueInv'
<1>1. /\ op.at = "moving" /\ MoveFile(op.rel, op.to) /\ renamed' = renamed \cup {op.rel, op.to}
      /\ op' = [op EXCEPT !.at = "renaming"]
  BY DEF CompactMove, Onward
<1>2. PICK n \in Names, m \in Names : n = op.rel /\ m = op.to
  BY <1>1 DEF CatalogueInv, CompactOK
<1>3. n # m /\ n = Temp /\ Listed(list, n) /\ files[n] # NoFile
  BY <1>1, <1>2 DEF CatalogueInv, CompactOK
<1>4. op' \in OpType /\ op'.at = "renaming" /\ op'.rel = n /\ op'.to = m
  <2>1. "renaming" \in Phases
    BY DEF Phases
  <2> QED BY <1>1, <1>2, <2>1, OpFields, OnwardFields DEF CatalogueInv, CatalogueType
<1> QED
  BY <1>1, <1>2, <1>3, <1>4, MoveKeeps

\* The hash file is moved, and the handle gets the new name.
LEMMA RenameHashKeeps ==
    ASSUME CatalogueInv, RenameHash
    PROVE  CatalogueInv'
<1> USE DEF CatalogueInv
<1>1. PICK n \in Names, m \in Names : n = op.rel /\ m = op.to /\ {n, m} \subseteq renamed
  BY DEF RenameHash, OpOK
<1>2. /\ op.at = "renaming"
      /\ hashes' = IF hashes[n] = NoFile THEN hashes
                   ELSE [hashes EXCEPT ![m] = hashes[n], ![n] = NoFile]
      /\ list' = [list EXCEPT ![Found(n)].name = m]
      /\ UNCHANGED <<files, leaprel, walk, pending, made, kept, renamed, mishaps>>
  BY <1>1 DEF RenameHash
<1>3. TypeOK /\ op \in OpType /\ list \in Seq(Handle)
  BY OpFields DEF CatalogueType
<1>4. PICK p \in DOMAIN list : /\ p = Found(n) /\ list[p].name = n
                               /\ list[p] \in Handles(list) /\ list[p] \in Handle
  BY <1>1, <1>2, <1>3, FoundIsThere, ListedIsNamed DEF OpOK
<1> DEFINE g == [list[p] EXCEPT !.name = m]
<1>5. /\ g \in Handle /\ g.name = m /\ g.updated = list[p].updated /\ g.table = list[p].table
      /\ list' = [list EXCEPT ![p] = g]
  BY <1>2, <1>4 DEF Handle
<1> HIDE DEF g
<1>6. /\ list' \in Seq(Handle)
      /\ Handles(list') \subseteq Handles(list) \cup {g}
      /\ g \in Handles(list')
      /\ \A h \in Handles(list) : h.name # n => h \in Handles(list')
      /\ \A k : k # m /\ Once(list, k) => Once(list', k)
  <2> DEFINE u == [list EXCEPT ![p] = g]
  <2>1. /\ u \in Seq(Handle)
        /\ Handles(u) \subseteq Handles(list) \cup {g}
        /\ g \in Handles(u)
        /\ \A h \in Handles(list) : h.name # list[p].name => h \in Handles(u)
        /\ \A k : k # g.name /\ Once(list, k) => Once(u, k)
    BY <1>3, <1>5, RenamedList
  <2> HIDE DEF u
  <2> QED BY <1>4, <1>5, <2>1 DEF u
<1>7. Handles(list)' = Handles(list')
  BY DEF Handles
<1>8. /\ hashes' \in [Names -> Versions \cup {NoFile}]
      /\ \A k \in Names : k # n /\ k # m => hashes'[k] = hashes[k]
  BY <1>2, <1>3 DEF TypeOK
<1>9. /\ op' \in OpType
      /\ \/ op'.at = "idle" /\ op'.rel = NoName /\ ~op'.compact
         \/ op'.at = "retitling" /\ op'.rel = n /\ op'.to = m /\ op'.compact /\ op.compact
  <2>1. CASE op.compact
    <3>1. op' = [op EXCEPT !.at = "retitling"] /\ "retitling" \in Phases
      BY <2>1 DEF RenameHash, Onward, Phases
    <3> QED BY <1>1, <1>3, <2>1, <3>1, OnwardFields
  <2>2. CASE ~op.compact
    <3>1. op' = Resting("idle") /\ "idle" \in Phases
      BY <2>2 DEF RenameHash, Finished, Phases
    <3> QED BY <3>1, DoingFields DEF Resting
  <2> QED BY <2>1, <2>2
<1>10. CatalogueType'
  <2>1. \A i \in DOMAIN list' : list'[i] \in Handle
    BY <1>6
  <2>2. TypeOK'
    BY <1>2, <1>3, <1>8, <1>9, <2>1 DEF TypeOK, OpType
  <2>3. \A h \in Handles(list)' : h.updated => h.table \in Versions
    BY <1>4, <1>5, <1>6, <1>7 DEF CatalogueType
  <2> QED BY <1>2, <1>6, <2>2, <2>3 DEF CatalogueType
<1>11. OpOK'
  BY <1>9 DEF OpOK, Making, Removing, Moving
<1>12. CompactOK'
  <2>1. Listed(list', m)
    BY <1>5, <1>6 DEF Listed
  <2> QED BY <1>1, <1>2, <1>9, <2>1 DEF CompactOK, Making, Removing
<1>13. Active /\ Active' /\ op.at \notin Making \cup Removing /\ op'.at \notin Making \cup Removing
  BY <1>2, <1>9 DEF Active, Making, Removing
<1>14. NamesOK'
  <2> SUFFICES ASSUME NEW k \in Names \ renamed PROVE NameOK(k)'
    BY <1>2 DEF NamesOK
  <2>1. NameOK(k) /\ k # n /\ k # m
    BY <1>1 DEF NamesOK
  <2>2. \A r \in leaprel'.rows : r.name = k =>
           \E x \in leaprel.rows : x.name = k /\ (x.attributes = 1 => r.attributes = 1)
    BY <1>2
  <2>3. Once(list, k) => Once(list, k)'
    BY <1>6, <2>1
  <2>4. \A h : h.name = k => (h \in Handles(list) <=> h \in Handles(list)')
    BY <1>5, <1>6, <1>7, <2>1
  <2> QED BY <1>2, <1>8, <1>13, <2>1, <2>2, <2>3, <2>4, OthersKeep
<1>15. WreckOK'
  BY <1>2, NoMoreWrecks
<1> QED
  BY <1>10, <1>11, <1>12, <1>13, <1>14, <1>15, ActiveKeeps

\* The list, when the handle of a relation was changed, but not its name.
LEMMA HandleChanged ==
    ASSUME list \in Seq(Handle), NEW n \in Names, Listed(list, n), NEW g \in Handle, g.name = n,
           list' = [list EXCEPT ![Found(n)] = g]
    PROVE  /\ list' \in Seq(Handle)
           /\ Handles(list)' \subseteq Handles(list) \cup {g}
           /\ g \in Handles(list)'
           /\ \A h : h.name # n => (h \in Handles(list) <=> h \in Handles(list)')
           /\ \A m : Listed(list, m)' <=> Listed(list, m)
           /\ \A m : Once(list, m) => Once(list, m)'
           /\ Once(list, n) => /\ \A h \in Handles(list)' : h.name = n => h = g
                               /\ \A h \in Handles(list) : h.name = n => h = list[Found(n)]
<1>1. PICK p \in DOMAIN list : /\ p = Found(n) /\ list[p].name = n
                               /\ list[p] \in Handles(list) /\ list[p] \in Handle
  BY FoundIsThere, ListedIsNamed
<1>2. /\ list' \in Seq(Handle)
      /\ Handles(list') \subseteq Handles(list) \cup {g}
      /\ g \in Handles(list')
      /\ \A h \in Handles(list) : h.name # n => h \in Handles(list')
      /\ \A m : Listed(list', m) <=> Listed(list, m)
      /\ \A m : Once(list, m) => Once(list', m)
      /\ Once(list, n) => \A h \in Handles(list') : h.name = n => h = g
  <2> DEFINE u == [list EXCEPT ![p] = g]
  <2>1. /\ u \in Seq(Handle)
        /\ Handles(u) \subseteq Handles(list) \cup {g}
        /\ g \in Handles(u)
        /\ \A h \in Handles(list) : h.name # g.name => h \in Handles(u)
        /\ \A m : Listed(u, m) <=> Listed(list, m)
        /\ \A m : Once(list, m) => Once(u, m)
        /\ Once(list, g.name) => \A h \in Handles(u) : h.name = g.name => h = g
    BY <1>1, ChangedList
  <2>2. list' = u
    BY <1>1
  <2> HIDE DEF u
  <2> QED BY <2>1, <2>2
<1>3. Handles(list)' = Handles(list')
  BY DEF Handles
<1>4. \A m : Listed(list, m)' <=> Listed(list', m)
  BY <1>3 DEF Listed
<1>5. \A m : Once(list, m)' <=> Once(list', m)
  BY DEF Once
<1>6. Once(list, n) => \A h \in Handles(list) : h.name = n => h = list[p]
  BY <1>1 DEF Once, Handles
<1> QED
  BY <1>1, <1>2, <1>3, <1>4, <1>5, <1>6

\* rl_compact writes the name and the status of the original into the copy.
LEMMA CompactTitleKeeps ==
    ASSUME CatalogueInv, CompactTitle
    PROVE  CatalogueInv'
<1> USE DEF CatalogueInv
<1>1. PICK n \in Names : /\ n = op.to /\ n \in renamed /\ Listed(list, n) /\ files[n] # NoFile
  BY DEF CompactTitle, CompactOK
<1>2. /\ op.at = "retitling"
      /\ files' = [files EXCEPT ![n].title = n, ![n].temp = op.temp]
      /\ list' = [list EXCEPT ![Found(n)].temp = Flag(op.temp)]
      /\ leaprel' = Updated(leaprel, RowsOf(leaprel, n), Described)
      /\ op' = Resting("idle")
      /\ UNCHANGED <<hashes, walk, pending, made, kept, renamed, mishaps>>
  BY <1>1 DEF CompactTitle, Finished
<1>3. TypeOK /\ DictionaryOK(leaprel) /\ list \in Seq(Handle) /\ op.temp \in BOOLEAN
  BY OpFields DEF CatalogueType
<1> DEFINE f == [files[n] EXCEPT !.title = n, !.temp = op.temp]
<1>4. files[n] \in Files /\ f \in Files /\ f.stage = files[n].stage /\ f # NoFile
  <2>1. files[n] \in Files
    BY <1>1, <1>3, FileIsThere
  <2>2. f \in Files /\ f.stage = files[n].stage
    BY <1>3, <2>1 DEF Files
  <2> QED BY <2>1, <2>2, MarkAssumption
<1>5. files' = [files EXCEPT ![n] = f]
  BY <1>2, <1>3 DEF TypeOK
<1> HIDE DEF f
<1>6. /\ files' \in [Names -> Files \cup {NoFile}]
      /\ files'[n] = f
      /\ \A m \in Names : m # n => files'[m] = files[m]
  BY <1>3, <1>4, <1>5 DEF TypeOK
<1>7. /\ DictionaryOK(leaprel') /\ RowsFrom(leaprel', leaprel)
      /\ \A m : m \in Mentioned(leaprel) => m \in Mentioned(leaprel')
  BY <1>2, <1>3, DescribedRows
<1>8. list[Found(n)].name = n /\ list[Found(n)] \in Handles(list) /\ list[Found(n)] \in Handle
  BY <1>1, <1>3, FoundIsThere, ListedIsNamed
<1> DEFINE g == [list[Found(n)] EXCEPT !.temp = Flag(op.temp)]
<1>9. /\ g \in Handle /\ g.name = n /\ g.updated = list[Found(n)].updated
      /\ g.table = list[Found(n)].table
      /\ list' = [list EXCEPT ![Found(n)] = g]
  <2>1. Flag(op.temp) \in 0 .. 2
    BY DEF Flag
  <2> QED BY <1>2, <1>8, <2>1 DEF Handle
<1> HIDE DEF g
<1>10. /\ list' \in Seq(Handle)
       /\ Handles(list)' \subseteq Handles(list) \cup {g}
       /\ \A h : h.name # n => (h \in Handles(list) <=> h \in Handles(list)')
       /\ \A m : Once(list, m) => Once(list, m)'
  BY <1>1, <1>3, <1>9, HandleChanged
<1>11. op' \in OpType /\ op'.at = "idle" /\ op'.rel = NoName /\ op'.compact = FALSE
  <2>1. "idle" \in Phases
    BY DEF Phases
  <2> QED BY <1>2, <2>1, DoingFields DEF Resting
<1>12. CatalogueType'
  <2>1. \A i \in DOMAIN list' : list'[i] \in Handle
    BY <1>10
  <2>2. TypeOK'
    BY <1>2, <1>3, <1>6, <1>7, <1>11, <2>1 DEF TypeOK, OpType, DictionaryOK
  <2>3. \A h \in Handles(list)' : h.updated => h.table \in Versions
    BY <1>8, <1>9, <1>10 DEF CatalogueType
  <2> QED BY <1>7, <1>10, <2>2, <2>3 DEF CatalogueType
<1>13. OpOK' /\ CompactOK'
  BY <1>11 DEF OpOK, CompactOK, Making, Removing, Moving
<1>14. Active /\ Active' /\ op.at \notin Making \cup Removing /\ op'.at \notin Making \cup Removing
  BY <1>2, <1>11 DEF Active, Making, Removing
<1>15. NamesOK'
  <2> SUFFICES ASSUME NEW m \in Names \ renamed PROVE NameOK(m)'
    BY <1>2 DEF NamesOK
  <2>1. NameOK(m) /\ m # n
    BY <1>1 DEF NamesOK
  <2>2. \A r \in leaprel'.rows : r.name = m =>
           \E x \in leaprel.rows : x.name = m /\ (x.attributes = 1 => r.attributes = 1)
    BY <1>7 DEF RowsFrom
  <2>3. \A h : h.name = m => (h \in Handles(list) <=> h \in Handles(list)')
    BY <1>10, <2>1
  <2> QED BY <1>2, <1>6, <1>7, <1>10, <1>14, <2>1, <2>2, <2>3, OthersKeep
<1>16. WreckOK'
  <2>1. \A k \in Names : k = n \/ files'[k] = files[k]
    BY <1>6
  <2> QED BY <1>1, <1>2, <1>4, <1>6, <2>1, NoMoreWrecks
<1> QED
  BY <1>12, <1>13, <1>14, <1>15, <1>16, ActiveKeeps

-------------------------------------------------------------------------------
\* Changing a relation.

\* relation_change.
LEMMA ChangeKeeps ==
    ASSUME CatalogueInv, NEW n \in Names, relation_change(n)
    PROVE  CatalogueInv'
<1> USE DEF CatalogueInv
<1> DEFINE f == files[n]
           t == f.title
           e == [f EXCEPT !.temp = ~f.temp]
           g == [list[Found(n)] EXCEPT !.temp = Flag(list[Found(n)].temp = 0)]
<1>1. /\ op.at = "idle" /\ Named(n) # {} /\ f # NoFile /\ f.stage # "empty"
      /\ files' = [files EXCEPT ![n].temp = ~f.temp]
      /\ leaprel' = Updated(leaprel, RowsOf(leaprel, t), Described)
      /\ op' = [Doing("changing", t) EXCEPT !.temp = ~f.temp]
      /\ list' = [list EXCEPT ![Found(n)].temp = Flag(list[Found(n)].temp = 0)]
      /\ UNCHANGED <<hashes, walk, pending, made, kept, renamed, mishaps>>
  BY DEF relation_change, Idle
<1>2. TypeOK /\ DictionaryOK(leaprel) /\ list \in Seq(Handle)
  BY DEF CatalogueType
<1>3. Listed(list, n)
  BY <1>1, ListedIsNamed
<1>4. /\ f \in Files /\ t \in Names /\ f.temp \in BOOLEAN
      /\ e \in Files /\ e.temp = ~f.temp /\ e.stage = f.stage /\ e.version = f.version
      /\ e # NoFile /\ files' = [files EXCEPT ![n] = e]
  <2>1. f \in Files
    BY <1>1, <1>2, FileIsThere
  <2>2. t \in Names /\ f.temp \in BOOLEAN
    BY <2>1, FileFields
  <2>3. e \in Files /\ e.temp = ~f.temp /\ e.stage = f.stage /\ e.version = f.version
    BY <2>1 DEF Files
  <2>4. files' = [files EXCEPT ![n] = e]
    BY <1>1, <1>2 DEF TypeOK
  <2> QED BY <2>1, <2>2, <2>3, <2>4, MarkAssumption
<1>5. op' = [at |-> "changing", rel |-> t, to |-> NoName, temp |-> ~f.temp, compact |-> FALSE]
  BY <1>1 DEF Doing
<1>6. op' \in OpType /\ op'.at = "changing" /\ op'.rel = t /\ op'.compact = FALSE
  BY <1>4, <1>5 DEF OpType, Phases
<1>7. /\ list[Found(n)].name = n /\ list[Found(n)] \in Handles(list)
      /\ list[Found(n)] \in Handle
  BY <1>1, <1>2, FoundIsThere
<1>8. /\ g \in Handle /\ g.name = n /\ g.updated = list[Found(n)].updated
      /\ g.table = list[Found(n)].table /\ g.temp = Flag(list[Found(n)].temp = 0)
      /\ list' = [list EXCEPT ![Found(n)] = g]
  <2>1. Flag(list[Found(n)].temp = 0) \in 0 .. 2
    BY DEF Flag
  <2> QED BY <1>1, <1>7, <2>1 DEF Handle
<1>9. /\ DictionaryOK(leaprel') /\ RowsFrom(leaprel', leaprel)
      /\ NamesIn(leaprel'.rows) \subseteq NamesIn(leaprel.rows)
      /\ \A m : m \in Mentioned(leaprel) => m \in Mentioned(leaprel')
  BY <1>1, <1>2, DescribedRows
<1> HIDE DEF e, g, t
<1>10. /\ files' \in [Names -> Files \cup {NoFile}] /\ files'[n] = e
       /\ \A m \in Names : m # n => files'[m] = files[m]
  BY <1>2, <1>4 DEF TypeOK
<1>11. /\ list' \in Seq(Handle)
       /\ Handles(list)' \subseteq Handles(list) \cup {g}
       /\ g \in Handles(list)'
       /\ \A h : h.name # n => (h \in Handles(list) <=> h \in Handles(list)')
       /\ \A m : Listed(list, m)' <=> Listed(list, m)
       /\ \A m : Once(list, m) => Once(list, m)'
       /\ Once(list, n) => /\ \A h \in Handles(list)' : h.name = n => h = g
                           /\ \A h \in Handles(list) : h.name = n => h = list[Found(n)]
  BY <1>2, <1>3, <1>8, HandleChanged
<1>12. CatalogueType'
  <2>1. \A i \in DOMAIN list' : list'[i] \in Handle
    BY <1>11
  <2>2. TypeOK'
    BY <1>1, <1>2, <1>6, <1>9, <1>10, <2>1 DEF TypeOK, OpType, DictionaryOK
  <2>3. \A h \in Handles(list)' : h.updated => h.table \in Versions
    BY <1>7, <1>8, <1>11 DEF CatalogueType
  <2> QED BY <1>9, <1>11, <2>2, <2>3 DEF CatalogueType
<1>13. OpOK' /\ CompactOK'
  BY <1>4, <1>6 DEF OpOK, CompactOK, Making, Removing, Moving
<1>14. Active /\ Active' /\ op.at \notin Making \cup Removing /\ op'.at \notin Making \cup Removing
  BY <1>1, <1>6 DEF Active, Making, Removing
<1>15. \A m : \A r \in leaprel'.rows : r.name = m =>
          \E x \in leaprel.rows : x.name = m /\ (x.attributes = 1 => r.attributes = 1)
  BY <1>9 DEF RowsFrom
<1>16. NamesOK'
  <2> SUFFICES ASSUME NEW m \in Names \ renamed PROVE NameOK(m)'
    BY <1>1 DEF NamesOK
  <2>1. NameOK(m)
    BY DEF NamesOK
  <2>2. CASE m # n
    <3>1. \A h : h.name = m => (h \in Handles(list) <=> h \in Handles(list)')
      BY <1>11, <2>2
    <3>2. files'[m] = files[m] /\ hashes'[m] = hashes[m] /\ mishaps \subseteq mishaps'
      BY <1>1, <1>10, <2>2
    <3>3. \A r \in leaprel'.rows : r.name = m =>
             \E x \in leaprel.rows : x.name = m /\ (x.attributes = 1 => r.attributes = 1)
      BY <1>15
    <3>4. m \in Mentioned(leaprel) => m \in Mentioned(leaprel')
      BY <1>9
    <3>5. Once(list, m) => Once(list, m)'
      BY <1>11
    <3> QED BY <1>14, <2>1, <3>1, <3>2, <3>3, <3>4, <3>5, OthersKeep
  <2>3. CASE m = n
    <3>1. Faults' = Faults /\ (Quiet' <=> Quiet)
      BY <1>1 DEF Quiet, Faults
    <3>2. Once(list, n) /\ Once(list, n)' /\ Listed(list, n)'
      BY <1>3, <1>11, <2>1, <2>3 DEF NameOK
    <3>3. RowsOK(n)'
      <4>1. Whole(n)' <=> Whole(n)
        BY <1>1, <1>4, <1>10 DEF Whole
      <4>2. Whole(n)' => \A r \in leaprel'.rows : r.name = n => r.attributes = 1
        BY <1>15, <2>1, <2>3, <4>1 DEF NameOK, RowsOK
      <4>3. Whole(n)' => n \in Mentioned(leaprel')
        BY <1>3, <1>9, <1>14, <2>1, <2>3, <4>1 DEF NameOK, RowsOK
      <4> QED BY <1>6, <3>2, <4>2, <4>3 DEF RowsOK
    <3>4. FilesOK(n)'
      BY <1>1, <1>4, <1>10 DEF FilesOK
    <3>5. StatusOK(n)'
      <4>1. Faults = {} => list[Found(n)].temp = Flag(f.temp)
        BY <1>1, <1>7, <2>1, <2>3 DEF NameOK, StatusOK
      <4>2. Faults = {} => g.temp = Flag(e.temp)
        BY <1>4, <1>8, <4>1 DEF Flag
      <4>3. Faults = {} /\ e.temp => g.temp = 1
        BY <4>2 DEF Flag
      <4>4. g \in Handles(list)' /\ \A h \in Handles(list)' : h.name = n => h = g
        BY <1>11, <3>2
      <4> QED BY <1>6, <1>8, <1>10, <3>1, <4>2, <4>3, <4>4 DEF StatusOK
    <3>6. HashOK(n)'
      <4>1. \A h \in Handles(list)' : h.name = n => h.updated = list[Found(n)].updated
                                                  /\ h.table = list[Found(n)].table
        BY <1>8, <1>11, <3>2
      <4>2. Quiet => \/ list[Found(n)].table = f.version
                     \/ /\ list[Found(n)].table = NoTable /\ ~list[Found(n)].updated
                        /\ hashes[n] # NoFile /\ hashes[n] = f.version
        BY <1>1, <1>7, <2>1, <2>3 DEF NameOK, HashOK
      <4>3. Quiet => \A h \in Handles(list)' : h.name = n =>
                        \/ h.table = e.version
                        \/ /\ h.table = NoTable /\ ~h.updated
                           /\ hashes[n] # NoFile /\ hashes[n] = e.version
        BY <1>4, <4>1, <4>2
      <4>4. Awaited(n) => Awaited(n)'
        <5>1. Awaited(n) => list[Found(n)].updated
          BY <1>1, <1>11, <3>2 DEF Awaited
        <5>2. list[Found(n)].updated => g.updated
          BY <1>8
        <5> QED BY <1>6, <1>8, <1>11, <5>1, <5>2 DEF Awaited
      <4>5. Quiet /\ hashes[n] # NoFile => hashes[n] = e.version \/ Awaited(n)'
        BY <1>1, <1>4, <2>1, <2>3, <4>4 DEF NameOK, HashOK, Removing
      <4> QED BY <1>1, <1>4, <1>10, <1>14, <3>1, <4>3, <4>5 DEF HashOK
    <3> QED BY <2>3, <3>2, <3>3, <3>4, <3>5, <3>6 DEF NameOK
  <2> QED BY <2>2, <2>3
<1>17. WreckOK'
  <2>1. \A k \in Names : k = n \/ files'[k] = files[k]
    BY <1>10
  <2> QED BY <1>1, <1>4, <1>10, <2>1, NoMoreWrecks
<1> QED
  BY <1>12, <1>13, <1>14, <1>16, <1>17, ActiveKeeps

\* The row of the name in the header gets the new status.
LEMMA ChangeRowKeeps ==
    ASSUME CatalogueInv, ChangeRow
    PROVE  CatalogueInv'
<1> USE DEF CatalogueInv
<1> DEFINE to == [r \in Row |-> [r EXCEPT !.temp = op.temp]]
<1>1. /\ op.at = "changing" /\ leaprel' = Updated(leaprel, RowsOf(leaprel, op.rel), to)
      /\ op' = Resting("idle")
      /\ UNCHANGED <<list, files, hashes, walk, pending, made, kept, renamed, mishaps>>
  BY DEF ChangeRow, Finished
<1>2. TypeOK /\ DictionaryOK(leaprel) /\ list \in Seq(Handle) /\ op.temp \in BOOLEAN
  BY OpFields DEF CatalogueType
<1>3. RowChange(to)
  BY <1>2, RowChanges
<1> HIDE DEF to
<1>4. /\ DictionaryOK(leaprel') /\ RowsFrom(leaprel', leaprel)
      /\ \A m : m \in Mentioned(leaprel) => m \in Mentioned(leaprel')
  BY <1>1, <1>2, <1>3, UpdateKeepsRows
<1>5. op' \in OpType /\ op'.at = "idle" /\ op'.rel = NoName /\ op'.compact = FALSE
  <2>1. "idle" \in Phases
    BY DEF Phases
  <2> QED BY <1>1, <2>1, DoingFields DEF Resting
<1>6. Handles(list)' = Handles(list)
  BY <1>1 DEF Handles
<1>7. CatalogueType'
  <2>1. TypeOK'
    BY <1>1, <1>2, <1>4, <1>5 DEF TypeOK, OpType, DictionaryOK
  <2> QED BY <1>1, <1>4, <1>6, <2>1 DEF CatalogueType
<1>8. OpOK' /\ CompactOK'
  BY <1>5 DEF OpOK, CompactOK, Making, Removing, Moving
<1>9. Active /\ Active' /\ op.at \notin Making \cup Removing /\ op'.at \notin Making \cup Removing
  BY <1>1, <1>5 DEF Active, Making, Removing
<1>10. NamesOK'
  <2> SUFFICES ASSUME NEW m \in Names \ renamed PROVE NameOK(m)'
    BY <1>1 DEF NamesOK
  <2>1. NameOK(m)
    BY DEF NamesOK
  <2>2. \A r \in leaprel'.rows : r.name = m =>
           \E x \in leaprel.rows : x.name = m /\ (x.attributes = 1 => r.attributes = 1)
    BY <1>4 DEF RowsFrom
  <2>3. Once(list, m) => Once(list, m)'
    BY <1>1 DEF Once
  <2> QED BY <1>1, <1>4, <1>6, <1>9, <2>1, <2>2, <2>3, OthersKeep
<1>11. WreckOK'
  BY <1>1, NoMoreWrecks
<1> QED
  BY <1>7, <1>8, <1>9, <1>10, <1>11, ActiveKeeps

\* insert.
LEMMA InsertKeeps ==
    ASSUME CatalogueInv, NEW n \in Names, insert(n)
    PROVE  CatalogueInv'
<1> USE DEF CatalogueInv
<1> DEFINE f == files[n]
           e == [f EXCEPT !.version = made + 1]
           h0 == list[Found(n)]
           new == IF TableOf(h0) = f.version THEN made + 1 ELSE Stale
           g == [h0 EXCEPT !.updated = TRUE, !.table = new]
           to == [r \in Row |-> [r EXCEPT !.updated = TRUE]]
<1>1. /\ op.at = "idle" /\ Named(n) # {} /\ made < MaxMade /\ f # NoFile /\ f.stage = "whole"
      /\ files' = [files EXCEPT ![n].version = made + 1] /\ made' = made + 1
      /\ leaprel' = Updated(leaprel, RowsOf(leaprel, n), to)
      /\ list' = [list EXCEPT ![Found(n)].updated = TRUE, ![Found(n)].table = new]
      /\ UNCHANGED <<hashes, op, walk, pending, kept, renamed, mishaps>>
  BY DEF insert, Idle
<1>2. TypeOK /\ DictionaryOK(leaprel) /\ list \in Seq(Handle)
  BY DEF CatalogueType
<1>3. Listed(list, n)
  BY <1>1, ListedIsNamed
<1>4. made + 1 \in Versions /\ made + 1 # 0 /\ new \in Versions
  <2>1. made + 1 \in Versions /\ made + 1 # 0
    BY <1>1, <1>2, MadeAssumption DEF TypeOK, Versions
  <2>2. Stale \in Versions
    BY MadeAssumption DEF Stale, Versions
  <2> QED BY <2>1, <2>2
<1>5. /\ e \in Files /\ e.temp = f.temp /\ e.stage = f.stage /\ e.version = made + 1
      /\ e # NoFile /\ files' = [files EXCEPT ![n] = e]
  <2>1. f \in Files
    BY <1>1, <1>2, FileIsThere
  <2>2. e \in Files /\ e.temp = f.temp /\ e.stage = f.stage /\ e.version = made + 1
    BY <1>4, <2>1 DEF Files
  <2>3. files' = [files EXCEPT ![n] = e]
    BY <1>1, <1>2 DEF TypeOK
  <2> QED BY <2>2, <2>3, MarkAssumption
<1>6. h0.name = n /\ h0 \in Handles(list) /\ h0 \in Handle
  BY <1>1, <1>2, FoundIsThere
<1> HIDE DEF new
<1>7. /\ g \in Handle /\ g.name = n /\ g.updated = TRUE
      /\ g.table = new /\ g.temp = h0.temp
      /\ list' = [list EXCEPT ![Found(n)] = g]
  BY <1>1, <1>2, <1>4, <1>6 DEF Handle
<1>8. RowChange(to)
  BY RowChanges
<1> HIDE DEF to
<1>9. /\ DictionaryOK(leaprel') /\ RowsFrom(leaprel', leaprel)
      /\ \A m : m \in Mentioned(leaprel) => m \in Mentioned(leaprel')
  BY <1>1, <1>2, <1>8, UpdateKeepsRows
<1> HIDE DEF e, g
<1>10. /\ files' \in [Names -> Files \cup {NoFile}] /\ files'[n] = e
       /\ \A m \in Names : m # n => files'[m] = files[m]
  BY <1>2, <1>5 DEF TypeOK
<1>11. /\ list' \in Seq(Handle)
       /\ Handles(list)' \subseteq Handles(list) \cup {g}
       /\ g \in Handles(list)'
       /\ \A h : h.name # n => (h \in Handles(list) <=> h \in Handles(list)')
       /\ \A m : Listed(list, m)' <=> Listed(list, m)
       /\ \A m : Once(list, m) => Once(list, m)'
       /\ Once(list, n) => \A h \in Handles(list)' : h.name = n => h = g
  BY <1>2, <1>3, <1>7, HandleChanged
<1>12. CatalogueType'
  <2>1. \A i \in DOMAIN list' : list'[i] \in Handle
    BY <1>11
  <2>2. TypeOK'
    BY <1>1, <1>2, <1>4, <1>9, <1>10, <2>1 DEF TypeOK, DictionaryOK
  <2>3. \A h \in Handles(list)' : h.updated => h.table \in Versions
    BY <1>4, <1>7, <1>11 DEF CatalogueType
  <2> QED BY <1>9, <1>11, <2>2, <2>3 DEF CatalogueType
<1>14. OpOK'
  BY <1>1 DEF OpOK, Making, Removing, Moving
<1>15. CompactOK'
  BY <1>1 DEF CompactOK, Making, Removing
<1>16. Active /\ Active' /\ op.at \notin Making \cup Removing /\ op'.at \notin Making \cup Removing
  BY <1>1 DEF Active, Making, Removing
<1>17. \A m : \A r \in leaprel'.rows : r.name = m =>
          \E x \in leaprel.rows : x.name = m /\ (x.attributes = 1 => r.attributes = 1)
  BY <1>9 DEF RowsFrom
<1>18. NamesOK'
  <2> SUFFICES ASSUME NEW m \in Names \ renamed PROVE NameOK(m)'
    BY <1>1 DEF NamesOK
  <2>1. NameOK(m)
    BY DEF NamesOK
  <2>2. CASE m # n
    <3>1. \A h : h.name = m => (h \in Handles(list) <=> h \in Handles(list)')
      BY <1>11, <2>2
    <3> QED BY <1>1, <1>9, <1>10, <1>11, <1>16, <1>17, <2>1, <2>2, <3>1, OthersKeep
  <2>3. CASE m = n
    <3>1. Faults' = Faults /\ (Quiet' <=> Quiet)
      BY <1>1 DEF Quiet, Faults
    <3>2. Once(list, n) /\ Once(list, n)' /\ Listed(list, n)'
      BY <1>3, <1>11, <2>1, <2>3 DEF NameOK
    <3>3. RowsOK(n)'
      <4>1. Whole(n)' /\ Whole(n)
        BY <1>1, <1>5, <1>10 DEF Whole
      <4>2. \A r \in leaprel'.rows : r.name = n => r.attributes = 1
        BY <1>17, <2>1, <2>3, <4>1 DEF NameOK, RowsOK
      <4>3. n \in Mentioned(leaprel')
        BY <1>3, <1>9, <1>16, <2>1, <2>3, <4>1 DEF NameOK, RowsOK
      <4> QED BY <3>2, <4>2, <4>3 DEF RowsOK
    <3>4. FilesOK(n)'
      BY <1>1, <1>5, <1>10 DEF FilesOK
    <3>5. StatusOK(n)'
      <4>1. Faults = {} => h0.temp = Flag(f.temp)
        BY <1>1, <1>6, <2>1, <2>3 DEF NameOK, StatusOK
      <4>2. Faults = {} => g.temp = Flag(e.temp)
        BY <1>5, <1>7, <4>1
      <4>3. Faults = {} /\ e.temp => g.temp = 1
        BY <4>2 DEF Flag
      <4>4. g \in Handles(list)' /\ \A h \in Handles(list)' : h.name = n => h = g
        BY <1>11, <3>2
      <4> QED BY <1>1, <1>7, <1>10, <3>1, <4>2, <4>3, <4>4 DEF StatusOK
    <3>6. HashOK(n)'
      <4>1. Quiet => \/ h0.table = f.version
                     \/ h0.table = NoTable /\ hashes[n] # NoFile /\ hashes[n] = f.version
        BY <1>1, <1>6, <2>1, <2>3 DEF NameOK, HashOK
      <4>2. f.version # NoTable
        BY <1>1, <1>2, FileIsThere, FileFields, MarkAssumption
      <4>3. Quiet => TableOf(h0) = f.version
        BY <1>6, <4>1, <4>2 DEF TableOf
      <4>4. Quiet => g.table = e.version
        BY <1>5, <1>7, <4>3 DEF new
      <4>5. Quiet => \A h \in Handles(list)' : h.name = n => h.table = e.version
        BY <1>11, <3>2, <4>4
      <4>6. Awaited(n)'
        BY <1>1, <1>7, <1>11 DEF Awaited
      <4> QED BY <1>1, <1>5, <1>10, <1>16, <3>1, <4>5, <4>6 DEF HashOK
    <3> QED BY <2>3, <3>2, <3>3, <3>4, <3>5, <3>6 DEF NameOK
  <2> QED BY <2>2, <2>3
<1>19. WreckOK'
  <2>1. \A k \in Names : k = n \/ files'[k] = files[k]
    BY <1>10
  <2> QED BY <1>1, <1>5, <1>10, <2>1, NoMoreWrecks
<1> QED
  BY <1>12, <1>14, <1>15, <1>16, <1>18, <1>19, ActiveKeeps

-------------------------------------------------------------------------------
\* The end of the process.

\* Outside of operations there is nothing to say of one.
LEMMA RestingFields ==
    ASSUME NEW at \in {"closed", "opening", "idle", "saving", "disposing"}
    PROVE  /\ Resting(at) \in OpType /\ Resting(at).at = at
           /\ Resting(at).rel = NoName /\ ~Resting(at).compact
<1>1. at \in Phases
  BY DEF Phases
<1>2. NoName \in Names \cup {NoName}
  OBVIOUS
<1>3. /\ Doing(at, NoName) \in OpType /\ Doing(at, NoName).at = at
      /\ Doing(at, NoName).rel = NoName /\ Doing(at, NoName).compact = FALSE
  BY <1>1, <1>2, DoingFields
<1> QED
  BY <1>3 DEF Resting

\* An operation that rests has done all of its work.
LEMMA RestingKeeps ==
    ASSUME op'.at \in {"closed", "opening", "idle", "saving", "disposing"},
           op'.rel = NoName, ~op'.compact
    PROVE  OpOK' /\ CompactOK'
BY DEF OpOK, CompactOK, Making, Removing, Moving

\* While an operation rests it has no relation in hand, and unless an operation was
\* interrupted or given up before there is no wreck.
LEMMA RestingNow ==
    ASSUME CatalogueInv, op.at \in {"closed", "opening", "idle", "saving", "disposing"}
    PROVE  /\ op.rel = NoName /\ ~op.compact /\ \A n \in Names : op.rel # n
           /\ mishaps \cap {"crash", "signal", "wreck"} = {} =>
                  \A n \in Names : ~(files[n] # NoFile /\ files[n].stage = "header")
<1>1. op.rel = NoName
  BY DEF CatalogueInv, OpOK
<1>2. ~op.compact
  BY <1>1, NameAssumption DEF CatalogueInv, CompactOK
<1>3. mishaps \cap {"crash", "signal", "wreck"} = {} =>
          \A n \in Names : ~(files[n] # NoFile /\ files[n].stage = "header")
  BY DEF CatalogueInv, WreckOK
<1> QED
  BY <1>1, <1>2, <1>3, NameAssumption

\* The names of relations in the list.
LEMMA ListedNames ==
    ASSUME list \in Seq(Handle)
    PROVE  /\ ListNames \subseteq Names
           /\ \A n \in Names : n \in ListNames <=> Listed(list, n)
<1>1. \A i \in DOMAIN list : list[i].name \in Names \cup {LeapRel}
  <2>1. \A i \in DOMAIN list : list[i] \in Handle
    OBVIOUS
  <2>2. \A h \in Handle : h.name \in Names \cup {LeapRel}
    BY DEF Handle
  <2> QED BY <2>1, <2>2
<1> QED
  BY <1>1, NameAssumption DEF ListNames, Listed, Handles

\* What a session leaves.
LEMMA LeftFacts ==
    ASSUME CatalogueType, NEW S
    PROVE  /\ Left(S) \in [all : SUBSET Names, named : SUBSET Names]
           /\ [all |-> {}, named |-> Left(S).named] \in [all : SUBSET Names, named : SUBSET Names]
           /\ \A n \in Left(S).named :
                 /\ n \in Names /\ Named(n) # {} /\ list[Found(n)].temp = 0
                 /\ files[n] # NoFile /\ n \in NamesIn(S)
                 /\ n \notin NamesIn(Phantoms(leaprel))
<1> DEFINE W == {n \in ListNames \ {op.rel, op.to} :
                     /\ list[Found(n)].temp = 0
                     /\ files[n] # NoFile /\ files[n].stage = "whole"}
           M == (W \cap NamesIn(S)) \ NamesIn(Phantoms(leaprel))
<1>1. Left(S) = [all |-> W, named |-> M]
  BY DEF Left
<1>2. ListNames \subseteq Names /\ \A n \in Names : n \in ListNames <=> Listed(list, n)
  BY ListedNames DEF CatalogueType
<1>3. W \subseteq Names /\ M \subseteq Names /\ M \subseteq W
  BY <1>2
<1>4. \A n \in M : /\ n \in Names /\ Named(n) # {} /\ list[Found(n)].temp = 0
                   /\ files[n] # NoFile /\ n \in NamesIn(S)
                   /\ n \notin NamesIn(Phantoms(leaprel))
  BY <1>2, ListedIsNamed
<1> HIDE DEF W, M
<1> QED
  BY <1>1, <1>3, <1>4

\* The process dies, with the names that it leaves in leaprel.
LEMMA DieKeeps ==
    ASSUME CatalogueInv, NEW R, Die(R),
           kept' \in [all : SUBSET Names, named : SUBSET Names],
           \A n \in kept'.named \ renamed : n \in NamesIn(leaprel.rows \ R) /\ files[n] # NoFile
    PROVE  CatalogueInv'
<1> USE DEF CatalogueInv
<1> DEFINE u == Unloaded([leaprel EXCEPT !.rows = @ \ R, !.front = @ \ R])
<1>1. /\ list' = <<>> /\ leaprel' = u /\ op' = Resting("closed") /\ walk' = 1
      /\ pending' = {} /\ mishaps' = mishaps \cup {"crash"}
      /\ UNCHANGED <<files, hashes, made, renamed>>
  BY DEF Die
<1>2. DictionaryOK(u) /\ u.rows = leaprel.rows \ R
  BY LostRows DEF CatalogueType
<1> HIDE DEF u
<1>3. /\ op' \in OpType /\ op'.at = "closed" /\ op'.rel = NoName /\ ~op'.compact
      /\ OpOK' /\ CompactOK'
  BY <1>1, RestingFields, RestingKeeps
<1>4. Handles(list)' = {} /\ \A n : ~Listed(list, n)' /\ Once(list, n)'
  BY <1>1 DEF Handles, Listed, Once
<1>5. CatalogueType'
  <2>1. list' \in Seq(Handle) /\ \A i \in DOMAIN list' : list'[i] \in Handle
    BY <1>1
  <2>2. TypeOK'
    BY <1>1, <1>2, <1>3, <2>1 DEF CatalogueType, TypeOK, OpType, DictionaryOK
  <2> QED BY <1>1, <1>2, <1>4, <2>1, <2>2 DEF CatalogueType
<1>6. Faults' # {} /\ ~Quiet' /\ ~Active'
  BY <1>1, <1>3 DEF Faults, Quiet, Active
<1>7. NamesOK'
  <2> SUFFICES ASSUME NEW n \in Names \ renamed PROVE NameOK(n)'
    BY <1>1 DEF NamesOK
  <2>1. NameOK(n)
    BY DEF NamesOK
  <2>2. RowsOK(n)'
    BY <1>1, <1>2, <1>6, <2>1 DEF NameOK, RowsOK, Whole
  <2>3. FilesOK(n)' /\ StatusOK(n)' /\ HashOK(n)'
    BY <1>4, <1>6 DEF FilesOK, StatusOK, HashOK
  <2> QED BY <1>4, <2>2, <2>3 DEF NameOK
<1>8. OpeningOK' /\ ClosedOK'
  BY <1>1, <1>3 DEF OpeningOK, ClosedOK
<1>9. KeptOK'
  BY <1>1, <1>2, <1>3 DEF KeptOK
<1>10. WreckOK'
  BY <1>1 DEF WreckOK
<1> QED
  BY <1>3, <1>5, <1>7, <1>8, <1>9, <1>10

\* Out of rl_compact.
LEMMA CompactDiesKeeps ==
    ASSUME CatalogueInv, NEW n \in Names, CompactDies(n)
    PROVE  CatalogueInv'
<1>1. Die({}) /\ kept' = [all |-> {}, named |-> Left(leaprel.rows).named]
  BY DEF CompactDies
<1>2. /\ kept' \in [all : SUBSET Names, named : SUBSET Names]
      /\ \A m \in Left(leaprel.rows).named : m \in NamesIn(leaprel.rows) /\ files[m] # NoFile
  BY <1>1, LeftFacts DEF CatalogueInv
<1>3. leaprel.rows \ {} = leaprel.rows /\ kept'.named = Left(leaprel.rows).named
  BY <1>1
<1>4. \A m \in kept'.named \ renamed : m \in NamesIn(leaprel.rows \ {}) /\ files[m] # NoFile
  BY <1>2, <1>3
<1> QED
  BY <1>1, <1>2, <1>4, DieKeeps

\* Out of nothing.
LEMMA CrashKeeps ==
    ASSUME CatalogueInv, Crash
    PROVE  CatalogueInv'
<1>1. PICK R \in {{}} \cup {{r} : r \in BeingUpdated} :
         /\ Die(R)
         /\ kept' = IF op.at \in {"opening", "saving", "disposing"} THEN kept
                    ELSE [all |-> {}, named |-> Left(leaprel.rows \ R).named]
  BY DEF Crash
<1>2. CASE op.at \in {"opening", "saving", "disposing"}
  <2>1. BeingUpdated = {}
    BY <1>2 DEF BeingUpdated
  <2>2. R = {} /\ leaprel.rows \ R = leaprel.rows /\ kept' = kept
    BY <1>1, <1>2, <2>1
  <2>3. kept' \in [all : SUBSET Names, named : SUBSET Names]
    BY <2>2 DEF CatalogueInv, CatalogueType, TypeOK
  <2>4. \A n \in kept.named \ renamed : n \in NamesIn(leaprel.rows) /\ files[n] # NoFile
    BY <1>2 DEF CatalogueInv, KeptOK
  <2>5. \A n \in kept'.named \ renamed : n \in NamesIn(leaprel.rows \ R) /\ files[n] # NoFile
    BY <2>2, <2>4
  <2> QED BY <1>1, <2>3, <2>5, DieKeeps
<1>3. CASE op.at \notin {"opening", "saving", "disposing"}
  <2>1. kept' = [all |-> {}, named |-> Left(leaprel.rows \ R).named]
    BY <1>1, <1>3
  <2>2. /\ kept' \in [all : SUBSET Names, named : SUBSET Names]
        /\ \A m \in Left(leaprel.rows \ R).named :
              m \in NamesIn(leaprel.rows \ R) /\ files[m] # NoFile
    BY <2>1, LeftFacts DEF CatalogueInv
  <2>3. \A m \in kept'.named \ renamed : m \in NamesIn(leaprel.rows \ R) /\ files[m] # NoFile
    BY <2>1, <2>2
  <2> QED BY <1>1, <2>2, <2>3, DieKeeps
<1> QED
  BY <1>2, <1>3

\* Out of a wreck.
LEMMA OpenWreckKeeps ==
    ASSUME CatalogueInv, NEW n \in Names, OpenWreck(n)
    PROVE  CatalogueInv'
<1>1. op.at = "opening" /\ Die({}) /\ kept' = kept
  BY DEF OpenWreck
<1>2. kept' \in [all : SUBSET Names, named : SUBSET Names]
  BY <1>1 DEF CatalogueInv, CatalogueType, TypeOK
<1>3. \A m \in kept.named \ renamed : m \in NamesIn(leaprel.rows) /\ files[m] # NoFile
  BY <1>1 DEF CatalogueInv, KeptOK
<1>4. \A m \in kept'.named \ renamed : m \in NamesIn(leaprel.rows \ {}) /\ files[m] # NoFile
  <2>1. leaprel.rows \ {} = leaprel.rows
    OBVIOUS
  <2> QED BY <1>1, <1>3, <2>1
<1> QED
  BY <1>1, <1>2, <1>4, DieKeeps

-------------------------------------------------------------------------------
\* The end of a session.

\* relations_dispose_all begins.
LEMMA DisposeKeeps ==
    ASSUME CatalogueInv, Dispose, op.at \notin {"closed", "saving", "disposing"},
           mishaps' \subseteq {"crash", "signal", "wreck", "reuse"}, mishaps \subseteq mishaps',
           op.at = "idle" \/ "signal" \in mishaps'
    PROVE  CatalogueInv'
<1> USE DEF CatalogueInv
<1> DEFINE R == {r \in leaprel.rows : r.updated}
           to == [r \in Row |-> [r EXCEPT !.updated = FALSE]]
<1>1. /\ kept' = Left(leaprel.rows) /\ leaprel' = Updated(leaprel, R, to)
      /\ op' = Resting("saving") /\ walk' = 1 /\ pending' = {}
      /\ UNCHANGED <<list, files, hashes, made, renamed>>
  BY DEF Dispose
<1>2. TypeOK /\ DictionaryOK(leaprel) /\ list \in Seq(Handle) /\ leaprel.rows \in SUBSET Row
  BY RowNames DEF CatalogueType
<1>3. RowChange(to) /\ R \in SUBSET leaprel.rows
  BY RowChanges
<1> HIDE DEF R, to
<1>4. /\ DictionaryOK(leaprel') /\ RowsBecome(leaprel', leaprel, R, to)
      /\ NamesStay(leaprel, leaprel')
  <2>1. /\ DictionaryOK(Updated(leaprel, R, to))
        /\ RowsBecome(Updated(leaprel, R, to), leaprel, R, to)
        /\ NamesStay(leaprel, Updated(leaprel, R, to))
    BY <1>2, <1>3, UpdatedRows
  <2> QED BY <1>1, <2>1
<1>5. \A y \in leaprel'.rows :
          \E x \in leaprel.rows : x.name = y.name /\ (x.attributes = 1 => y.attributes = 1)
  <2> SUFFICES ASSUME NEW y \in leaprel'.rows, NEW x \in R, y = to[x]
               PROVE  x.name = y.name /\ (x.attributes = 1 => y.attributes = 1)
    BY <1>3, <1>4 DEF RowsBecome
  <2>1. x \in Row /\ y = [x EXCEPT !.updated = FALSE]
    BY <1>2, <1>3 DEF to
  <2> QED BY <2>1 DEF Row
<1>6. /\ op' \in OpType /\ op'.at = "saving" /\ op'.rel = NoName /\ ~op'.compact
      /\ OpOK' /\ CompactOK'
  BY <1>1, RestingFields, RestingKeeps
<1>7. Handles(list)' = Handles(list) /\ \A m : Listed(list, m)' <=> Listed(list, m)
  BY <1>1 DEF Handles, Listed
<1>8. /\ kept' \in [all : SUBSET Names, named : SUBSET Names]
      /\ \A n \in kept'.named :
            /\ n \in Names /\ Named(n) # {} /\ list[Found(n)].temp = 0
            /\ files[n] # NoFile /\ n \in NamesIn(leaprel.rows)
            /\ n \notin NamesIn(Phantoms(leaprel))
  BY <1>1, LeftFacts
<1>9. CatalogueType'
  <2>1. TypeOK'
    BY <1>1, <1>2, <1>4, <1>6, <1>8 DEF TypeOK, OpType, DictionaryOK
  <2> QED BY <1>1, <1>4, <1>7, <2>1 DEF CatalogueType
<1>10. ~Active'
  BY <1>6 DEF Active
<1>11. Faults' = {} => op.at = "idle" /\ Faults = {} /\ (Quiet' => Quiet)
  BY DEF Faults, Quiet
<1>12. NamesOK'
  <2> SUFFICES ASSUME NEW n \in Names \ renamed PROVE NameOK(n)'
    BY <1>1 DEF NamesOK
  <2>1. NameOK(n)
    BY DEF NamesOK
  <2>2. Once(list, n)'
    BY <1>1, <2>1 DEF NameOK, Once
  <2>3. RowsOK(n)'
    <3>1. Whole(n)' => \A r \in leaprel'.rows : r.name = n => r.attributes = 1
      BY <1>1, <1>5, <2>1 DEF NameOK, RowsOK, Whole
    <3> QED BY <1>10, <3>1 DEF RowsOK
  <2>4. FilesOK(n)'
    BY <1>1, <1>7, <1>11, <2>1 DEF NameOK, FilesOK
  <2>5. StatusOK(n)'
    BY <1>1, <1>6, <1>7, <1>11, <2>1 DEF NameOK, StatusOK
  <2>6. HashOK(n)'
    <3>1. op.at = "idle" /\ Awaited(n) => Awaited(n)'
      <4> SUFFICES ASSUME NEW i \in DOMAIN list, list[i].name = n, list[i].updated
                   PROVE  Awaited(n)'
        BY DEF Awaited, Handles
      <4>1. walk' <= i
        BY <1>1, <1>2
      <4> QED BY <1>1, <1>6, <4>1 DEF Awaited
    <3>2. Quiet' => /\ op.at = "idle"
                    /\ \A h \in Handles(list) : h.name = n =>
                          \/ h.table = files[n].version
                          \/ /\ h.table = NoTable /\ ~h.updated
                             /\ hashes[n] # NoFile /\ hashes[n] = files[n].version
                    /\ hashes[n] # NoFile =>
                          files[n] # NoFile /\ (hashes[n] = files[n].version \/ Awaited(n))
      BY <1>11, <2>1 DEF NameOK, HashOK, Quiet, Removing
    <3> QED BY <1>1, <1>6, <1>7, <3>1, <3>2 DEF HashOK, Making
  <2> QED BY <2>2, <2>3, <2>4, <2>5, <2>6 DEF NameOK
<1>13. KeptOK'
  <2> SUFFICES ASSUME NEW n \in kept'.named \ renamed
               PROVE  /\ n \in NamesIn(leaprel'.rows) /\ files[n] # NoFile
                      /\ \A h \in Handles(list) : h.name = n => h.temp = 0
    BY <1>1, <1>7 DEF KeptOK
  <2>1. n \in NamesIn(leaprel'.rows)
    <3>1. PICK x \in leaprel.rows : x.name = n
      BY <1>8 DEF NamesIn
    <3> QED BY <1>4, <1>8, <3>1 DEF NamesStay
  <2>2. Once(list, n) /\ Found(n) \in DOMAIN list /\ list[Found(n)].name = n
    BY <1>2, <1>8, FoundIsThere DEF NamesOK, NameOK
  <2>3. \A h \in Handles(list) : h.name = n => h.temp = 0
    BY <1>8, <2>2 DEF Once, Handles
  <2> QED BY <1>8, <2>1, <2>3
<1>14. WreckOK'
  BY <1>1 DEF WreckOK
<1>15. OpeningOK' /\ ClosedOK'
  BY <1>6 DEF OpeningOK, ClosedOK
<1> QED
  BY <1>6, <1>9, <1>12, <1>13, <1>14, <1>15

\* On a command, or out of the signal handler.
LEMMA CloseKeeps ==
    ASSUME CatalogueInv, Close \/ Signal
    PROVE  CatalogueInv'
<1>1. /\ Dispose /\ op.at \notin {"closed", "saving", "disposing"}
      /\ mishaps \subseteq mishaps' /\ mishaps' \subseteq mishaps \cup {"signal"}
      /\ op.at = "idle" \/ "signal" \in mishaps'
  BY DEF Close, Signal, Idle
<1>2. mishaps' \subseteq {"crash", "signal", "wreck", "reuse"}
  BY <1>1 DEF CatalogueInv, CatalogueType, TypeOK
<1> QED
  BY <1>1, <1>2, DisposeKeeps

\* The saving walk comes to the next handle.
LEMMA SaveKeeps ==
    ASSUME CatalogueInv, SaveNext
    PROVE  CatalogueInv'
<1> USE DEF CatalogueInv
<1> DEFINE h == list[walk]
<1>1. /\ op.at = "saving" /\ walk <= Len(list) /\ Save(h) /\ walk' = walk + 1
      /\ UNCHANGED <<list, files, op, pending, made, kept, renamed, mishaps>>
  BY DEF SaveNext
<1>2. TypeOK /\ DictionaryOK(leaprel) /\ list \in Seq(Handle) /\ walk \in Nat \ {0}
  BY DEF CatalogueType, TypeOK
<1>3. /\ op.rel = NoName /\ ~op.compact /\ \A n \in Names : op.rel # n
      /\ mishaps \cap {"crash", "signal", "wreck"} = {} =>
             \A n \in Names : ~(files[n] # NoFile /\ files[n].stage = "header")
  BY <1>1, RestingNow
<1>4. OpOK' /\ CompactOK'
  BY <1>1, <1>3, RestingKeeps
<1>5. Handles(list)' = Handles(list) /\ \A m : Listed(list, m)' <=> Listed(list, m)
  BY <1>1 DEF Handles, Listed
<1>6. /\ DictionaryOK(leaprel') /\ leaprel'.rows \subseteq leaprel.rows
      /\ \A r \in leaprel.rows : r \in leaprel'.rows \/ (r.name = h.name /\ h.temp # 0)
  <2>1. CASE leaprel' = SavedIfChanged(leaprel)
    BY <1>2, <2>1, StoredRows
  <2>2. CASE UNCHANGED leaprel
    BY <1>2, <2>2
  <2>3. CASE leaprel' = Erased(leaprel, RowsOf(leaprel, h.name)) /\ h.temp # 0
    <3>1. /\ DictionaryOK(leaprel')
          /\ leaprel'.rows = leaprel.rows \ RowsOf(leaprel, h.name)
      BY <1>2, <2>3, RowNames, ErasedRows
    <3> QED BY <2>3, <3>1 DEF RowsOf
  <2> QED BY <1>1, <2>1, <2>2, <2>3 DEF Save
<1>7. \/ hashes' = hashes /\ ~(h.name # LeapRel /\ h.temp = 0 /\ h.updated)
      \/ /\ hashes' = [hashes EXCEPT ![h.name] = h.table]
         /\ h.name # LeapRel /\ h.temp = 0 /\ h.updated
  BY <1>1 DEF Save
<1>8. walk \in DOMAIN list /\ h \in Handles(list) /\ h \in Handle
  <2>1. walk \in DOMAIN list
    BY <1>1, <1>2
  <2> QED BY <1>2, <2>1 DEF Handles
<1>9. hashes' \in [Names -> Versions \cup {NoFile}]
  <2>1. CASE hashes' = hashes
    BY <1>2, <2>1 DEF TypeOK
  <2>2. CASE /\ hashes' = [hashes EXCEPT ![h.name] = h.table]
             /\ h.table \in Versions
    BY <1>2, <2>2 DEF TypeOK
  <2> QED BY <1>7, <1>8, <2>1, <2>2 DEF CatalogueType
<1> HIDE DEF h
<1>10. CatalogueType'
  <2>1. TypeOK'
    BY <1>1, <1>2, <1>6, <1>9 DEF TypeOK, DictionaryOK
  <2> QED BY <1>1, <1>5, <1>6, <2>1 DEF CatalogueType
<1>11. ~Active' /\ Faults' = Faults /\ (Quiet' <=> Quiet)
  BY <1>1 DEF Active, Faults, Quiet
<1>12. NamesOK'
  <2> SUFFICES ASSUME NEW n \in Names \ renamed PROVE NameOK(n)'
    BY <1>1 DEF NamesOK
  <2>1. NameOK(n)
    BY DEF NamesOK
  <2>2. Once(list, n) /\ Once(list, n)'
    BY <1>1, <2>1 DEF NameOK, Once
  <2>3. RowsOK(n)'
    <3>1. Whole(n)' <=> Whole(n)
      BY <1>1 DEF Whole
    <3>2. Whole(n)' => \A r \in leaprel'.rows : r.name = n => r.attributes = 1
      BY <1>6, <2>1, <3>1 DEF NameOK, RowsOK
    <3> QED BY <1>11, <3>2 DEF RowsOK
  <2>4. FilesOK(n)'
    BY <1>1, <1>5, <1>11, <2>1 DEF NameOK, FilesOK
  <2>5. StatusOK(n)'
    BY <1>1, <1>5, <1>11, <2>1 DEF NameOK, StatusOK
  <2>6. HashOK(n)'
    <3>1. Quiet => /\ \A g \in Handles(list) : g.name = n =>
                         \/ g.table = files[n].version
                         \/ /\ g.table = NoTable /\ ~g.updated
                            /\ hashes[n] # NoFile /\ hashes[n] = files[n].version
                   /\ hashes[n] # NoFile =>
                         files[n] # NoFile /\ (hashes[n] = files[n].version \/ Awaited(n))
      BY <1>1, <1>3, <2>1 DEF NameOK, HashOK
    <3>2. CASE h.name = n /\ h.temp = 0 /\ h.updated
      <4>1. hashes'[n] = h.table /\ n # LeapRel
        BY <1>2, <1>7, <3>2, NameAssumption DEF TypeOK
      <4>2. h \in Handles(list) /\ \A g \in Handles(list) : g.name = n => g = h
        BY <1>8, <2>2, <3>2 DEF Once, Handles, h
      <4>3. files[n] # NoFile
        BY <1>1, <2>1, <3>2, <4>2 DEF NameOK, FilesOK, Listed
      <4>4. Quiet => h.table = files[n].version
        BY <3>1, <3>2, <4>2
      <4> QED BY <1>1, <1>3, <1>5, <1>11, <4>1, <4>2, <4>3, <4>4 DEF HashOK
    <3>3. CASE ~(h.name = n /\ h.temp = 0 /\ h.updated)
      <4>1. hashes'[n] = hashes[n]
        BY <1>2, <1>7, <3>3 DEF TypeOK
      <4>2. Awaited(n) => Awaited(n)'
        <5> SUFFICES ASSUME NEW i \in DOMAIN list, list[i].name = n, list[i].updated,
                            list[i].temp = 0 => walk <= i
                     PROVE  list[i].temp = 0 => walk + 1 <= i
          BY <1>1 DEF Awaited
        <5>1. list[i].temp = 0 => i # walk
          BY <3>3 DEF h
        <5> QED BY <1>2, <5>1
      <4> QED BY <1>1, <1>3, <1>5, <1>11, <3>1, <4>1, <4>2 DEF HashOK
    <3> QED BY <3>2, <3>3
  <2> QED BY <2>2, <2>3, <2>4, <2>5, <2>6 DEF NameOK
<1>13. KeptOK'
  <2> SUFFICES ASSUME NEW n \in kept.named \ renamed
               PROVE  /\ n \in NamesIn(leaprel'.rows) /\ files[n] # NoFile
                      /\ \A g \in Handles(list) : g.name = n => g.temp = 0
    BY <1>1, <1>5 DEF KeptOK
  <2>1. /\ n \in NamesIn(leaprel.rows) /\ files[n] # NoFile
        /\ \A g \in Handles(list) : g.name = n => g.temp = 0
    BY <1>1 DEF KeptOK
  <2>2. ~(h.name = n /\ h.temp # 0)
    BY <1>8, <2>1
  <2> QED BY <1>6, <2>1, <2>2 DEF NamesIn
<1>14. WreckOK'
  BY <1>1, <1>3 DEF WreckOK
<1>15. OpeningOK' /\ ClosedOK'
  BY <1>1 DEF OpeningOK, ClosedOK
<1> QED
  BY <1>4, <1>10, <1>12, <1>13, <1>14, <1>15

\* The saving walk is over.
LEMMA SavedKeeps ==
    ASSUME CatalogueInv, SaveDone
    PROVE  CatalogueInv'
<1> USE DEF CatalogueInv
<1>1. /\ op.at = "saving" /\ walk > Len(list) /\ walk' = 1 /\ op' = Resting("disposing")
      /\ UNCHANGED <<list, files, hashes, leaprel, pending, made, kept, renamed, mishaps>>
  BY DEF SaveDone, disk
<1>2. TypeOK /\ list \in Seq(Handle) /\ walk \in Nat
  BY DEF CatalogueType, TypeOK
<1>3. /\ op.rel = NoName /\ \A n \in Names : op.rel # n
      /\ mishaps \cap {"crash", "signal", "wreck"} = {} =>
             \A n \in Names : ~(files[n] # NoFile /\ files[n].stage = "header")
  BY <1>1, RestingNow
<1>4. /\ op' \in OpType /\ op'.at = "disposing" /\ op'.rel = NoName /\ ~op'.compact
      /\ OpOK' /\ CompactOK'
  BY <1>1, RestingFields, RestingKeeps
<1>5. Handles(list)' = Handles(list) /\ \A m : Listed(list, m)' <=> Listed(list, m)
  BY <1>1 DEF Handles, Listed
<1>6. CatalogueType'
  <2>1. TypeOK'
    BY <1>1, <1>2, <1>4 DEF TypeOK, OpType
  <2> QED BY <1>1, <1>5, <2>1 DEF CatalogueType
<1>7. ~Active' /\ Faults' = Faults /\ (Quiet' <=> Quiet)
  BY <1>1, <1>4 DEF Active, Faults, Quiet
<1>8. \A i \in DOMAIN list : ~(walk <= i) /\ walk' <= i /\ list[i] \in Handles(list)
  BY <1>1, <1>2 DEF Handles
<1>9. NamesOK'
  <2> SUFFICES ASSUME NEW n \in Names \ renamed PROVE NameOK(n)'
    BY <1>1 DEF NamesOK
  <2>1. NameOK(n)
    BY DEF NamesOK
  <2>2. Once(list, n)'
    BY <1>1, <2>1 DEF NameOK, Once
  <2>3. RowsOK(n)'
    BY <1>1, <1>7, <2>1 DEF NameOK, RowsOK, Whole
  <2>4. FilesOK(n)'
    BY <1>1, <1>3, <1>4, <1>7, <2>1 DEF NameOK, FilesOK
  <2>5. Faults = {} =>
            /\ \A h \in Handles(list) : h.name = n => h.temp = Flag(files[n].temp)
            /\ files[n] # NoFile /\ files[n].temp =>
                   \E h \in Handles(list) : h.name = n /\ h.temp = 1
    BY <1>1, <1>3, <2>1 DEF NameOK, StatusOK
  <2>6. StatusOK(n)'
    <3>1. ASSUME NEW h \in Handles(list), h.name = n, h.temp = 1
          PROVE  \E i \in DOMAIN list' : walk' <= i /\ list'[i].name = n /\ list'[i].temp = 1
      BY <1>1, <1>8, <3>1 DEF Handles
    <3>2. Faults = {} /\ files'[n] # NoFile /\ files'[n].temp =>
             \E i \in DOMAIN list' : walk' <= i /\ list'[i].name = n /\ list'[i].temp = 1
      BY <1>1, <2>5, <3>1
    <3> QED BY <1>4, <1>7, <3>2 DEF StatusOK
  <2>7. HashOK(n)'
    <3>1. Quiet /\ Awaited(n) => Awaited(n)'
      <4> SUFFICES ASSUME Quiet, Awaited(n) PROVE Awaited(n)'
        OBVIOUS
      <4>0. op.at = "saving"
        BY <1>1
      <4>1. PICK i \in DOMAIN list : /\ list[i].name = n /\ list[i].updated
                                     /\ list[i].temp = 0 => walk <= i
        BY <4>0 DEF Awaited
      <4>2. list[i].temp # 0 /\ list[i].temp = Flag(files[n].temp)
        BY <1>8, <2>5, <4>1 DEF Quiet
      <4>3. list[i].temp = 1 /\ walk' <= i
        BY <1>8, <4>2 DEF Flag
      <4>4. i \in DOMAIN list' /\ list'[i] = list[i]
        BY <1>1
      <4> QED BY <1>4, <4>1, <4>3, <4>4 DEF Awaited
    <3>2. Quiet => (hashes[n] # NoFile =>
                        files[n] # NoFile /\ (hashes[n] = files[n].version \/ Awaited(n)))
      BY <1>3, <2>1 DEF NameOK, HashOK
    <3> QED BY <1>1, <1>4, <1>7, <3>1, <3>2 DEF HashOK, Making
  <2> QED BY <2>2, <2>3, <2>4, <2>6, <2>7 DEF NameOK
<1>10. KeptOK'
  BY <1>1, <1>4, <1>5 DEF KeptOK
<1>11. WreckOK'
  BY <1>1, <1>3 DEF WreckOK
<1>12. OpeningOK' /\ ClosedOK'
  BY <1>4 DEF OpeningOK, ClosedOK
<1> QED
  BY <1>4, <1>6, <1>9, <1>10, <1>11, <1>12

\* The disposing walk comes to the next handle.
LEMMA DisposeNextKeeps ==
    ASSUME CatalogueInv, DisposeNext
    PROVE  CatalogueInv'
<1> USE DEF CatalogueInv
<1> DEFINE h == list[walk]
<1>1. /\ op.at = "disposing" /\ walk <= Len(list) /\ walk' = walk + 1
      /\ UNCHANGED <<list, leaprel, op, pending, made, kept, renamed, mishaps>>
  BY DEF DisposeNext
<1>2. \/ /\ h.temp = 1 /\ files' = [files EXCEPT ![h.name] = NoFile]
         /\ hashes' = [hashes EXCEPT ![h.name] = NoFile]
      \/ h.temp # 1 /\ files' = files /\ hashes' = hashes
  BY DEF DisposeNext
<1>3. TypeOK /\ list \in Seq(Handle) /\ walk \in Nat \ {0}
  BY DEF CatalogueType, TypeOK
<1>4. walk \in DOMAIN list /\ h \in Handles(list)
  <2>1. walk \in DOMAIN list
    BY <1>1, <1>3
  <2> QED BY <1>3, <2>1 DEF Handles
<1>5. /\ op.rel = NoName /\ ~op.compact /\ \A n \in Names : op.rel # n
      /\ mishaps \cap {"crash", "signal", "wreck"} = {} =>
             \A n \in Names : ~(files[n] # NoFile /\ files[n].stage = "header")
  BY <1>1, RestingNow
<1>6. OpOK' /\ CompactOK'
  BY <1>1, <1>5, RestingKeeps
<1>7. Handles(list)' = Handles(list) /\ \A m : Listed(list, m)' <=> Listed(list, m)
  BY <1>1 DEF Handles, Listed
<1>8. /\ files' \in [Names -> Files \cup {NoFile}]
      /\ hashes' \in [Names -> Versions \cup {NoFile}]
      /\ \A n \in Names : IF h.temp = 1 /\ h.name = n
                          THEN files'[n] = NoFile /\ hashes'[n] = NoFile
                          ELSE files'[n] = files[n] /\ hashes'[n] = hashes[n]
  <2> HIDE DEF h
  <2>1. files \in [Names -> Files \cup {NoFile}] /\ hashes \in [Names -> Versions \cup {NoFile}]
    BY <1>3 DEF TypeOK
  <2>2. CASE /\ h.temp = 1 /\ files' = [files EXCEPT ![h.name] = NoFile]
             /\ hashes' = [hashes EXCEPT ![h.name] = NoFile]
    BY <2>1, <2>2
  <2>3. CASE h.temp # 1 /\ files' = files /\ hashes' = hashes
    BY <2>1, <2>3
  <2> QED BY <1>2, <2>2, <2>3
<1> HIDE DEF h
<1>9. CatalogueType'
  <2>1. TypeOK'
    BY <1>1, <1>3, <1>8 DEF TypeOK
  <2> QED BY <1>1, <1>7, <2>1 DEF CatalogueType
<1>10. ~Active' /\ Faults' = Faults /\ (Quiet' <=> Quiet)
  BY <1>1 DEF Active, Faults, Quiet
<1>11. NamesOK'
  <2> SUFFICES ASSUME NEW n \in Names \ renamed PROVE NameOK(n)'
    BY <1>1 DEF NamesOK
  <2>1. NameOK(n)
    BY DEF NamesOK
  <2>2. Once(list, n)'
    BY <1>1, <2>1 DEF NameOK, Once
  <2>3. \/ files'[n] = NoFile /\ hashes'[n] = NoFile
        \/ files'[n] = files[n] /\ hashes'[n] = hashes[n] /\ ~(h.temp = 1 /\ h.name = n)
    BY <1>8
  <2>4. RowsOK(n)'
    BY <1>1, <1>10, <2>1, <2>3 DEF NameOK, RowsOK, Whole
  <2>5. FilesOK(n)'
    BY <1>1, <1>5, <1>10, <2>1, <2>3 DEF NameOK, FilesOK
  <2>6. StatusOK(n)'
    <3> SUFFICES ASSUME Faults = {}, files'[n] # NoFile, files'[n].temp
                 PROVE  \E i \in DOMAIN list : /\ walk + 1 <= i
                                               /\ list[i].name = n /\ list[i].temp = 1
      BY <1>1, <1>10 DEF StatusOK
    <3>1. PICK i \in DOMAIN list : walk <= i /\ list[i].name = n /\ list[i].temp = 1
      BY <1>1, <1>5, <2>1, <2>3 DEF NameOK, StatusOK
    <3>2. i # walk
      BY <2>3, <3>1 DEF h
    <3> QED BY <1>3, <3>1, <3>2
  <2>7. HashOK(n)'
    <3>1. CASE hashes'[n] = NoFile
      BY <1>1, <1>5, <3>1 DEF HashOK
    <3>2. CASE /\ files'[n] = files[n] /\ hashes'[n] = hashes[n]
               /\ ~(h.temp = 1 /\ h.name = n)
      <4>1. Awaited(n) => Awaited(n)'
        <5> SUFFICES ASSUME NEW i \in DOMAIN list, list[i].name = n, list[i].updated,
                            list[i].temp = 1, walk <= i
                     PROVE  walk + 1 <= i
          BY <1>1 DEF Awaited
        <5>1. i # walk
          BY <3>2 DEF h
        <5> QED BY <1>3, <5>1
      <4>2. Quiet => (hashes[n] # NoFile =>
                          files[n] # NoFile /\ (hashes[n] = files[n].version \/ Awaited(n)))
        BY <1>5, <2>1 DEF NameOK, HashOK
      <4> QED BY <1>1, <1>5, <1>10, <3>2, <4>1, <4>2 DEF HashOK
    <3> QED BY <2>3, <3>1, <3>2
  <2> QED BY <2>2, <2>4, <2>5, <2>6, <2>7 DEF NameOK
<1>12. KeptOK'
  <2> SUFFICES ASSUME NEW n \in kept.named \ renamed
               PROVE  /\ n \in NamesIn(leaprel.rows) /\ files'[n] # NoFile
                      /\ \A g \in Handles(list) : g.name = n => g.temp = 0
    BY <1>1, <1>7 DEF KeptOK
  <2>1. /\ n \in NamesIn(leaprel.rows) /\ files[n] # NoFile
        /\ \A g \in Handles(list) : g.name = n => g.temp = 0
    BY <1>1 DEF KeptOK
  <2>2. n \in Names
    BY <1>3 DEF TypeOK
  <2> QED BY <1>4, <1>8, <2>1, <2>2
<1>13. WreckOK'
  <2>1. \A n \in Names : files'[n] = NoFile \/ files'[n] = files[n]
    BY <1>8
  <2> QED BY <1>1, <1>5, <2>1 DEF WreckOK
<1>14. OpeningOK' /\ ClosedOK'
  BY <1>1 DEF OpeningOK, ClosedOK
<1> QED
  BY <1>6, <1>9, <1>11, <1>12, <1>13, <1>14

\* The database is closed.
LEMMA DisposedKeeps ==
    ASSUME CatalogueInv, DisposeDone
    PROVE  CatalogueInv'
<1> USE DEF CatalogueInv
<1>1. /\ op.at = "disposing" /\ walk > Len(list) /\ list' = <<>> /\ leaprel' = Unloaded(leaprel)
      /\ walk' = 1 /\ op' = Resting("closed")
      /\ UNCHANGED <<files, hashes, pending, made, kept, renamed, mishaps>>
  BY DEF DisposeDone
<1>2. TypeOK /\ list \in Seq(Handle) /\ walk \in Nat /\ DictionaryOK(leaprel)
  BY DEF CatalogueType, TypeOK
<1>3. DictionaryOK(leaprel') /\ leaprel'.rows = leaprel.rows
  BY <1>1, <1>2, StoredRows
<1>4. /\ op.rel = NoName /\ \A n \in Names : op.rel # n
      /\ mishaps \cap {"crash", "signal", "wreck"} = {} =>
             \A n \in Names : ~(files[n] # NoFile /\ files[n].stage = "header")
  BY <1>1, RestingNow
<1>5. /\ op' \in OpType /\ op'.at = "closed" /\ op'.rel = NoName /\ ~op'.compact
      /\ OpOK' /\ CompactOK'
  BY <1>1, RestingFields, RestingKeeps
<1>6. Handles(list)' = {} /\ \A n : ~Listed(list, n)' /\ Once(list, n)'
  BY <1>1 DEF Handles, Listed, Once
<1>7. CatalogueType'
  <2>1. list' \in Seq(Handle) /\ \A i \in DOMAIN list' : list'[i] \in Handle
    BY <1>1
  <2>2. TypeOK'
    BY <1>1, <1>2, <1>3, <1>5, <2>1 DEF TypeOK, OpType, DictionaryOK
  <2> QED BY <1>3, <1>6, <2>1, <2>2 DEF CatalogueType
<1>8. ~Active' /\ Faults' = Faults /\ (Quiet' <=> Quiet)
  BY <1>1, <1>5 DEF Active, Faults, Quiet
<1>9. \A i \in DOMAIN list : ~(walk <= i)
  BY <1>1, <1>2
<1>10. NamesOK'
  <2> SUFFICES ASSUME NEW n \in Names \ renamed PROVE NameOK(n)'
    BY <1>1 DEF NamesOK
  <2>1. NameOK(n)
    BY DEF NamesOK
  <2>2. RowsOK(n)'
    BY <1>1, <1>3, <1>8, <2>1 DEF NameOK, RowsOK, Whole
  <2>3. FilesOK(n)'
    BY <1>1, <1>4, <1>6, <1>8, <2>1 DEF NameOK, FilesOK
  <2>4. StatusOK(n)'
    <3>1. Faults = {} => ~(files[n] # NoFile /\ files[n].temp)
      BY <1>1, <1>4, <1>9, <2>1 DEF NameOK, StatusOK
    <3> QED BY <1>1, <1>6, <1>8, <3>1 DEF StatusOK
  <2>5. HashOK(n)'
    <3>1. ~Awaited(n)
      BY <1>1, <1>9 DEF Awaited
    <3>2. Quiet => (hashes[n] # NoFile => files[n] # NoFile /\ hashes[n] = files[n].version)
      BY <1>4, <2>1, <3>1 DEF NameOK, HashOK
    <3> QED BY <1>1, <1>5, <1>6, <1>8, <3>2 DEF HashOK, Making
  <2> QED BY <1>6, <2>2, <2>3, <2>4, <2>5 DEF NameOK
<1>11. KeptOK'
  BY <1>1, <1>3, <1>5 DEF KeptOK
<1>12. WreckOK'
  BY <1>1, <1>4 DEF WreckOK
<1>13. OpeningOK' /\ ClosedOK'
  BY <1>1, <1>5 DEF OpeningOK, ClosedOK
<1> QED
  BY <1>5, <1>7, <1>10, <1>11, <1>12, <1>13

-------------------------------------------------------------------------------
\* The beginning of a session.

\* leaprel is read.
LEMMA OpenKeeps ==
    ASSUME CatalogueInv, Open
    PROVE  CatalogueInv'
<1> USE DEF CatalogueInv
<1> DEFINE h == [name |-> LeapRel, temp |-> 0, updated |-> FALSE, table |-> NoTable]
<1>1. PICK garbage \in BOOLEAN : leaprel' = Reloaded(leaprel, garbage)
  BY DEF Open
<1>2. /\ op.at = "closed" /\ list' = <<h>> /\ pending' = NamesIn(leaprel.rows)
      /\ op' = Resting("opening")
      /\ UNCHANGED <<files, hashes, walk, made, kept, renamed, mishaps>>
  BY DEF Open
<1>3. TypeOK /\ DictionaryOK(leaprel) /\ list = <<>>
  BY <1>2 DEF CatalogueType, ClosedOK
<1>4. DictionaryOK(leaprel') /\ leaprel'.rows = leaprel.rows
  BY <1>1, <1>3, StoredRows
<1>5. /\ op.rel = NoName /\ \A n \in Names : op.rel # n
      /\ mishaps \cap {"crash", "signal", "wreck"} = {} =>
             \A n \in Names : ~(files[n] # NoFile /\ files[n].stage = "header")
  BY <1>2, RestingNow
<1>6. /\ op' \in OpType /\ op'.at = "opening" /\ op'.rel = NoName /\ ~op'.compact
      /\ OpOK' /\ CompactOK'
  BY <1>2, RestingFields, RestingKeeps
<1>7. h \in Handle /\ h.name = LeapRel /\ h.updated = FALSE
  BY DEF Handle
<1>8. NamesIn(leaprel.rows) \subseteq Names
  BY <1>3, RowNames
<1> HIDE DEF h
<1>9. /\ list' \in Seq(Handle) /\ DOMAIN list' = {1} /\ list'[1] = h
      /\ Handles(list)' = {h}
  BY <1>2, <1>7 DEF Handles
<1>10. \A n \in Names : ~Listed(list, n)' /\ ~Listed(list, n) /\ Once(list, n)'
  BY <1>3, <1>7, <1>9, NameAssumption DEF Listed, Handles, Once
<1>11. CatalogueType'
  <2>1. \A i \in DOMAIN list' : list'[i] \in Handle
    BY <1>7, <1>9
  <2>2. TypeOK'
    BY <1>2, <1>3, <1>4, <1>6, <1>8, <2>1 DEF TypeOK, OpType, DictionaryOK
  <2> QED BY <1>4, <1>7, <1>9, <2>2 DEF CatalogueType
<1>12. ~Active' /\ Faults' = Faults /\ (Quiet' <=> Quiet)
  BY <1>2, <1>6 DEF Active, Faults, Quiet
<1>13. NamesOK'
  <2> SUFFICES ASSUME NEW n \in Names \ renamed PROVE NameOK(n)'
    BY <1>2 DEF NamesOK
  <2>1. NameOK(n)
    BY DEF NamesOK
  <2>2. (\A g \in Handles(list)' : g.name # n) /\ Handles(list) = {}
    BY <1>3, <1>10 DEF Listed, Handles
  <2>3. RowsOK(n)'
    BY <1>2, <1>4, <1>12, <2>1 DEF NameOK, RowsOK, Whole
  <2>4. FilesOK(n)'
    BY <1>2, <1>5, <1>10, <1>12, <2>1 DEF NameOK, FilesOK
  <2>5. StatusOK(n)'
    <3>1. Faults = {} => ~(files[n] # NoFile /\ files[n].temp)
      BY <1>2, <1>5, <2>1, <2>2 DEF NameOK, StatusOK
    <3> QED BY <1>2, <1>12, <2>2, <3>1 DEF StatusOK
  <2>6. HashOK(n)'
    <3>1. ~Awaited(n)
      BY <1>2, <2>2 DEF Awaited
    <3>2. Quiet => (hashes[n] # NoFile => files[n] # NoFile /\ hashes[n] = files[n].version)
      BY <1>5, <2>1, <3>1 DEF NameOK, HashOK
    <3> QED BY <1>2, <1>6, <1>12, <2>2, <3>2 DEF HashOK, Making
  <2> QED BY <1>10, <2>3, <2>4, <2>5, <2>6 DEF NameOK
<1>14. OpeningOK'
  <2>1. ListNames' = {}
    BY <1>7, <1>9 DEF ListNames
  <2> QED BY <1>2, <1>4, <1>7, <1>8, <1>9, <2>1, NameAssumption DEF OpeningOK
<1>15. KeptOK'
  BY <1>2, <1>4, <1>6 DEF KeptOK
<1>16. WreckOK'
  BY <1>2, <1>5 DEF WreckOK
<1>17. ClosedOK'
  BY <1>6 DEF ClosedOK
<1> QED
  BY <1>6, <1>11, <1>13, <1>14, <1>15, <1>16, <1>17

\* relation_new_read, of a name that leaprel has a row of.
LEMMA OpenRelationKeeps ==
    ASSUME CatalogueInv, NEW n \in Names, OpenRelation(n)
    PROVE  CatalogueInv'
<1> USE DEF CatalogueInv
<1>1. /\ op.at = "opening" /\ n \in pending /\ files[n] # NoFile
      /\ pending' = pending \ {n}
      /\ UNCHANGED <<files, hashes, leaprel, op, walk, made, kept, renamed, mishaps>>
  BY DEF OpenRelation, disk
<1>2. PICK t \in IF files[n].stage = "empty" THEN 0 .. 2 ELSE {Flag(files[n].temp)} :
         list' = relation_insert(list, [name |-> n, temp |-> t, updated |-> FALSE,
                                        table |-> IF hashes[n] # NoFile THEN NoTable
                                                  ELSE files[n].version])
  BY DEF OpenRelation
<1> DEFINE h == [name |-> n, temp |-> t, updated |-> FALSE,
                 table |-> IF hashes[n] # NoFile THEN NoTable ELSE files[n].version]
<1>3. TypeOK /\ list \in Seq(Handle) /\ DictionaryOK(leaprel) /\ pending \subseteq Names
  BY DEF CatalogueType, TypeOK
<1>4. /\ h \in Handle /\ h.name = n /\ h.updated = FALSE /\ h.temp = t
      /\ h.table = IF hashes[n] # NoFile THEN NoTable ELSE files[n].version
  <2>1. files[n].version \in Versions
    BY <1>1, <1>3, FileIsThere, FileFields
  <2>2. t \in 0 .. 2
    BY DEF Flag
  <2> QED BY <2>1, <2>2 DEF Handle
<1>5. list' = relation_insert(list, h)
  BY <1>2
<1> HIDE DEF h
<1>6. /\ NamesIn(leaprel.rows) = ListNames \cup pending
      /\ \A m \in ListNames : files[m] # NoFile
      /\ \A g \in Handles(list) : g.name \notin pending /\ ~g.updated
  BY <1>1 DEF OpeningOK
<1>7. ~Listed(list, n)
  BY <1>1, <1>6 DEF Listed
<1>8. /\ list' \in Seq(Handle)
      /\ Handles(list') = Handles(list) \cup {h}
      /\ \A m : m # n /\ Once(list, m) => Once(list', m)
      /\ Once(list', n)
  <2> DEFINE u == relation_insert(list, h)
  <2>1. /\ u \in Seq(Handle)
        /\ Handles(u) = Handles(list) \cup {h}
        /\ \A m : m # n /\ Once(list, m) => Once(u, m)
        /\ Once(u, n)
    BY <1>3, <1>4, <1>7, InsertedList
  <2> HIDE DEF u
  <2> QED BY <1>5, <2>1 DEF u
<1>9. Handles(list)' = Handles(list) \cup {h}
  BY <1>8 DEF Handles
<1>10. \A g : g.name # n => (g \in Handles(list)' <=> g \in Handles(list))
  BY <1>4, <1>9
<1>11. \A g \in Handles(list)' : g.name = n => g = h
  BY <1>7, <1>9 DEF Listed
<1>12. /\ op.rel = NoName /\ ~op.compact /\ \A m \in Names : op.rel # m
       /\ mishaps \cap {"crash", "signal", "wreck"} = {} =>
              \A m \in Names : ~(files[m] # NoFile /\ files[m].stage = "header")
  BY <1>1, RestingNow
<1>13. OpOK' /\ CompactOK'
  BY <1>1, <1>12, RestingKeeps
<1>14. CatalogueType'
  <2>1. \A i \in DOMAIN list' : list'[i] \in Handle
    BY <1>8
  <2>2. TypeOK'
    BY <1>1, <1>3, <2>1 DEF TypeOK
  <2>3. \A g \in Handles(list)' : g.updated => g.table \in Versions
    BY <1>4, <1>9 DEF CatalogueType
  <2> QED BY <1>1, <1>8, <2>2, <2>3 DEF CatalogueType
<1>15. ~Active' /\ Faults' = Faults /\ (Quiet' <=> Quiet)
  BY <1>1 DEF Active, Faults, Quiet
<1>16. NamesOK'
  <2> SUFFICES ASSUME NEW m \in Names \ renamed PROVE NameOK(m)'
    BY <1>1 DEF NamesOK
  <2>1. NameOK(m)
    BY DEF NamesOK
  <2>2. Once(list, m)'
    <3>1. Once(list', m)
      BY <1>8, <2>1 DEF NameOK
    <3> QED BY <3>1 DEF Once
  <2>3. RowsOK(m)'
    BY <1>1, <1>15, <2>1 DEF NameOK, RowsOK, Whole
  <2>4. Listed(list, m)' => m = n \/ Listed(list, m)
    BY <1>10 DEF Listed
  <2>5. FilesOK(m)'
    BY <1>1, <1>15, <2>1, <2>4 DEF NameOK, FilesOK
  <2>6. Awaited(m)' <=> Awaited(m)
    BY <1>1, <1>4, <1>9 DEF Awaited
  <2>7. CASE m # n
    <3>1. StatusOK(m)'
      BY <1>1, <1>10, <1>15, <2>1, <2>7 DEF NameOK, StatusOK
    <3>2. HashOK(m)'
      BY <1>1, <1>10, <1>12, <1>15, <2>1, <2>6, <2>7 DEF NameOK, HashOK
    <3> QED BY <2>2, <2>3, <2>5, <3>1, <3>2 DEF NameOK
  <2>8. CASE m = n
    <3>1. \A g \in Handles(list) : g.name # n
      BY <1>7 DEF Listed
    <3>2. StatusOK(n)'
      <4>1. Faults = {} => files[n].stage # "empty" /\ ~files[n].temp
        BY <1>1, <1>12, <2>1, <2>8, <3>1 DEF NameOK, FilesOK, StatusOK
      <4>2. Faults = {} => h.temp = Flag(files[n].temp)
        BY <1>4, <4>1
      <4> QED BY <1>1, <1>11, <1>15, <4>1, <4>2 DEF StatusOK
    <3>3. HashOK(n)'
      <4>1. ~Awaited(n)
        BY <1>1, <3>1 DEF Awaited
      <4>2. Quiet => (hashes[n] # NoFile => files[n] # NoFile /\ hashes[n] = files[n].version)
        BY <1>12, <2>1, <2>8, <4>1 DEF NameOK, HashOK
      <4>3. Quiet => \/ h.table = files[n].version
                     \/ /\ h.table = NoTable /\ ~h.updated
                        /\ hashes[n] # NoFile /\ hashes[n] = files[n].version
        BY <1>4, <4>2
      <4> QED BY <1>1, <1>11, <1>12, <1>15, <4>2, <4>3 DEF HashOK
    <3> QED BY <2>2, <2>3, <2>5, <2>8, <3>2, <3>3 DEF NameOK
  <2> QED BY <2>7, <2>8
<1>17. OpeningOK'
  <2>1. n # LeapRel
    BY NameAssumption
  <2>2. ListNames' = ListNames \cup {n}
    <3>1. ListNames = {g.name : g \in Handles(list)} \ {LeapRel}
      BY DEF ListNames, Handles
    <3>2. ListNames' = {g.name : g \in Handles(list)'} \ {LeapRel}
      BY DEF ListNames, Handles
    <3> QED BY <1>4, <1>9, <2>1, <3>1, <3>2
  <2>3. NamesIn(leaprel.rows) = ListNames' \cup pending'
    BY <1>1, <1>6, <2>2
  <2>4. \A m \in ListNames' : files[m] # NoFile
    BY <1>1, <1>6, <2>2
  <2>5. \A g \in Handles(list)' : g.name \notin pending' /\ ~g.updated
    BY <1>1, <1>4, <1>6, <1>9
  <2> QED BY <1>1, <2>3, <2>4, <2>5 DEF OpeningOK
<1>18. KeptOK'
  BY <1>1 DEF KeptOK
<1>19. WreckOK'
  BY <1>1, <1>12 DEF WreckOK
<1>20. ClosedOK'
  BY <1>1 DEF ClosedOK
<1> QED
  BY <1>13, <1>14, <1>16, <1>17, <1>18, <1>19, <1>20

\* The row of a relation that has no file is deleted.
LEMMA OpenMissingKeeps ==
    ASSUME CatalogueInv, NEW n \in Names, OpenMissing(n)
    PROVE  CatalogueInv'
<1> USE DEF CatalogueInv
<1>1. /\ op.at = "opening" /\ n \in pending /\ files[n] = NoFile
      /\ leaprel' = Erased(leaprel, RowsOf(leaprel, n)) /\ pending' = pending \ {n}
      /\ UNCHANGED <<list, files, hashes, op, walk, made, kept, renamed, mishaps>>
  BY DEF OpenMissing
<1>2. TypeOK /\ DictionaryOK(leaprel) /\ pending \subseteq Names
  BY DEF CatalogueType, TypeOK
<1>3. DictionaryOK(leaprel') /\ leaprel'.rows = leaprel.rows \ RowsOf(leaprel, n)
  BY <1>1, <1>2, RowNames, ErasedRows
<1>4. NamesIn(leaprel'.rows) = NamesIn(leaprel.rows) \ {n}
  BY <1>3 DEF NamesIn, RowsOf
<1>5. /\ op.rel = NoName /\ ~op.compact /\ \A m \in Names : op.rel # m
      /\ mishaps \cap {"crash", "signal", "wreck"} = {} =>
             \A m \in Names : ~(files[m] # NoFile /\ files[m].stage = "header")
  BY <1>1, RestingNow
<1>6. OpOK' /\ CompactOK'
  BY <1>1, <1>5, RestingKeeps
<1>7. Handles(list)' = Handles(list) /\ (\A m : Listed(list, m)' <=> Listed(list, m))
      /\ ListNames' = ListNames
  BY <1>1 DEF Handles, Listed, ListNames
<1>8. CatalogueType'
  <2>1. TypeOK'
    BY <1>1, <1>2, <1>3 DEF TypeOK, DictionaryOK
  <2> QED BY <1>1, <1>3, <1>7, <2>1 DEF CatalogueType
<1>9. ~Active' /\ Faults' = Faults /\ (Quiet' <=> Quiet)
  BY <1>1 DEF Active, Faults, Quiet
<1>10. NamesOK'
  <2> SUFFICES ASSUME NEW m \in Names \ renamed PROVE NameOK(m)'
    BY <1>1 DEF NamesOK
  <2>1. NameOK(m)
    BY DEF NamesOK
  <2>2. Once(list, m)'
    BY <1>1, <2>1 DEF NameOK, Once
  <2>3. RowsOK(m)'
    BY <1>1, <1>3, <1>9, <2>1 DEF NameOK, RowsOK, Whole
  <2>4. FilesOK(m)' /\ StatusOK(m)'
    BY <1>1, <1>7, <1>9, <2>1 DEF NameOK, FilesOK, StatusOK
  <2>5. HashOK(m)'
    <3>1. Awaited(m)' <=> Awaited(m)
      BY <1>1, <1>7 DEF Awaited
    <3> QED BY <1>1, <1>7, <1>9, <2>1, <3>1 DEF NameOK, HashOK
  <2> QED BY <2>2, <2>3, <2>4, <2>5 DEF NameOK
<1>11. OpeningOK'
  <2>1. /\ NamesIn(leaprel.rows) = ListNames \cup pending
        /\ \A m \in ListNames : files[m] # NoFile
        /\ \A g \in Handles(list) : g.name \notin pending /\ ~g.updated
    BY <1>1 DEF OpeningOK
  <2>2. n \notin ListNames
    BY <1>1, <2>1
  <2>3. NamesIn(leaprel'.rows) = ListNames \cup pending'
    BY <1>1, <1>4, <2>1, <2>2
  <2> QED BY <1>1, <1>7, <2>1, <2>3 DEF OpeningOK
<1>12. KeptOK'
  <2> SUFFICES ASSUME NEW m \in kept.named \ renamed
               PROVE  m \in NamesIn(leaprel'.rows) /\ files[m] # NoFile
    BY <1>1 DEF KeptOK
  <2>1. m \in NamesIn(leaprel.rows) /\ files[m] # NoFile
    BY <1>1 DEF KeptOK
  <2> QED BY <1>1, <1>4, <2>1
<1>13. WreckOK'
  BY <1>1, <1>5 DEF WreckOK
<1>14. ClosedOK'
  BY <1>1 DEF ClosedOK
<1> QED
  BY <1>6, <1>8, <1>10, <1>11, <1>12, <1>13, <1>14

\* The database is open.
LEMMA OpenDoneKeeps ==
    ASSUME CatalogueInv, OpenDone
    PROVE  CatalogueInv'
<1> USE DEF CatalogueInv
<1>1. /\ op.at = "opening" /\ pending = {} /\ op' = Resting("idle")
      /\ UNCHANGED <<list, files, hashes, leaprel, walk, pending, made, kept, renamed, mishaps>>
  BY DEF OpenDone, Finished, disk
<1>2. TypeOK /\ list \in Seq(Handle)
  BY DEF CatalogueType
<1>3. /\ op' \in OpType /\ op'.at = "idle" /\ op'.rel = NoName /\ ~op'.compact
      /\ OpOK' /\ CompactOK'
  BY <1>1, RestingFields, RestingKeeps
<1>4. Handles(list)' = Handles(list) /\ \A m : Listed(list, m)' <=> Listed(list, m)
  BY <1>1 DEF Handles, Listed
<1>5. CatalogueType'
  <2>1. TypeOK'
    BY <1>1, <1>2, <1>3 DEF TypeOK, OpType
  <2> QED BY <1>1, <1>4, <2>1 DEF CatalogueType
<1>6. /\ op.rel = NoName /\ \A m \in Names : op.rel # m
      /\ mishaps \cap {"crash", "signal", "wreck"} = {} =>
             \A m \in Names : ~(files[m] # NoFile /\ files[m].stage = "header")
  BY <1>1, RestingNow
<1>7. Active' /\ Faults' = Faults /\ (Quiet' <=> Quiet) /\ \A m \in Names : op'.rel # m
  BY <1>1, <1>3, NameAssumption DEF Active, Faults, Quiet
<1>8. \A m \in Names : Listed(list, m) <=> m \in NamesIn(leaprel.rows)
  BY <1>1, <1>2, ListedNames DEF OpeningOK
<1>9. NamesOK'
  <2> SUFFICES ASSUME NEW m \in Names \ renamed PROVE NameOK(m)'
    BY <1>1 DEF NamesOK
  <2>1. NameOK(m)
    BY DEF NamesOK
  <2>2. Once(list, m)'
    BY <1>1, <2>1 DEF NameOK, Once
  <2>3. RowsOK(m)'
    <3>1. m \in NamesIn(leaprel.rows) => m \in Mentioned(leaprel)
      BY DEF NamesIn, Mentioned
    <3>2. Whole(m) => \A r \in leaprel.rows : r.name = m => r.attributes = 1
      BY <2>1 DEF NameOK, RowsOK
    <3>3. Whole(m)' <=> Whole(m)
      BY <1>1 DEF Whole
    <3> QED BY <1>1, <1>4, <1>7, <1>8, <3>1, <3>2, <3>3 DEF RowsOK
  <2>4. FilesOK(m)' /\ StatusOK(m)'
    BY <1>1, <1>3, <1>4, <1>6, <1>7, <2>1 DEF NameOK, FilesOK, StatusOK
  <2>5. HashOK(m)'
    <3>1. Awaited(m)' <=> Awaited(m)
      BY <1>1, <1>3, <1>4 DEF Awaited
    <3> QED BY <1>1, <1>4, <1>6, <1>7, <2>1, <3>1 DEF NameOK, HashOK
  <2> QED BY <2>2, <2>3, <2>4, <2>5 DEF NameOK
<1>10. WreckOK'
  BY <1>1, <1>6 DEF WreckOK
<1> QED
  BY <1>3, <1>5, <1>7, <1>9, <1>10, ActiveKeeps

-------------------------------------------------------------------------------
\* The invariant.

\* A new database.
LEMMA InitKeeps == Init => CatalogueInv
<1> SUFFICES ASSUME Init PROVE CatalogueInv
  OBVIOUS
<1>1. /\ list = <<>> /\ (\A n \in Names : files[n] = NoFile /\ hashes[n] = NoFile)
      /\ files \in [Names -> Files \cup {NoFile}]
      /\ hashes \in [Names -> Versions \cup {NoFile}]
      /\ leaprel = [rows |-> {}, front |-> {}, gap |-> FALSE, read |-> FALSE,
                    table |-> {}, saved |-> {}, changed |-> FALSE]
      /\ op = Resting("closed") /\ walk = 1 /\ pending = {} /\ made = 0
      /\ kept = [all |-> {}, named |-> {}] /\ renamed = {} /\ mishaps = {}
  BY DEF Init
<1>2. op \in OpType /\ op.at = "closed" /\ op.rel = NoName /\ ~op.compact
  BY <1>1, RestingFields
<1>3. OpOK /\ CompactOK
  BY <1>2 DEF OpOK, CompactOK, Making, Removing, Moving
<1>4. DictionaryOK(leaprel)
  BY <1>1 DEF DictionaryOK, IsDictionary
<1>5. Handles(list) = {} /\ list \in Seq(Handle) /\ \A n : Once(list, n) /\ ~Listed(list, n)
  BY <1>1 DEF Handles, Once, Listed
<1>6. CatalogueType
  <2>1. \A i \in DOMAIN list : list[i] \in Handle
    BY <1>1
  <2>2. made \in Versions
    BY <1>1, MadeAssumption DEF Versions
  <2>3. TypeOK
    BY <1>1, <1>2, <1>4, <2>1, <2>2 DEF TypeOK, OpType, DictionaryOK
  <2> QED BY <1>4, <1>5, <2>3 DEF CatalogueType
<1>7. NamesOK
  <2> SUFFICES ASSUME NEW n \in Names PROVE NameOK(n)
    BY DEF NamesOK
  <2>1. RowsOK(n)
    BY <1>1, <1>2 DEF RowsOK, Whole, Active
  <2>2. FilesOK(n) /\ StatusOK(n) /\ HashOK(n)
    BY <1>1, <1>2, <1>5 DEF FilesOK, StatusOK, HashOK, Making
  <2> QED BY <1>5, <2>1, <2>2 DEF NameOK
<1>8. OpeningOK /\ KeptOK /\ WreckOK /\ ClosedOK
  BY <1>1, <1>2 DEF OpeningOK, KeptOK, WreckOK, ClosedOK
<1> QED
  BY <1>3, <1>6, <1>7, <1>8 DEF CatalogueInv

\* The program does nothing.
LEMMA StutterKeeps == CatalogueInv /\ UNCHANGED vars => CatalogueInv'
<1> SUFFICES ASSUME CatalogueInv, UNCHANGED vars PROVE CatalogueInv'
  OBVIOUS
<1> USE DEF vars
<1>1. CatalogueType'
  BY DEF CatalogueInv, CatalogueType, TypeOK, Handles
<1>2. OpOK' /\ CompactOK'
  BY DEF CatalogueInv, OpOK, CompactOK, Listed, Handles
<1>3. NamesOK'
  BY DEF CatalogueInv, NamesOK, NameOK, Once, RowsOK, FilesOK, StatusOK, HashOK, Awaited,
         Quiet, Faults, Active, Whole, Listed, Handles
<1>4. OpeningOK' /\ KeptOK' /\ WreckOK' /\ ClosedOK'
  BY DEF CatalogueInv, OpeningOK, KeptOK, WreckOK, ClosedOK, ListNames, Handles
<1> QED
  BY <1>1, <1>2, <1>3, <1>4 DEF CatalogueInv

\* Each action keeps the invariant.
LEMMA StepKeeps == CatalogueInv /\ [Next]_vars => CatalogueInv'
<1> SUFFICES ASSUME CatalogueInv, [Next]_vars PROVE CatalogueInv'
  OBVIOUS
<1>1. ASSUME Creation PROVE CatalogueInv'
  <2>1. ASSUME NEW n \in Names, NEW temp \in BOOLEAN, relation_create(n, temp)
        PROVE  CatalogueInv'
    BY <2>1, CreateKeeps
  <2>2. CASE CreateRow
    BY <2>2, CreateRowKeeps
  <2>3. CASE CreateLink
    BY <2>3, CreateLinkKeeps
  <2>4. CASE CreateAttributes
    BY <2>4, CreateAttributesKeeps
  <2>5. ASSUME NEW filled \in BOOLEAN, CreateHeader(filled) PROVE CatalogueInv'
    BY <2>5, CreateHeaderKeeps, CompactHeaderKeeps
  <2>6. CASE CreateAbandoned
    BY <2>6, AbandonKeeps
  <2>7. CASE CreateRefused
    BY <2>7, RefuseKeeps
  <2> QED BY <1>1, <2>1, <2>2, <2>3, <2>4, <2>5, <2>6, <2>7 DEF Creation
<1>2. ASSUME Removal PROVE CatalogueInv'
  BY <1>2, RemoveKeeps, RemoveRowsKeeps, RemoveFileKeeps, RemoveHashKeeps DEF Removal
<1>3. ASSUME Renaming PROVE CatalogueInv'
  BY <1>3, RenameKeeps, RenameHashKeeps DEF Renaming
<1>4. ASSUME Compaction PROVE CatalogueInv'
  BY <1>4, CompactKeeps, CompactDiesKeeps, CompactMoveKeeps, CompactTitleKeeps DEF Compaction
<1>5. ASSUME Changing PROVE CatalogueInv'
  BY <1>5, ChangeKeeps, ChangeRowKeeps, InsertKeeps DEF Changing
<1>6. ASSUME Closing PROVE CatalogueInv'
  BY <1>6, CloseKeeps, SaveKeeps, SavedKeeps, DisposeNextKeeps, DisposedKeeps DEF Closing
<1>7. ASSUME Opening PROVE CatalogueInv'
  BY <1>7, OpenKeeps, OpenRelationKeeps, OpenMissingKeeps, OpenWreckKeeps, OpenDoneKeeps
     DEF Opening
<1> QED
  BY <1>1, <1>2, <1>3, <1>4, <1>5, <1>6, <1>7, CrashKeeps, StutterKeeps DEF Next

\* The inductive invariant holds of every behaviour of the catalogue.
THEOREM CatalogueInvariant == Spec => []CatalogueInv
<1>1. Init => CatalogueInv
  BY InitKeeps
<1>2. CatalogueInv /\ [Next]_vars => CatalogueInv'
  BY StepKeeps
<1> QED
  BY <1>1, <1>2, PTL DEF Spec

-------------------------------------------------------------------------------
\* What the catalogue is for.

\* List, files, hash files, leaprel and the operation in hand are what they are taken
\* for, in every session.
THEOREM CatalogueTyped == Spec => []TypeOK
<1>1. CatalogueInv => TypeOK
  BY DEF CatalogueInv, CatalogueType
<1> QED
  BY <1>1, CatalogueInvariant, PTL

\* Whenever the program waits for a command, each permanent relation that is complete
\* and was not renamed has its row in leaprel, unless its table remembers a row of the
\* relation that the file has not.
THEOREM RelationsCatalogued == Spec => []Catalogued
<1>1. CatalogueInv => Catalogued
  <2> SUFFICES ASSUME CatalogueInv, Idle, NEW n \in ListNames, n \notin renamed,
                      n \notin NamesIn(Phantoms(leaprel)), Standing(n)
               PROVE  n \in NamesIn(leaprel.rows)
    BY DEF Catalogued
  <2>1. n \in Names /\ Listed(list, n)
    BY ListedNames DEF CatalogueInv, CatalogueType
  <2>2. Active
    BY DEF Idle, Active
  <2>3. n \in Mentioned(leaprel)
    BY <2>1, <2>2 DEF CatalogueInv, NamesOK, NameOK, RowsOK, Standing
  <2> QED BY <2>3 DEF Mentioned, NamesIn, Phantoms
<1> QED
  BY <1>1, CatalogueInvariant, PTL

\* Whenever the program waits for a command, no row of leaprel is of a relation that is
\* not in memory, but for names that relations were given or had before.
THEOREM RowsHaveRelations == Spec => []NoStrayRows
<1>1. CatalogueInv => NoStrayRows
  <2> SUFFICES ASSUME CatalogueInv, Idle, NEW n \in NamesIn(leaprel.rows), n \notin renamed
               PROVE  n \in ListNames
    BY DEF NoStrayRows
  <2>1. n \in Names
    BY RowNames DEF CatalogueInv, CatalogueType
  <2>2. Active /\ op.at = "idle"
    BY DEF Idle, Active
  <2>3. Listed(list, n)
    BY <2>1, <2>2 DEF CatalogueInv, NamesOK, NameOK, RowsOK
  <2> QED BY <2>1, <2>3, ListedNames DEF CatalogueInv, CatalogueType
<1> QED
  BY <1>1, CatalogueInvariant, PTL

\* Between undisturbed sessions that made no relation anew, a hash file has its relation
\* and indexes the tuples that are in it.
THEOREM HashFilesFit == Spec => []HashesFit
<1>1. CatalogueInv => HashesFit
  <2> SUFFICES ASSUME CatalogueInv, op.at = "closed", Quiet, NEW n \in Names \ renamed,
                      hashes[n] # NoFile
               PROVE  files[n] # NoFile /\ files[n].version = hashes[n]
    BY DEF HashesFit, Quiet
  <2>1. list = <<>> /\ op.rel # n
    BY RestingNow DEF CatalogueInv, ClosedOK
  <2>2. ~Awaited(n)
    BY <2>1 DEF Awaited, Handles
  <2> QED BY <2>1, <2>2 DEF CatalogueInv, NamesOK, NameOK, HashOK
<1> QED
  BY <1>1, CatalogueInvariant, PTL

\* Between undisturbed sessions no temporary relation is on disk.
THEOREM TemporaryGone == Spec => []NothingTemporaryStays
<1>1. CatalogueInv => NothingTemporaryStays
  <2> SUFFICES ASSUME CatalogueInv, op.at = "closed", Faults = {}, NEW n \in Names \ renamed,
                      files[n] # NoFile, files[n].temp
               PROVE  FALSE
    BY DEF NothingTemporaryStays
  <2>1. list = <<>> /\ op.rel # n
    BY RestingNow DEF CatalogueInv, ClosedOK
  <2> QED BY <2>1 DEF CatalogueInv, NamesOK, NameOK, StatusOK, Handles
<1> QED
  BY <1>1, CatalogueInvariant, PTL

\* A database is opened by the last step of relations_open only.
LEMMA OpenedIsDone ==
    ASSUME CatalogueInv, Next, Opened
    PROVE  OpenDone
<1>1. op.at = "opening" /\ op'.at = "idle"
  BY DEF Opened
<1>2. ~Creation
  BY <1>1 DEF Creation, relation_create, CreateRow, CreateLink, CreateAttributes,
              CreateHeader, CreateAbandoned, CreateRefused, Idle
<1>3. ~Removal /\ ~Renaming
  BY <1>1 DEF Removal, relation_remove, RemoveRows, RemoveFile, RemoveHash, Renaming,
              relation_rename, RenameHash, Idle
<1>4. ~Compaction /\ ~Changing
  BY <1>1 DEF Compaction, rl_compact, CompactDies, CompactMove, CompactTitle, Changing,
              relation_change, ChangeRow, insert, Idle
<1>5. Resting("saving").at = "saving" /\ Resting("closed").at = "closed"
  BY RestingFields
<1>6. ~Closing
  BY <1>1, <1>5 DEF Closing, Close, Signal, Dispose, SaveNext, SaveDone, DisposeNext,
                    DisposeDone, Idle
<1>7. ~Crash
  BY <1>1, <1>5 DEF Crash, Die
<1>8. ~Open /\ \A n \in Names : ~OpenRelation(n) /\ ~OpenMissing(n) /\ ~OpenWreck(n)
  BY <1>1, <1>5 DEF Open, OpenRelation, OpenMissing, OpenWreck, Die
<1> QED
  BY <1>2, <1>3, <1>4, <1>6, <1>7, <1>8 DEF Next, Opening

\* What leaprel and the list are then.
LEMMA OpenedRows ==
    ASSUME CatalogueInv, OpenDone
    PROVE  /\ NamesIn(leaprel.rows) = ListNames
           /\ \A n \in ListNames : files[n] # NoFile
           /\ kept.named \ renamed \subseteq ListNames
           /\ UNCHANGED <<list, files, leaprel>> /\ ListNames' = ListNames
<1>1. op.at = "opening" /\ pending = {} /\ UNCHANGED <<list, files, leaprel>>
  BY DEF OpenDone, disk
<1>2. NamesIn(leaprel.rows) = ListNames /\ \A n \in ListNames : files[n] # NoFile
  BY <1>1 DEF CatalogueInv, OpeningOK
<1>3. kept.named \ renamed \subseteq ListNames
  BY <1>1, <1>2 DEF CatalogueInv, KeptOK
<1> QED
  BY <1>1, <1>2, <1>3 DEF ListNames

\* Once a database has been opened the rows of leaprel are those of the relations in
\* memory, and each of these has its file.
THEOREM OpeningRepairsRows == Spec => OpeningRepairs
<1>1. CatalogueInv /\ [Next]_vars =>
          [Opened => /\ NamesIn(leaprel'.rows) = ListNames'
                     /\ \A n \in ListNames' : files'[n] # NoFile]_vars
  <2> SUFFICES ASSUME CatalogueInv, Next, Opened
               PROVE  /\ NamesIn(leaprel'.rows) = ListNames'
                      /\ \A n \in ListNames' : files'[n] # NoFile
    OBVIOUS
  <2>1. OpenDone
    BY OpenedIsDone
  <2> QED BY <2>1, OpenedRows
<1> QED
  BY <1>1, CatalogueInvariant, PTL DEF Spec, OpeningRepairs

\* Closing, also out of the signal handler or cut short by a crash, and opening again
\* lose no permanent relation that leaprel had a row of.
THEOREM PermanentRelationsStay == Spec => PermanentStays
<1>1. CatalogueInv /\ [Next]_vars => [Opened => kept.named \ renamed \subseteq ListNames']_vars
  <2> SUFFICES ASSUME CatalogueInv, Next, Opened
               PROVE  kept.named \ renamed \subseteq ListNames'
    OBVIOUS
  <2>1. OpenDone
    BY OpenedIsDone
  <2> QED BY <2>1, OpenedRows
<1> QED
  BY <1>1, CatalogueInvariant, PTL DEF Spec, PermanentStays

\* The database fails to open only if an operation was interrupted before, or an operator
\* left its result half made.
THEOREM OpeningDies == Spec => OpeningDiesOfWrecks
<1>1. CatalogueInv /\ [Next]_vars =>
          [(\E n \in Names : OpenWreck(n)) =>
              mishaps \cap {"crash", "signal", "wreck"} # {}]_vars
  <2> SUFFICES ASSUME CatalogueInv, NEW n \in Names, OpenWreck(n)
               PROVE  mishaps \cap {"crash", "signal", "wreck"} # {}
    OBVIOUS
  <2>1. op.at = "opening" /\ files[n] # NoFile /\ files[n].stage = "header"
    BY DEF OpenWreck, Deadly
  <2> QED BY <2>1, RestingNow
<1> QED
  BY <1>1, CatalogueInvariant, PTL DEF Spec, OpeningDiesOfWrecks

===============================================================================
