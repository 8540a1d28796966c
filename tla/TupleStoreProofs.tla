--------------------------- MODULE TupleStoreProofs ---------------------------
(***************************************************************************)
(* The properties of TupleStore, for every set of tuples, every reading of  *)
(* them back, every table and every sequence of operations and crashes.     *)
(***************************************************************************)
EXTENDS TupleStore, HashTableProofs, SequenceTheorems, FiniteSetTheorems

\* The texts of the live tuples in the first n - 1 slots.
TextsBefore(n) == {text[slots[i].data] : i \in {j \in Live(slots) : j < n}}

\* No two live tuples have one text.
Distinct(s) == \A i, j \in Live(s) : text[s[i].data] = text[s[j].data] => i = j

\* The tables in use have no pointer that leads forward.
LinksOK == /\ table \notin {NoTable, Wild} => LinkedTable(table)
           /\ LinkedTable(copy.table)

\* A table that is being saved is in memory, and its file is on disk.  Until the
\* whole file is there it counts as changed, unless it was just built.
SavingOK == Saving => /\ table \notin {NoTable, Wild}
                      /\ hashfile # NoFile
                      /\ updated <=> op = "closing"

\* What the operation in progress says of the table and the scan.
ControlOK ==
    /\ op \in {"closed", "saving", "idle", "closing"} => AtRest
    /\ op = "closed" => table = NoTable
    /\ op = "opening" => table \notin {NoTable, Wild} /\ hashfile = NoFile /\ ~updated
    /\ SavingOK
    /\ table = NoTable => ~updated /\ (op # "closed" => hashfile # NoFile)
    /\ table = Wild => updated /\ "chain" \in damage
    /\ op # "update" => pending = NoTuple
    /\ copy = [slots |-> copy.slots, table |-> copy.table, updated |-> copy.updated]

\* While the index can be trusted no key is linked twice, and a hash file that
\* would be trusted again holds what the table holds.
IndexOK ==
    /\ op = "opening" => KeysIn(table) = TextsBefore(at)
    /\ Sound => OneNodeEach(TheTable)
    /\ Sound /\ ~updated /\ op # "saving" /\ hashfile # NoFile =>
          KeysIn(Loaded(hashfile)) = KeysIn(TheTable) /\ OneNodeEach(Loaded(hashfile))

\* rl_erase has read the slots in front of `at'.
EraseOK ==
    op = "erase" =>
        /\ before \ match \subseteq LiveData(slots)
        /\ LiveData(slots) \subseteq before
        /\ \A i \in Live(slots) : i < at => slots[i].data \notin match

\* rl_update has the same tuple in its hands that it has deleted.
UpdateOK ==
    op = "update" =>
        /\ epos <= Len(slots)
        /\ pending # NoTuple => at <= epos /\ at \notin Live(slots) /\ set \in Assignments

\* What the update makes of a tuple is stored, or about to be.
Made(d) == \/ stored[set[d]] \in LiveData(slots)
           \/ pending # NoTuple /\ stored[pending] = stored[set[d]]

\* The old tuples from `at' on are still to be read; all the others in the file
\* are meant to be there and, unless the index has refused it, what is meant to be
\* there is on its way.
UpdateMeans ==
    op = "update" /\ set \in Assignments =>
        /\ before \ match \subseteq LiveData(slots)
        /\ \A i \in Live(slots) :
              IF i <= epos
              THEN slots[i].data \in before /\ (i < at => slots[i].data \notin match)
              ELSE \E d \in before \cap match : slots[i].data = stored[set[d]]
        /\ pending # NoTuple => \E d \in before \cap match : pending = set[d]
        /\ damage = {} => \A d \in before \cap match :
              \/ \E i \in Live(slots) : at <= i /\ i <= epos /\ slots[i].data = d
              \/ Made(d)

\* `_temp' holds the tuples read so far, once each, and its table is theirs.
CompactOK ==
    IF op = "compact"
    THEN /\ Live(copy.slots) = DOMAIN copy.slots
         /\ Distinct(copy.slots)
         /\ LiveTexts(copy.slots) = TextsBefore(at)
         /\ KeysIn(copy.table) = TextsBefore(at)
         /\ OneNodeEach(copy.table)
    ELSE copy = NoCopy

\* The inductive invariant.
StoreInv == /\ TypeOK
            /\ LinksOK
            /\ ControlOK
            /\ IndexOK
            /\ DistinctTuples
            /\ IndexCovers
            /\ IndexExact
            /\ EraseOK
            /\ UpdateOK
            /\ UpdateSparesItsOwn
            /\ UpdateMeans
            /\ CompactOK

-------------------------------------------------------------------------------
\* Slots.

\* Tuples that were read back are tuples, with texts that are keys.
LEMMA DataIsTyped ==
    /\ \A t \in Tuples : stored[t] \in Data
    /\ \A d \in Data : d \in Tuples /\ text[d] \in Keys /\ stored[d] = d
    /\ \A t \in Tuples : text[t] \in Keys
BY TupleAssumption DEF Data

\* Live slots hold tuples that were read back.
LEMMA LiveSlots ==
    ASSUME NEW s \in Seq(Slot)
    PROVE  /\ DOMAIN s = 1 .. Len(s) /\ Len(s) \in Nat
           /\ Live(s) \subseteq DOMAIN s
           /\ \A i \in DOMAIN s : s[i] \in Slot /\ s[i].data \in Data
           /\ LiveTexts(s) \subseteq Keys
           /\ LiveData(s) \subseteq Data
<1>1. DOMAIN s = 1 .. Len(s) /\ Len(s) \in Nat
  OBVIOUS
<1>2. \A i \in DOMAIN s : s[i] \in Slot /\ s[i].data \in Data
  <2>1. \A r \in Slot : r.data \in Data
    BY DEF Slot
  <2> QED BY <1>1, <2>1
<1>3. Live(s) \subseteq DOMAIN s
  BY DEF Live
<1>4. LiveData(s) \subseteq Data
  BY <1>2, <1>3 DEF LiveData
<1>5. LiveTexts(s) \subseteq Keys
  BY <1>4, DataIsTyped DEF LiveTexts
<1> QED
  BY <1>1, <1>2, <1>3, <1>4, <1>5

\* Writing makes one slot live, and leaves the others as they were.
LEMMA AtWrites ==
    ASSUME NEW s \in Seq(Slot), NEW i \in 1 .. Len(s) + 1, NEW d \in Data
    PROVE  LET u == At(s, i, d)
           IN  /\ u \in Seq(Slot)
               /\ Len(u) >= Len(s)
               /\ Live(u) = Live(s) \cup {i}
               /\ u[i].data = d
               /\ \A j \in DOMAIN s : j # i => u[j] = s[j]
               /\ DOMAIN u = DOMAIN s \cup {i}
<1> DEFINE new == [status |-> "OK", data |-> d]
           u   == At(s, i, d)
<1>1. new \in Slot /\ new.status = "OK" /\ new.data = d
  BY DEF Slot
<1>2. Len(s) \in Nat /\ DOMAIN s = 1 .. Len(s)
  OBVIOUS
<1> HIDE DEF new
<1>3. ASSUME i \in DOMAIN s
      PROVE  /\ u \in Seq(Slot) /\ Len(u) = Len(s) /\ u[i] = new
             /\ DOMAIN u = DOMAIN s \cup {i}
             /\ \A j \in DOMAIN s : j # i => u[j] = s[j]
  <2>1. u = [s EXCEPT ![i] = new]
    BY <1>3 DEF At, new
  <2>2. /\ u \in Seq(Slot) /\ Len(u) = Len(s) /\ u[i] = new
        /\ \A j \in DOMAIN s : j # i => u[j] = s[j]
    BY <2>1, <1>1, <1>3
  <2>3. DOMAIN u = DOMAIN s \cup {i}
    BY <2>1, <1>3
  <2> QED
    BY <2>2, <2>3
<1>4. ASSUME i \notin DOMAIN s
      PROVE  /\ u \in Seq(Slot) /\ Len(u) = Len(s) + 1 /\ u[i] = new
             /\ DOMAIN u = DOMAIN s \cup {i}
             /\ \A j \in DOMAIN s : u[j] = s[j]
  <2>1. i = Len(s) + 1
    BY <1>2, <1>4
  <2>2. u = Append(s, new)
    BY <1>4 DEF At, new
  <2>3. /\ u \in Seq(Slot) /\ Len(u) = Len(s) + 1 /\ u[i] = new
        /\ \A j \in DOMAIN s : u[j] = s[j]
    BY <2>1, <2>2, <1>1
  <2>4. DOMAIN u = DOMAIN s \cup {i}
    <3>1. DOMAIN u = 1 .. Len(s) + 1
      BY <2>3
    <3> QED BY <3>1, <2>1, <1>2
  <2> QED
    BY <2>3, <2>4, <1>2
<1>5. /\ u \in Seq(Slot) /\ Len(u) >= Len(s) /\ u[i] = new
      /\ DOMAIN u = DOMAIN s \cup {i}
      /\ \A j \in DOMAIN s : j # i => u[j] = s[j]
  BY <1>2, <1>3, <1>4
<1> HIDE DEF u
<1>6. Live(u) = Live(s) \cup {i}
  BY <1>1, <1>5 DEF Live
<1> QED
  BY <1>1, <1>5, <1>6 DEF u

\* Striking a slot changes nothing but that it is not live.
LEMMA StrikeKills ==
    ASSUME NEW s \in Seq(Slot), NEW i \in DOMAIN s
    PROVE  LET u == Strike(s, i)
           IN  /\ u \in Seq(Slot)
               /\ Len(u) = Len(s) /\ DOMAIN u = DOMAIN s
               /\ Live(u) = Live(s) \ {i}
               /\ \A j \in DOMAIN s : u[j].data = s[j].data
<1> DEFINE u == Strike(s, i)
<1>1. Len(s) \in Nat /\ DOMAIN s = 1 .. Len(s) /\ \A j \in DOMAIN s : s[j] \in Slot
  OBVIOUS
<1> DEFINE struck(r) == [r EXCEPT !.status = "DELETED"]
<1>3. /\ struck(s[i]) \in Slot
      /\ struck(s[i]).status = "DELETED"
      /\ struck(s[i]).data = s[i].data
  <2>1. ASSUME NEW r \in Slot
        PROVE  struck(r) \in Slot /\ struck(r).status = "DELETED" /\ struck(r).data = r.data
    BY DEF Slot
  <2> HIDE DEF struck
  <2> QED BY <1>1, <2>1
<1>2. u = [s EXCEPT ![i] = struck(s[i])]
  BY DEF Strike
<1> HIDE DEF struck
<1>4. u \in Seq(Slot) /\ Len(u) = Len(s)
  BY <1>2, <1>3
<1>5. /\ u[i].status = "DELETED" /\ u[i].data = s[i].data
      /\ \A j \in DOMAIN s : j # i => u[j] = s[j]
  BY <1>1, <1>2, <1>3
<1> HIDE DEF u
<1>6. DOMAIN u = DOMAIN s
  BY <1>1, <1>4
<1> QED
  BY <1>4, <1>5, <1>6 DEF Live, u

-------------------------------------------------------------------------------
\* The index.

\* A table that knows the tuples of a file as well as the damage allows.
Indexed(s, t, d) ==
    /\ d \subseteq {"overwrite"} => /\ Distinct(s)
                                    /\ OneNodeEach(t)
                                    /\ LiveTexts(s) \subseteq KeysIn(t)
    /\ d = {} => KeysIn(t) \subseteq LiveTexts(s)

\* A linked table is neither of the values that stand for none.
LEMMA LinkedIsTable ==
    ASSUME NEW t, LinkedTable(t)
    PROVE  IsTable(t) /\ t # NoTable /\ t # Wild
BY TableIsReady DEF LinkedTable

\* The invariant's table, in memory or on disk, is linked, and its index is as
\* good as the damage allows.
LEMMA TableInUse ==
    ASSUME StoreInv
    PROVE  /\ Sane => LinkedTable(TheTable)
           /\ Sound => Sane
           /\ IndexInUse => Indexed(slots, TheTable, damage)
           /\ LinkedTable(Loaded(hashfile))
<1>1. hashfile = NoFile \/ IsHashFile(hashfile)
  BY DEF StoreInv, TypeOK, TableTypeOK
<1>2. LinkedTable(Loaded(hashfile))
  BY <1>1, LoadedLinked
<1>3. Sane => LinkedTable(TheTable)
  BY <1>2 DEF StoreInv, LinksOK, Sane, TheTable
<1>4. Sound => Sane
  BY DEF StoreInv, ControlOK, Sane, Sound
<1>5. IndexKeys = KeysIn(TheTable)
  BY DEF IndexKeys, KeysIn
<1>6. damage = {} => Sound
  BY DEF Sound
<1>7. IndexInUse => Indexed(slots, TheTable, damage)
  BY <1>5, <1>6
  DEF StoreInv, IndexOK, DistinctTuples, Distinct, IndexCovers, IndexExact, Indexed, Sound
<1> QED
  BY <1>2, <1>3, <1>4, <1>7

\* An index that is right when the table has been changed keeps the parts of the
\* invariant that are about the index.
LEMMA IndexedChange ==
    ASSUME LinkedTable(table') \/ (table' = Wild /\ "chain" \in damage'),
           LinkedTable(table') => Indexed(slots', table', damage'),
           updated' = TRUE, op' # "opening"
    PROVE  IndexOK' /\ DistinctTuples' /\ IndexCovers' /\ IndexExact'
<1>1. Sound' => LinkedTable(table') /\ Indexed(slots', table', damage')
  BY DEF Sound
<1>2. LinkedTable(table') => TheTable' = table' /\ table' # Wild
  BY LinkedIsTable DEF TheTable
<1>3. Sound' => /\ Distinct(slots') /\ OneNodeEach(TheTable')
                /\ LiveTexts(slots') \subseteq KeysIn(TheTable')
  BY <1>1, <1>2 DEF Indexed, Sound
<1>4. damage' = {} => KeysIn(TheTable') \subseteq LiveTexts(slots')
  BY <1>1, <1>2 DEF Indexed, Sound
<1>5. IndexKeys' = KeysIn(TheTable')
  BY DEF IndexKeys, KeysIn
<1> QED
  BY <1>3, <1>4, <1>5 DEF IndexOK, DistinctTuples, Distinct, IndexCovers, IndexExact

\* tuple_write puts a new tuple where the file handle stands; it keeps the index.
LEMMA WriteKeepsIndex ==
    ASSUME StoreInv, Sane, IndexInUse, NEW t \in Tuples, NEW i \in 1 .. Len(slots) + 1,
           tuple_write(t, i)
    PROVE  /\ slots' \in Seq(Slot)
           /\ LinkedTable(table')
           /\ updated' = TRUE
           /\ damage \subseteq damage' /\ damage' \subseteq damage \cup {"text", "overwrite"}
           /\ \/ slots' = slots
              \/ /\ DOMAIN slots' = DOMAIN slots \cup {i}
                 /\ Len(slots') >= Len(slots)
                 /\ Live(slots') = Live(slots) \cup {i}
                 /\ slots'[i].data = stored[t]
                 /\ \A j \in DOMAIN slots : j # i => slots'[j] = slots[j]
           /\ Indexed(slots', table', damage')
           /\ damage' = {} => LiveData(slots') = LiveData(slots) \cup {stored[t]}
<1> DEFINE k == text[t]
<1>1. /\ slots \in Seq(Slot) /\ k \in Keys /\ stored[t] \in Data
      /\ Live(slots) \subseteq DOMAIN slots
      /\ \A j \in DOMAIN slots : slots[j].data \in Data
  BY DataIsTyped, LiveSlots DEF StoreInv, TypeOK
<1>2. LinkedTable(TheTable) /\ Indexed(slots, TheTable, damage)
  BY TableInUse
<1>3. /\ damage' = damage \cup (IF Plain(t) THEN {} ELSE {"text"})
                          \cup (IF IsNew(t) /\ i \in Live(slots) THEN {"overwrite"} ELSE {})
      /\ updated' = TRUE
  BY DEF tuple_write
<1>4. /\ Sound' => Plain(t)
      /\ damage' = {} => damage = {} /\ Plain(t) /\ (IsNew(t) => i \notin Live(slots))
      /\ Sound' => Sound
  BY <1>3 DEF Sound
<1>5. CASE IsNew(t)
  <2>1. slots' = At(slots, i, stored[t]) /\ table' = Inserted(TheTable, k)
    BY <1>5 DEF tuple_write, ReadBack
  <2>2. ~Found(TheTable, k) /\ k \notin KeysIn(TheTable)
    BY <1>5 DEF IsNew, KeysIn
  <2>3. /\ LinkedTable(table')
        /\ KeysIn(table') = KeysIn(TheTable) \cup {k}
        /\ OneNodeEach(TheTable) => OneNodeEach(table')
    BY <1>1, <1>2, <2>1, <2>2, InsertedKeys
  <2>4. /\ slots' \in Seq(Slot)
        /\ Len(slots') >= Len(slots)
        /\ Live(slots') = Live(slots) \cup {i}
        /\ slots'[i].data = stored[t]
        /\ \A j \in DOMAIN slots : j # i => slots'[j] = slots[j]
        /\ DOMAIN slots' = DOMAIN slots \cup {i}
    BY <1>1, <2>1, AtWrites
  <2>5. \A j \in Live(slots) \ {i} : slots'[j].data = slots[j].data
    BY <1>1, <2>4
  <2>6. LiveTexts(slots') \subseteq LiveTexts(slots) \cup {text[stored[t]]}
    BY <2>4, <2>5 DEF LiveTexts, LiveData
  <2>7. Sound' => /\ Distinct(slots')
                  /\ OneNodeEach(table')
                  /\ LiveTexts(slots') \subseteq KeysIn(table')
    <3> SUFFICES ASSUME Sound'
                 PROVE  /\ Distinct(slots')
                        /\ OneNodeEach(table')
                        /\ LiveTexts(slots') \subseteq KeysIn(table')
      OBVIOUS
    <3>1. text[stored[t]] = k
      BY <1>4 DEF Plain
    <3>2. Distinct(slots) /\ OneNodeEach(TheTable) /\ LiveTexts(slots) \subseteq KeysIn(TheTable)
      BY <1>2, <1>4 DEF Indexed, Sound
    <3>3. \A j \in Live(slots) : text[slots[j].data] # k
      BY <2>2, <3>2 DEF LiveTexts, LiveData
    <3>4. Distinct(slots')
      BY <2>4, <2>5, <3>1, <3>2, <3>3 DEF Distinct
    <3> QED BY <2>3, <2>6, <3>1, <3>2, <3>4
  <2>8. damage' = {} => LiveData(slots') = LiveData(slots) \cup {stored[t]}
    BY <1>4, <1>5, <2>4, <2>5 DEF LiveData
  <2>9. damage' = {} => KeysIn(table') \subseteq LiveTexts(slots')
    <3> SUFFICES ASSUME damage' = {} PROVE KeysIn(table') \subseteq LiveTexts(slots')
      OBVIOUS
    <3>1. text[stored[t]] = k /\ KeysIn(TheTable) \subseteq LiveTexts(slots)
      BY <1>2, <1>4 DEF Plain, Indexed
    <3> QED BY <2>3, <2>8, <3>1 DEF LiveTexts
  <2>10. Indexed(slots', table', damage')
    BY <2>7, <2>9 DEF Indexed, Sound
  <2> QED
    BY <1>3, <2>3, <2>4, <2>8, <2>10
<1>6. CASE ~IsNew(t)
  <2>1. slots' = slots /\ table' = TheTable
    BY <1>6 DEF tuple_write
  <2>2. Indexed(slots', table', damage')
    BY <1>2, <1>4, <2>1 DEF Indexed, Sound
  <2>3. damage' = {} => stored[t] \in LiveData(slots)
    <3> SUFFICES ASSUME damage' = {} PROVE stored[t] \in LiveData(slots)
      OBVIOUS
    <3>1. k \in LiveTexts(slots)
      BY <1>1, <1>2, <1>4, <1>6 DEF IsNew, KeysIn, Indexed
    <3>2. PICK j \in Live(slots) : text[slots[j].data] = k
      BY <3>1 DEF LiveTexts, LiveData
    <3>3. stored[slots[j].data] = stored[t] /\ stored[slots[j].data] = slots[j].data
      BY <1>1, <1>4, <3>2, DataIsTyped DEF Plain
    <3> QED BY <3>3 DEF LiveData
  <2> QED
    BY <1>1, <1>2, <1>3, <2>1, <2>2, <2>3
<1> QED
  BY <1>5, <1>6

\* tuple_delete strikes one slot; it keeps the index, or has unlinked other keys
\* with the one it was to delete.
LEMMA DeleteKeepsIndex ==
    ASSUME StoreInv, Sane, IndexInUse, NEW i \in Live(slots), tuple_delete(i)
    PROVE  /\ slots' \in Seq(Slot)
           /\ LinkedTable(table') \/ (table' = Wild /\ "chain" \in damage')
           /\ updated' = TRUE
           /\ last_deleted' = i
           /\ damage \subseteq damage' /\ damage' \subseteq damage \cup {"chain"}
           /\ DOMAIN slots' = DOMAIN slots /\ Len(slots') = Len(slots)
           /\ Live(slots') = Live(slots) \ {i}
           /\ \A j \in DOMAIN slots : slots'[j].data = slots[j].data
           /\ LinkedTable(table') => Indexed(slots', table', damage')
<1> DEFINE k == text[slots[i].data]
           t == Deleted(TheTable, k)
           exact == t # Wild /\ \A x \in IndexKeys \ {k} : Found(t, x)
<1>1. /\ slots \in Seq(Slot) /\ i \in DOMAIN slots /\ k \in Keys
      /\ Live(slots) \subseteq DOMAIN slots
  BY DataIsTyped, LiveSlots DEF StoreInv, TypeOK
<1>2. LinkedTable(TheTable) /\ Indexed(slots, TheTable, damage)
  BY TableInUse
<1>3. /\ table' = t /\ slots' = Strike(slots, i) /\ updated' = TRUE /\ last_deleted' = i
      /\ damage' = damage \cup (IF exact THEN {} ELSE {"chain"})
  BY DEF tuple_delete
<1>4. /\ slots' \in Seq(Slot)
      /\ Len(slots') = Len(slots) /\ DOMAIN slots' = DOMAIN slots
      /\ Live(slots') = Live(slots) \ {i}
      /\ \A j \in DOMAIN slots : slots'[j].data = slots[j].data
  BY <1>1, <1>3, StrikeKills
<1>5. ASSUME t # Wild
      PROVE  /\ LinkedTable(t)
             /\ KeysIn(t) \subseteq KeysIn(TheTable)
             /\ OneNodeEach(TheTable) => OneNodeEach(t) /\ k \notin KeysIn(t)
  BY <1>1, <1>2, <1>5, DeletedKeys
<1>6. t = Wild => "chain" \in damage'
  BY <1>3
<1>7. Sound' => t # Wild /\ Sound /\ KeysIn(TheTable) \ {k} \subseteq KeysIn(t)
  BY <1>3 DEF Sound, IndexKeys, KeysIn
<1>8. damage' = {} => damage = {} /\ Sound'
  BY <1>3 DEF Sound
<1> HIDE DEF t, exact
<1>9. Sound' => LiveTexts(slots') = LiveTexts(slots) \ {k}
  <2> SUFFICES ASSUME Sound' PROVE LiveTexts(slots') = LiveTexts(slots) \ {k}
    OBVIOUS
  <2>1. Distinct(slots)
    BY <1>2, <1>7 DEF Indexed, Sound
  <2>2. \A j \in Live(slots) : text[slots[j].data] = k => j = i
    BY <2>1 DEF Distinct
  <2> QED BY <1>1, <1>4, <2>2 DEF LiveTexts, LiveData
<1>10. Sound' => /\ Distinct(slots')
                 /\ OneNodeEach(t)
                 /\ LiveTexts(slots') \subseteq KeysIn(t)
  <2> SUFFICES ASSUME Sound'
               PROVE  Distinct(slots') /\ OneNodeEach(t) /\ LiveTexts(slots') \subseteq KeysIn(t)
    OBVIOUS
  <2>1. Distinct(slots) /\ OneNodeEach(TheTable) /\ LiveTexts(slots) \subseteq KeysIn(TheTable)
    BY <1>2, <1>7 DEF Indexed, Sound
  <2>2. Distinct(slots')
    BY <1>1, <1>4, <2>1 DEF Distinct
  <2> QED BY <1>5, <1>7, <1>9, <2>1, <2>2
<1>11. damage' = {} => KeysIn(t) \subseteq LiveTexts(slots')
  BY <1>2, <1>5, <1>7, <1>8, <1>9 DEF Indexed, Sound
<1>12. Indexed(slots', t, damage')
  BY <1>10, <1>11 DEF Indexed, Sound
<1> QED
  BY <1>3, <1>4, <1>5, <1>6, <1>12

-------------------------------------------------------------------------------
\* What the parts of the invariant have in common.

\* Between operators the invariant asks nothing of a scan.
LEMMA NoScan ==
    ASSUME op' \in {"closed", "opening", "saving", "idle", "closing"}, copy' = NoCopy
    PROVE  EraseOK' /\ UpdateOK' /\ UpdateSparesItsOwn' /\ UpdateMeans' /\ CompactOK'
BY DEF EraseOK, UpdateOK, UpdateSparesItsOwn, UpdateMeans, CompactOK

\* The copy that rl_compact has not begun is a copy.
LEMMA NoCopyTyped ==
    /\ NoCopy.slots = <<>> /\ NoCopy.table = EmptyTable /\ NoCopy.updated = FALSE
    /\ NoCopy.slots \in Seq(Slot) /\ IsTable(NoCopy.table) /\ NoCopy.updated \in BOOLEAN
    /\ LinkedTable(NoCopy.table)
    /\ NoCopy = [slots |-> NoCopy.slots, table |-> NoCopy.table, updated |-> NoCopy.updated]
<1>1. /\ NoCopy.slots = <<>> /\ NoCopy.table = EmptyTable /\ NoCopy.updated = FALSE
      /\ NoCopy = [slots |-> NoCopy.slots, table |-> NoCopy.table, updated |-> NoCopy.updated]
  BY DEF NoCopy
<1>2. <<>> \in Seq(Slot)
  OBVIOUS
<1> QED
  BY <1>1, <1>2, EmptyTableLinked DEF LinkedTable

\* An operator that comes to rest, or a process that does, keeps what is asked of
\* it when its table and its index are right.
LEMMA RestStep ==
    ASSUME op' \in {"closed", "saving", "idle", "closing"}, ComeToRest, SavingOK',
           TableTypeOK', slots' \in Seq(Slot), last_deleted' \in Nat, updated' \in BOOLEAN,
           damage' \subseteq {"crash", "chain", "text", "overwrite"},
           table' \notin {NoTable, Wild} => LinkedTable(table'),
           op' = "closed" => table' = NoTable,
           table' = NoTable => ~updated' /\ (op' # "closed" => hashfile' # NoFile),
           table' = Wild => updated' /\ "chain" \in damage',
           IndexOK', DistinctTuples', IndexCovers', IndexExact'
    PROVE  StoreInv'
<1>1. /\ at' = 1 /\ match' = {} /\ set' = Malformed /\ epos' = 0
      /\ pending' = NoTuple /\ copy' = NoCopy /\ before' = {}
  BY DEF ComeToRest
<1>2. TypeOK'
  BY <1>1, NoCopyTyped DEF TypeOK
<1>3. LinksOK'
  BY <1>1, NoCopyTyped DEF LinksOK
<1>4. AtRest'
  BY <1>1 DEF AtRest
<1>5. ControlOK'
  BY <1>1, <1>4, NoCopyTyped DEF ControlOK
<1>6. EraseOK' /\ UpdateOK' /\ UpdateSparesItsOwn' /\ UpdateMeans' /\ CompactOK'
  BY <1>1, NoScan
<1> QED
  BY <1>2, <1>3, <1>5, <1>6 DEF StoreInv

\* Nothing of the index is touched while the relation is open.
LEMMA IndexUntouched ==
    ASSUME StoreInv, UNCHANGED <<table, hashfile, slots, updated, damage>>,
           op \notin {"closed", "opening", "saving"}, op' \notin {"closed", "opening"}
    PROVE  IndexOK' /\ DistinctTuples' /\ IndexCovers' /\ IndexExact'
<1>1. TheTable' = TheTable /\ IndexKeys' = IndexKeys /\ Sound' = Sound /\ Sane' = Sane
  BY DEF TheTable, IndexKeys, Sound, Sane
<1>2. IndexInUse' = IndexInUse
  BY <1>1 DEF IndexInUse
<1>3. LiveTexts(slots') = LiveTexts(slots) /\ Live(slots') = Live(slots)
  OBVIOUS
<1> QED
  BY <1>1, <1>2, <1>3
  DEF StoreInv, IndexOK, DistinctTuples, IndexCovers, IndexExact

-------------------------------------------------------------------------------
\* The life of the relation in memory.

\* A relation that was just created is as the invariant says.
LEMMA InitHolds == StoreInit => StoreInv
<1> SUFFICES ASSUME StoreInit PROVE StoreInv
  OBVIOUS
<1>1. /\ table = EmptyTable /\ hashfile = NoFile /\ slots = <<>> /\ last_deleted = 0
      /\ updated = FALSE /\ op = "idle" /\ damage = {}
      /\ at = 1 /\ match = {} /\ set = Malformed /\ epos = 0
      /\ pending = NoTuple /\ copy = NoCopy /\ before = {} /\ AtRest
  BY DEF StoreInit, AtRest
<1>2. LinkedTable(table) /\ table # NoTable /\ table # Wild /\ IsTable(table)
      /\ KeysIn(table) = {} /\ OneNodeEach(table)
  BY <1>1, EmptyTableLinked, LinkedIsTable
<1>3. slots \in Seq(Slot) /\ Live(slots) = {} /\ LiveTexts(slots) = {}
  <2>1. slots \in Seq(Slot) /\ DOMAIN slots = {}
    BY <1>1
  <2> QED BY <2>1 DEF Live, LiveTexts, LiveData
<1>4. TypeOK
  <2>1. TableTypeOK
    BY <1>1, <1>2 DEF TableTypeOK
  <2>2. updated \in BOOLEAN
    BY <1>1, Zenon
  <2>3. set \in Assignments \cup {Malformed} /\ pending \in Tuples \cup {NoTuple}
    BY <1>1, Zenon
  <2>4. last_deleted \in Nat /\ at \in Nat \ {0} /\ epos \in Nat /\ match \in SUBSET Data
        /\ before \subseteq Data
    BY <1>1
  <2>5. op \in {"closed", "opening", "saving", "idle", "erase", "update", "compact", "closing"}
    BY <1>1
  <2> QED BY <1>1, <1>3, <2>1, <2>2, <2>3, <2>4, <2>5, NoCopyTyped DEF TypeOK
<1>5. LinksOK
  BY <1>1, <1>2, NoCopyTyped DEF LinksOK
<1>6. ControlOK
  BY <1>1, <1>2, NoCopyTyped DEF ControlOK, SavingOK, Saving
<1>7. TheTable = table
  BY <1>2 DEF TheTable
<1>8. IndexOK /\ DistinctTuples /\ IndexCovers /\ IndexExact
  BY <1>1, <1>2, <1>3, <1>7
  DEF IndexOK, DistinctTuples, IndexCovers, IndexExact, IndexKeys, KeysIn
<1>9. EraseOK /\ UpdateOK /\ UpdateSparesItsOwn /\ UpdateMeans /\ CompactOK
  BY <1>1 DEF EraseOK, UpdateOK, UpdateSparesItsOwn, UpdateMeans, CompactOK
<1> QED
  BY <1>4, <1>5, <1>6, <1>8, <1>9 DEF StoreInv

\* A relation is opened with its hash file, or with a table to be built.
LEMMA OpenStep == ASSUME StoreInv, Open PROVE StoreInv'
<1>1. /\ op = "closed" /\ last_deleted' \in {0, 1} /\ updated' = FALSE
      /\ UNCHANGED <<hashfile, slots, damage>>
      /\ UNCHANGED <<at, match, set, epos, pending, copy, before>>
      /\ IF hashfile = NoFile
         THEN op' = "opening" /\ table' = EmptyTable
         ELSE op' = "idle" /\ table' = NoTable
  BY DEF Open, scan
<1>2. /\ AtRest /\ table = NoTable /\ ~updated /\ copy = NoCopy /\ at = 1 /\ pending = NoTuple
      /\ TypeOK
  BY <1>1 DEF StoreInv, ControlOK, AtRest
<1>3. AtRest'
  BY <1>1, <1>2 DEF AtRest
<1>4. IsTable(EmptyTable) /\ LinkedTable(EmptyTable) /\ EmptyTable # NoTable /\ EmptyTable # Wild
  BY EmptyTableLinked, LinkedIsTable
<1>5. TypeOK'
  <2>1. TableTypeOK'
    BY <1>1, <1>2, <1>4 DEF TypeOK, TableTypeOK
  <2>2. op' \in {"closed", "opening", "saving", "idle", "erase", "update", "compact",
                  "closing"}
    BY <1>1
  <2>3. last_deleted' \in Nat
    BY <1>1
  <2>4. updated' \in BOOLEAN
    BY <1>1, Zenon
  <2> QED BY <1>1, <1>2, <2>1, <2>2, <2>3, <2>4 DEF TypeOK
<1>6. LinksOK'
  BY <1>1, <1>2, <1>4, NoCopyTyped DEF LinksOK
<1>7. ControlOK'
  BY <1>1, <1>2, <1>3, <1>4, NoCopyTyped, TableAssumption DEF ControlOK, SavingOK, Saving
<1>8. CASE hashfile = NoFile
  <2>1. op' = "opening" /\ table' = EmptyTable /\ TheTable' = EmptyTable /\ at' = 1
    BY <1>1, <1>2, <1>4, <1>8 DEF TheTable
  <2>2. TextsBefore(at)' = {}
    <3>1. slots \in Seq(Slot)
      BY <1>2 DEF TypeOK
    <3>2. \A j \in Live(slots) : ~(j < 1)
      BY <3>1, LiveSlots
    <3> QED BY <1>1, <2>1, <3>2 DEF TextsBefore
  <2>3. IndexOK'
    BY <1>1, <1>8, <2>1, <2>2, EmptyTableLinked DEF IndexOK
  <2>4. DistinctTuples' /\ IndexCovers' /\ IndexExact'
    BY <1>1, <2>1
    DEF StoreInv, DistinctTuples, Sound, IndexCovers, IndexExact, IndexInUse
  <2> QED BY <1>1, <1>2, <1>5, <1>6, <1>7, <2>1, <2>3, <2>4, NoScan DEF StoreInv
<1>9. CASE hashfile # NoFile
  <2>1. op' = "idle" /\ table' = NoTable
    BY <1>1, <1>9
  <2>2. TheTable' = TheTable /\ IndexKeys' = IndexKeys /\ Sound' = Sound
    BY <1>1, <1>2, <2>1 DEF TheTable, IndexKeys, Sound
  <2>3. IndexInUse
    BY <1>1, <1>2, <1>9, TableAssumption DEF IndexInUse, Sane
  <2>4. IndexOK' /\ DistinctTuples' /\ IndexCovers' /\ IndexExact'
    BY <1>1, <1>2, <2>1, <2>2, <2>3
    DEF StoreInv, IndexOK, DistinctTuples, IndexCovers, IndexExact
  <2> QED BY <1>1, <1>2, <1>5, <1>6, <1>7, <2>1, <2>4, NoScan DEF StoreInv
<1> QED
  BY <1>8, <1>9

\* build_hash_table inserts the texts of the live tuples.
LEMMA BuildStep == ASSUME StoreInv, Build PROVE StoreInv'
<1> DEFINE k == text[slots[at].data]
<1>1. /\ op = "opening" /\ op' = "opening" /\ at <= Len(slots) /\ at' = at + 1
      /\ table' = IF at \in Live(slots) THEN Inserted(table, k) ELSE table
      /\ UNCHANGED <<hashfile, slots, last_deleted, updated, match, set, epos,
                     pending, copy, before, damage>>
  <2>1. at \in Nat /\ Len(slots) \in Nat
    BY LiveSlots DEF StoreInv, TypeOK
  <2> QED BY <2>1 DEF Build, AtEOF, Advance, file
<1>2. /\ slots \in Seq(Slot) /\ at \in Nat \ {0} /\ at \in DOMAIN slots
      /\ DOMAIN slots = 1 .. Len(slots) /\ Len(slots) \in Nat
      /\ Live(slots) \subseteq DOMAIN slots /\ k \in Keys
  BY <1>1, LiveSlots, DataIsTyped DEF StoreInv, TypeOK
<1>3. /\ LinkedTable(table) /\ KeysIn(table) = TextsBefore(at) /\ hashfile = NoFile /\ ~updated
      /\ copy = NoCopy /\ pending = NoTuple /\ TypeOK
      /\ table # NoTable /\ table # Wild
  BY <1>1 DEF StoreInv, ControlOK, LinksOK, IndexOK, CompactOK
<1>4. /\ LinkedTable(table')
      /\ KeysIn(table') = IF at \in Live(slots) THEN KeysIn(table) \cup {k} ELSE KeysIn(table)
      /\ OneNodeEach(table) /\ (at \in Live(slots) => ~Found(table, k)) => OneNodeEach(table')
  BY <1>1, <1>2, <1>3, InsertedKeys
<1>5. table' # NoTable /\ table' # Wild /\ IsTable(table')
  BY <1>4, LinkedIsTable
<1>6. TypeOK'
  BY <1>1, <1>2, <1>3, <1>5 DEF TypeOK, TableTypeOK
<1>7. LinksOK'
  BY <1>1, <1>3, <1>4, NoCopyTyped DEF LinksOK
<1>8. ControlOK'
  BY <1>1, <1>3, <1>5, NoCopyTyped DEF ControlOK, SavingOK, Saving
<1>9. KeysIn(table') = TextsBefore(at)'
  <2>1. TextsBefore(at)' = {text[slots[i].data] : i \in {j \in Live(slots) : j < at + 1}}
    BY <1>1 DEF TextsBefore, Live
  <2>2. {j \in Live(slots) : j < at + 1} =
           {j \in Live(slots) : j < at} \cup (IF at \in Live(slots) THEN {at} ELSE {})
    BY <1>2
  <2> QED BY <1>3, <1>4, <2>1, <2>2 DEF TextsBefore
<1>10. Sound => OneNodeEach(table')
  <2> SUFFICES ASSUME Sound PROVE OneNodeEach(table')
    OBVIOUS
  <2>1. OneNodeEach(table) /\ Distinct(slots)
    BY <1>3 DEF StoreInv, IndexOK, DistinctTuples, Distinct, TheTable
  <2>2. ASSUME at \in Live(slots) PROVE ~Found(table, k)
    <3>1. \A j \in Live(slots) : j < at => text[slots[j].data] # k
      BY <1>2, <2>1, <2>2 DEF Distinct
    <3>2. k \notin TextsBefore(at)
      BY <3>1 DEF TextsBefore
    <3> QED BY <1>2, <1>3, <3>2 DEF KeysIn
  <2> QED BY <1>4, <2>1, <2>2
<1>11. TheTable' = table' /\ Sound' = Sound
  BY <1>1, <1>5 DEF TheTable, Sound
<1>12. IndexOK'
  BY <1>1, <1>3, <1>9, <1>10, <1>11 DEF IndexOK
<1>13. DistinctTuples' /\ IndexCovers' /\ IndexExact'
  BY <1>1, <1>11
  DEF StoreInv, DistinctTuples, IndexCovers, IndexExact, IndexInUse
<1> QED
  BY <1>1, <1>3, <1>6, <1>7, <1>8, <1>12, <1>13, NoScan DEF StoreInv

\* hashing_save begins with an empty file.
LEMMA EmptyFile == IsHashFile(Saved(EmptyTable)) /\ Saved(EmptyTable) # NoFile
BY EmptyTableLinked, SavedKeys

\* The table that was built is that of the file.
LEMMA BuiltStep == ASSUME StoreInv, Built PROVE StoreInv'
<1>1. /\ op = "opening" /\ at > Len(slots) /\ ComeToRest
      /\ IF System THEN op' = "saving" /\ hashfile' = Saved(EmptyTable)
         ELSE op' = "idle" /\ UNCHANGED hashfile
      /\ UNCHANGED <<table, slots, last_deleted, updated, damage>>
  BY DEF Built, AtEOF, file
<1>2. /\ LinkedTable(table) /\ KeysIn(table) = TextsBefore(at) /\ hashfile = NoFile /\ ~updated
      /\ TypeOK /\ table # NoTable /\ table # Wild /\ IsTable(table)
  BY <1>1, LinkedIsTable DEF StoreInv, ControlOK, LinksOK, IndexOK
<1>3. /\ slots \in Seq(Slot) /\ at \in Nat \ {0}
      /\ DOMAIN slots = 1 .. Len(slots) /\ Len(slots) \in Nat /\ Live(slots) \subseteq DOMAIN slots
  BY <1>2, LiveSlots DEF TypeOK
<1>4. KeysIn(table) = LiveTexts(slots)
  <2>1. {j \in Live(slots) : j < at} = Live(slots)
    BY <1>1, <1>3
  <2> QED BY <1>2, <2>1 DEF TextsBefore, LiveTexts, LiveData
<1>5. TheTable' = table /\ TheTable = table /\ Sound' = Sound
  BY <1>1, <1>2 DEF TheTable, Sound
<1>6. op' \in {"saving", "idle"} /\ (op' = "idle" => hashfile' = NoFile)
  BY <1>1, <1>2
<1>7. Sound => OneNodeEach(table)
  BY <1>5 DEF StoreInv, IndexOK
<1>8. IndexOK'
  BY <1>5, <1>6, <1>7 DEF IndexOK
<1>9. IndexKeys' = LiveTexts(slots)
  BY <1>4, <1>5 DEF IndexKeys, KeysIn
<1>10. DistinctTuples' /\ IndexCovers' /\ IndexExact'
  BY <1>1, <1>5, <1>9 DEF StoreInv, DistinctTuples, IndexCovers, IndexExact
<1>11. TableTypeOK' /\ SavingOK'
  BY <1>1, <1>2, EmptyFile DEF TypeOK, TableTypeOK, SavingOK, Saving
<1> QED
  BY <1>1, <1>2, <1>6, <1>8, <1>10, <1>11, RestStep DEF TypeOK

\* A table put away, or lost with its process, leaves the hash file in its place.
LEMMA PutAway ==
    ASSUME StoreInv, table' = NoTable, op' = "closed", slots' = slots,
           Sound' => Sound, damage' = {} => damage = {},
           Sound' /\ hashfile' # NoFile =>
               /\ IndexInUse
               /\ KeysIn(Loaded(hashfile')) = KeysIn(TheTable)
               /\ OneNodeEach(Loaded(hashfile'))
    PROVE  IndexOK' /\ DistinctTuples' /\ IndexCovers' /\ IndexExact'
<1>1. TheTable' = Loaded(hashfile')
  BY DEF TheTable
<1>2. Sound' => OneNodeEach(TheTable')
  BY <1>1, EmptyTableLinked DEF Loaded
<1>3. IndexOK'
  BY <1>1, <1>2 DEF IndexOK
<1>4. IndexInUse' => hashfile' # NoFile
  BY DEF IndexInUse
<1>5. IndexKeys' = KeysIn(TheTable') /\ IndexKeys = KeysIn(TheTable)
  BY DEF IndexKeys, KeysIn
<1>6. damage' = {} => Sound'
  BY DEF Sound
<1>7. DistinctTuples' /\ IndexCovers' /\ IndexExact'
  BY <1>1, <1>4, <1>5, <1>6 DEF StoreInv, DistinctTuples, IndexCovers, IndexExact
<1> QED
  BY <1>3, <1>7

\* relations_dispose_all puts the table away, or begins to save it.
LEMMA CloseStep == ASSUME StoreInv, Close PROVE StoreInv'
<1>1. /\ op = "idle" /\ Sane
      /\ IF updated
         THEN op' = "closing" /\ hashfile' = Saved(EmptyTable) /\ UNCHANGED <<table, updated>>
         ELSE op' = "closed" /\ table' = NoTable /\ UNCHANGED <<hashfile, updated>>
      /\ UNCHANGED <<slots, last_deleted, damage>>
      /\ UNCHANGED <<at, match, set, epos, pending, copy, before>>
  BY DEF Close, file, scan
<1>2. TypeOK /\ AtRest /\ (table = NoTable => ~updated)
  BY <1>1 DEF StoreInv, ControlOK
<1>3. ComeToRest
  BY <1>1, <1>2 DEF AtRest, ComeToRest
<1>4. IndexInUse
  BY <1>1 DEF IndexInUse
<1>5. slots' \in Seq(Slot) /\ last_deleted' \in Nat /\ updated' \in BOOLEAN
      /\ damage' \subseteq {"crash", "chain", "text", "overwrite"}
  BY <1>1, <1>2 DEF TypeOK
<1>6. CASE updated
  <2>1. /\ op' = "closing" /\ hashfile' = Saved(EmptyTable) /\ updated'
        /\ UNCHANGED <<table, slots, updated, damage>>
    BY <1>1, <1>6
  <2>2. TheTable = table /\ TheTable' = table /\ LinkedTable(table)
        /\ table # NoTable /\ table # Wild
    BY <1>1, <1>2, <1>6, <2>1 DEF TheTable, StoreInv, LinksOK, Sane
  <2>3. IndexOK' /\ DistinctTuples' /\ IndexCovers' /\ IndexExact'
    BY <1>4, <2>1, <2>2
    DEF StoreInv, IndexOK, DistinctTuples, IndexCovers, IndexExact, IndexKeys, Sound
  <2>4. TableTypeOK' /\ SavingOK'
    BY <1>2, <2>1, <2>2, EmptyFile DEF TypeOK, TableTypeOK, SavingOK, Saving
  <2> QED BY <1>3, <1>5, <2>1, <2>2, <2>3, <2>4, RestStep
<1>7. CASE ~updated
  <2>1. op' = "closed" /\ table' = NoTable /\ ~updated' /\ UNCHANGED <<hashfile, slots, damage>>
    BY <1>1, <1>7
  <2>2. /\ Sound' => Sound
        /\ damage' = {} => damage = {}
        /\ Sound' /\ hashfile' # NoFile =>
               /\ IndexInUse
               /\ KeysIn(Loaded(hashfile')) = KeysIn(TheTable)
               /\ OneNodeEach(Loaded(hashfile'))
    BY <1>1, <1>4, <1>7, <2>1 DEF StoreInv, IndexOK, Sound
  <2>3. IndexOK' /\ DistinctTuples' /\ IndexCovers' /\ IndexExact'
    BY <2>1, <2>2, PutAway
  <2>4. TableTypeOK' /\ SavingOK'
    BY <1>2, <2>1 DEF TypeOK, TableTypeOK, SavingOK, Saving
  <2> QED BY <1>3, <1>5, <2>1, <2>3, <2>4, TableAssumption, RestStep
<1> QED
  BY <1>6, <1>7

\* A hash file with a bucket replaced by one that has a node of k more is a hash file.
LEMMA NodeWritten ==
    ASSUME NEW f, IsHashFile(f), NEW k \in Keys, NEW c, IsSavedBucket(c),
           DOMAIN c = DOMAIN f[hash[k]] \cup {k}
    PROVE  IsHashFile([f EXCEPT ![hash[k]] = c])
<1> DEFINE b == hash[k]
           g == [f EXCEPT ![b] = c]
<1>1. DOMAIN f = Buckets
  BY DEF IsHashFile
<1>2. g = [x \in Buckets |-> IF x = b THEN c ELSE f[x]]
  BY <1>1
<1>3. g \in [Buckets -> Range(g)]
  <2>1. \A x \in Buckets : g[x] \in Range(g)
    BY <1>2 DEF Range
  <2>2. g = [x \in Buckets |-> g[x]]
    BY <1>2
  <2> HIDE DEF g
  <2> QED BY <2>1, <2>2
<1>4. \A x \in Buckets : IsSavedBucket(g[x])
  BY <1>2 DEF IsHashFile
<1>5. InItsBucket(g)
  BY <1>2 DEF IsHashFile, InItsBucket
<1> HIDE DEF g
<1>6. IsHashFile(g)
  BY <1>3, <1>4, <1>5 DEF IsHashFile
<1> QED
  BY <1>6 DEF g

\* A hash file is one, wherever it ends.
LEMMA SaveNodeStep == ASSUME StoreInv, SaveNode PROVE StoreInv'
<1> DEFINE Put(c, k, n) == [x \in DOMAIN c \cup {k} |-> IF x = k THEN n ELSE c[x]]
<1>1. PICK b \in Buckets :
         \E k \in DOMAIN table[b] :
            hashfile' = [hashfile EXCEPT ![b] = Put(@, k, Written(b, k) + 1)]
  BY DEF SaveNode
<1>2. /\ op \in {"saving", "closing"} /\ Saving
      /\ UNCHANGED <<table, slots, last_deleted, updated, op, at, match, set, epos, pending,
                     copy, before, damage>>
  BY DEF SaveNode, Saving, file, scan
<1>3. TypeOK /\ AtRest /\ SavingOK /\ table # NoTable /\ table # Wild /\ hashfile # NoFile
  BY <1>2 DEF StoreInv, ControlOK, SavingOK
<1>4. IsTable(table) /\ IsHashFile(hashfile)
  BY <1>3 DEF TypeOK, TableTypeOK
<1>5. PICK k \in DOMAIN table[b] :
         hashfile' = [hashfile EXCEPT ![b] = Put(@, k, Written(b, k) + 1)]
  BY <1>1
<1>6. k \in Keys /\ hash[k] = b
  BY <1>4 DEF IsTable, IsBucket, InItsBucket
<1>7. Written(b, k) + 1 \in Nat \ {0}
  <2>1. k \in DOMAIN hashfile[b] => hashfile[b][k] \in Nat \ {0}
    BY <1>4 DEF IsHashFile, IsSavedBucket
  <2> QED BY <2>1 DEF Written
<1>8. IsHashFile(hashfile') /\ hashfile' # NoFile
  <2> DEFINE c == Put(hashfile[b], k, Written(b, k) + 1)
  <2>1. IsSavedBucket(c) /\ DOMAIN c = DOMAIN hashfile[b] \cup {k}
    BY <1>4, <1>6, <1>7 DEF IsHashFile, IsSavedBucket
  <2>2. hashfile' = [hashfile EXCEPT ![b] = c]
    BY <1>5
  <2> HIDE DEF c
  <2>3. IsHashFile(hashfile')
    BY <1>4, <1>6, <2>1, <2>2, NodeWritten
  <2> QED BY <2>3, FileIsThere
<1>9. TheTable' = TheTable /\ IndexKeys' = IndexKeys /\ Sound' = Sound /\ Sane' = Sane
      /\ LiveTexts(slots') = LiveTexts(slots) /\ Live(slots') = Live(slots)
  BY <1>2, <1>3 DEF TheTable, IndexKeys, Sound, Sane
<1>10. IndexInUse /\ (op # "saving" => updated)
  BY <1>2, <1>3 DEF IndexInUse, Sane, SavingOK
<1>11. IndexOK' /\ DistinctTuples' /\ IndexCovers' /\ IndexExact'
  BY <1>2, <1>9, <1>10 DEF StoreInv, IndexOK, DistinctTuples, IndexCovers, IndexExact
<1>12. TableTypeOK' /\ SavingOK' /\ ComeToRest
  BY <1>2, <1>3, <1>4, <1>8
  DEF TableTypeOK, SavingOK, Saving, AtRest, ComeToRest
<1>13. slots' \in Seq(Slot) /\ last_deleted' \in Nat /\ updated' \in BOOLEAN
       /\ damage' \subseteq {"crash", "chain", "text", "overwrite"}
  BY <1>2, <1>3 DEF TypeOK
<1>14. LinkedTable(table)
  BY <1>3 DEF StoreInv, LinksOK
<1> QED
  BY <1>2, <1>3, <1>11, <1>12, <1>13, <1>14, RestStep

\* A table that was saved whole is read back from its file.
LEMMA SaveDoneStep == ASSUME StoreInv, SaveDone PROVE StoreInv'
<1>1. /\ op \in {"saving", "closing"} /\ Saving /\ hashfile' = Saved(table)
      /\ IF op = "closing" THEN op' = "closed" /\ table' = NoTable
         ELSE op' = "idle" /\ UNCHANGED table
      /\ updated' = FALSE
      /\ UNCHANGED <<slots, last_deleted, at, match, set, epos, pending, copy, before, damage>>
  BY DEF SaveDone, Saving, file, scan
<1>2. TypeOK /\ AtRest /\ table # NoTable /\ table # Wild
  BY <1>1 DEF StoreInv, ControlOK, SavingOK
<1>3. TheTable = table /\ LinkedTable(table) /\ IndexInUse
  BY <1>1, <1>2 DEF TheTable, IndexInUse, Sane, StoreInv, LinksOK
<1>4. /\ Saved(table) # NoFile /\ IsHashFile(Saved(table))
      /\ KeysIn(Loaded(Saved(table))) = KeysIn(table)
      /\ OneNodeEach(table) => OneNodeEach(Loaded(Saved(table)))
  BY <1>3, SavedKeys
<1>5. Sound' = Sound /\ (Sound => OneNodeEach(table))
  BY <1>1, <1>3 DEF Sound, StoreInv, IndexOK
<1>6. ComeToRest /\ SavingOK'
  BY <1>1, <1>2 DEF AtRest, ComeToRest, SavingOK, Saving
<1>7. slots' \in Seq(Slot) /\ last_deleted' \in Nat
      /\ damage' \subseteq {"crash", "chain", "text", "overwrite"}
  BY <1>1, <1>2 DEF TypeOK
<1>8. updated' \in BOOLEAN
  BY <1>1, Zenon
<1>9. CASE op = "closing"
  <2>1. op' = "closed" /\ table' = NoTable
    BY <1>1, <1>9
  <2>2. IndexOK' /\ DistinctTuples' /\ IndexCovers' /\ IndexExact'
    BY <1>1, <1>3, <1>4, <1>5, <2>1, PutAway
  <2>3. TableTypeOK'
    BY <1>1, <1>4, <2>1 DEF TableTypeOK
  <2> QED BY <1>1, <1>6, <1>7, <1>8, <2>1, <2>2, <2>3, TableAssumption, RestStep
<1>10. CASE op = "saving"
  <2>1. op' = "idle" /\ table' = table /\ TheTable' = table
    BY <1>1, <1>2, <1>10 DEF TheTable
  <2>2. IndexOK' /\ DistinctTuples' /\ IndexCovers' /\ IndexExact'
    BY <1>1, <1>3, <1>4, <1>5, <2>1
    DEF StoreInv, IndexOK, DistinctTuples, IndexCovers, IndexExact, IndexKeys, Sound
  <2>3. TableTypeOK'
    BY <1>1, <1>2, <1>4, <2>1 DEF TypeOK, TableTypeOK
  <2> QED BY <1>1, <1>2, <1>3, <1>4, <1>6, <1>7, <1>8, <2>1, <2>2, <2>3, RestStep
<1> QED
  BY <1>1, <1>9, <1>10

\* A process that dies leaves a hash file that may be out of date.
LEMMA CrashStep == ASSUME StoreInv, Crash PROVE StoreInv'
<1>1. /\ op # "closed" /\ op' = "closed" /\ table' = NoTable /\ updated' = FALSE
      /\ ComeToRest
      /\ damage' = damage \cup
            (IF (updated \/ Saving) /\ hashfile # NoFile THEN {"crash"} ELSE {})
      /\ UNCHANGED <<hashfile, slots, last_deleted>>
  BY DEF Crash, file
<1>2. TypeOK
  BY DEF StoreInv
<1>3. /\ Sound' => Sound /\ ~((updated \/ Saving) /\ hashfile # NoFile)
      /\ damage' = {} => damage = {}
  BY <1>1 DEF Sound
<1>4. hashfile # NoFile /\ Sound => IndexInUse
  BY <1>1, TableInUse DEF StoreInv, ControlOK, IndexInUse
<1>5. Sound' /\ hashfile' # NoFile =>
             /\ IndexInUse
             /\ KeysIn(Loaded(hashfile')) = KeysIn(TheTable)
             /\ OneNodeEach(Loaded(hashfile'))
  BY <1>1, <1>3, <1>4 DEF StoreInv, IndexOK, Saving
<1>6. IndexOK' /\ DistinctTuples' /\ IndexCovers' /\ IndexExact'
  BY <1>1, <1>3, <1>5, PutAway
<1>7. TableTypeOK' /\ SavingOK'
  BY <1>1, <1>2 DEF TypeOK, TableTypeOK, SavingOK, Saving
<1>8. slots' \in Seq(Slot) /\ last_deleted' \in Nat
      /\ damage' \subseteq {"crash", "chain", "text", "overwrite"}
  BY <1>1, <1>2 DEF TypeOK
<1>9. updated' \in BOOLEAN
  BY <1>1, Zenon
<1> QED
  BY <1>1, <1>6, <1>7, <1>8, <1>9, TableAssumption, RestStep

-------------------------------------------------------------------------------
\* insert and rl_erase.

\* An open relation's index is in use.
LEMMA OpenInUse ==
    ASSUME Sane, op \notin {"closed", "opening"}
    PROVE  IndexInUse
BY DEF IndexInUse

\* insert is a tuple_write at the first slot or behind the last one.
LEMMA InsertWrites ==
    ASSUME StoreInv, NEW t \in Tuples, insert(t)
    PROVE  /\ op = "idle" /\ op' = "idle" /\ Sane /\ IndexInUse /\ last_deleted' = 0
           /\ UNCHANGED <<hashfile, at, match, set, epos, pending, copy, before>>
           /\ \E i \in 1 .. Len(slots) + 1 : tuple_write(t, i)
<1>1. Len(slots) \in Nat
  BY LiveSlots DEF StoreInv, TypeOK
<1>2. /\ op = "idle" /\ Sane /\ last_deleted' = 0
      /\ tuple_write(t, IF last_deleted # 0 THEN 1 ELSE Len(slots) + 1)
      /\ UNCHANGED <<hashfile, op, at, match, set, epos, pending, copy, before>>
  BY DEF insert, Free, tuple_append, scan
<1> DEFINE i == IF last_deleted # 0 THEN 1 ELSE Len(slots) + 1
<1>3. i \in 1 .. Len(slots) + 1
  BY <1>1
<1> HIDE DEF i
<1>4. tuple_write(t, i)
  BY <1>2 DEF i
<1> QED
  BY <1>2, <1>3, <1>4, OpenInUse

\* insert keeps the invariant.
LEMMA InsertTupleStep == ASSUME StoreInv, NEW t \in Tuples, insert(t) PROVE StoreInv'
<1>1. /\ op = "idle" /\ op' = "idle" /\ Sane /\ IndexInUse /\ last_deleted' = 0
      /\ UNCHANGED <<hashfile, at, match, set, epos, pending, copy, before>>
  BY InsertWrites
<1>2. PICK i \in 1 .. Len(slots) + 1 : tuple_write(t, i)
  BY InsertWrites
<1>3. /\ slots' \in Seq(Slot)
      /\ LinkedTable(table')
      /\ updated' = TRUE
      /\ damage' \subseteq damage \cup {"text", "overwrite"}
      /\ Indexed(slots', table', damage')
  BY <1>1, <1>2, WriteKeepsIndex
<1>4. IsTable(table') /\ table' # NoTable /\ table' # Wild
  BY <1>3, LinkedIsTable
<1>5. IndexOK' /\ DistinctTuples' /\ IndexCovers' /\ IndexExact'
  BY <1>1, <1>3, IndexedChange
<1>6. ComeToRest
  BY <1>1 DEF StoreInv, ControlOK, AtRest, ComeToRest
<1>7. TableTypeOK' /\ last_deleted' \in Nat
      /\ damage' \subseteq {"crash", "chain", "text", "overwrite"}
  BY <1>1, <1>3, <1>4 DEF StoreInv, TypeOK, TableTypeOK
<1>8. updated' \in BOOLEAN
  BY <1>3, Zenon
<1> QED
  BY <1>1, <1>3, <1>4, <1>5, <1>6, <1>7, <1>8, RestStep DEF SavingOK, Saving

\* What the beginning of a scan has in common.
LEMMA ScanBegins ==
    ASSUME StoreInv, op = "idle", op' \in {"erase", "update", "compact"},
           UNCHANGED <<table, hashfile, slots, last_deleted, updated, damage>>,
           at' = 1, match' \in SUBSET Data, before' = LiveData(slots),
           set' \in Assignments \cup {Malformed}, epos' \in Nat, pending' = NoTuple,
           copy' = NoCopy
    PROVE  /\ TypeOK' /\ LinksOK' /\ ControlOK'
           /\ IndexOK' /\ DistinctTuples' /\ IndexCovers' /\ IndexExact'
           /\ \A i \in Live(slots) : i >= 1
<1>1. TypeOK /\ LinksOK /\ ControlOK
  BY DEF StoreInv
<1>2. slots \in Seq(Slot) /\ LiveData(slots) \subseteq Data /\ \A i \in Live(slots) : i >= 1
  BY <1>1, LiveSlots DEF TypeOK
<1>3. TypeOK'
  BY <1>1, <1>2, NoCopyTyped DEF TypeOK, TableTypeOK
<1>4. LinksOK'
  BY <1>1, NoCopyTyped DEF LinksOK
<1>5. ControlOK'
  BY <1>1, NoCopyTyped DEF ControlOK, SavingOK, Saving
<1>6. IndexOK' /\ DistinctTuples' /\ IndexCovers' /\ IndexExact'
  BY IndexUntouched
<1> QED
  BY <1>2, <1>3, <1>4, <1>5, <1>6

\* A deletion begins: it has read nothing yet.
LEMMA EraseBeginStep == ASSUME StoreInv, NEW M \in Conditions, rl_erase(M) PROVE StoreInv'
<1>1. /\ op = "idle" /\ op' = "erase" /\ at' = 1 /\ match' = M /\ before' = LiveData(slots)
      /\ UNCHANGED <<table, hashfile, slots, last_deleted, updated, set, epos,
                     pending, copy, damage>>
  BY DEF rl_erase, Free, Scan, file
<1>2. /\ set \in Assignments \cup {Malformed} /\ epos \in Nat /\ pending = NoTuple
      /\ copy = NoCopy /\ M \in SUBSET Data
  BY <1>1, OperandAssumption DEF StoreInv, TypeOK, ControlOK, AtRest
<1>3. /\ TypeOK' /\ LinksOK' /\ ControlOK'
      /\ IndexOK' /\ DistinctTuples' /\ IndexCovers' /\ IndexExact'
      /\ \A i \in Live(slots) : i >= 1
  BY <1>1, <1>2, ScanBegins
<1>4. EraseOK'
  <2>1. Live(slots') = Live(slots) /\ LiveData(slots') = LiveData(slots)
    BY <1>1
  <2>2. \A i \in Live(slots) : ~(i < 1)
    BY <1>3, LiveSlots DEF StoreInv, TypeOK
  <2> QED BY <1>1, <2>1, <2>2 DEF EraseOK
<1>5. UpdateOK' /\ UpdateSparesItsOwn' /\ UpdateMeans' /\ CompactOK'
  BY <1>1, <1>2 DEF UpdateOK, UpdateSparesItsOwn, UpdateMeans, CompactOK
<1> QED
  BY <1>3, <1>4, <1>5 DEF StoreInv

\* A deletion strikes the slot it reads, or passes it.
LEMMA EraseNextStep == ASSUME StoreInv, EraseNext PROVE StoreInv'
<1>1. /\ op = "erase" /\ op' = "erase" /\ Sane /\ at <= Len(slots) /\ at' = at + 1
      /\ IF at \in Live(slots) /\ slots[at].data \in match
         THEN tuple_delete(at)
         ELSE UNCHANGED <<table, slots, last_deleted, updated, damage>>
      /\ UNCHANGED <<hashfile, match, set, epos, pending, copy, before>>
  <2>1. at \in Nat /\ Len(slots) \in Nat
    BY LiveSlots DEF StoreInv, TypeOK
  <2> QED BY <2>1 DEF EraseNext, AtEOF, Advance
<1>2. /\ slots \in Seq(Slot) /\ at \in Nat \ {0} /\ TypeOK /\ LinksOK /\ ControlOK
      /\ DOMAIN slots = 1 .. Len(slots) /\ Len(slots) \in Nat /\ Live(slots) \subseteq DOMAIN slots
      /\ copy = NoCopy /\ pending = NoTuple
  BY <1>1, LiveSlots DEF StoreInv, TypeOK, CompactOK, ControlOK
<1>3. /\ before \ match \subseteq LiveData(slots)
      /\ LiveData(slots) \subseteq before
      /\ \A i \in Live(slots) : i < at => slots[i].data \notin match
  BY <1>1 DEF StoreInv, EraseOK
<1>4. UpdateOK' /\ UpdateSparesItsOwn' /\ UpdateMeans' /\ CompactOK'
  BY <1>1, <1>2 DEF UpdateOK, UpdateSparesItsOwn, UpdateMeans, CompactOK
<1>5. CASE at \in Live(slots) /\ slots[at].data \in match
  <2>1. /\ slots' \in Seq(Slot)
        /\ LinkedTable(table') \/ (table' = Wild /\ "chain" \in damage')
        /\ updated' = TRUE
        /\ last_deleted' = at
        /\ damage' \subseteq damage \cup {"chain"}
        /\ DOMAIN slots' = DOMAIN slots
        /\ Live(slots') = Live(slots) \ {at}
        /\ \A j \in DOMAIN slots : slots'[j].data = slots[j].data
        /\ LinkedTable(table') => Indexed(slots', table', damage')
    BY <1>1, <1>5, OpenInUse, DeleteKeepsIndex
  <2>2. LinkedTable(table') => IsTable(table') /\ table' # NoTable /\ table' # Wild
    BY LinkedIsTable
  <2>3. IndexOK' /\ DistinctTuples' /\ IndexCovers' /\ IndexExact'
    BY <1>1, <2>1, IndexedChange
  <2>4. TypeOK'
    <3>1. TableTypeOK'
      BY <1>1, <1>2, <2>1, <2>2 DEF TypeOK, TableTypeOK
    <3>2. updated' \in BOOLEAN
      BY <2>1, Zenon
    <3> QED BY <1>1, <1>2, <2>1, <3>1, <3>2 DEF TypeOK
  <2>5. LinksOK'
    BY <1>1, <1>2, <2>1, TableAssumption DEF LinksOK
  <2>6. ControlOK'
    BY <1>1, <1>2, <2>1, <2>2, TableAssumption DEF ControlOK, SavingOK, Saving
  <2>7. LiveData(slots') \subseteq LiveData(slots)
    BY <1>2, <2>1 DEF LiveData
  <2>8. LiveData(slots) \ match \subseteq LiveData(slots')
    BY <1>2, <1>5, <2>1 DEF LiveData
  <2>9. \A i \in Live(slots') : i < at + 1 => slots'[i].data \notin match
    BY <1>2, <1>3, <2>1
  <2>10. EraseOK'
    BY <1>1, <1>3, <2>7, <2>8, <2>9 DEF EraseOK
  <2> QED BY <1>4, <2>3, <2>4, <2>5, <2>6, <2>10 DEF StoreInv
<1>6. CASE ~(at \in Live(slots) /\ slots[at].data \in match)
  <2>1. UNCHANGED <<table, slots, last_deleted, updated, damage>>
    BY <1>1, <1>6
  <2>2. IndexOK' /\ DistinctTuples' /\ IndexCovers' /\ IndexExact'
    BY <1>1, <2>1, IndexUntouched
  <2>3. TypeOK'
    BY <1>1, <1>2, <2>1 DEF TypeOK, TableTypeOK
  <2>4. LinksOK' /\ ControlOK'
    BY <1>1, <1>2, <2>1 DEF LinksOK, ControlOK, SavingOK, Saving
  <2>5. \A i \in Live(slots) : i < at + 1 => slots[i].data \notin match
    BY <1>2, <1>3, <1>6
  <2>6. EraseOK'
    BY <1>1, <1>3, <2>1, <2>5 DEF EraseOK
  <2> QED BY <1>4, <2>2, <2>3, <2>4, <2>6 DEF StoreInv
<1> QED
  BY <1>5, <1>6

\* An operator that returns without touching the relation.
LEMMA ReturnStep ==
    ASSUME StoreInv, op \in {"erase", "update", "compact"}, Return,
           UNCHANGED <<table, hashfile, slots, last_deleted, updated, damage>>
    PROVE  StoreInv'
<1>1. op' = "idle" /\ ComeToRest /\ TypeOK /\ LinksOK /\ ControlOK
  BY DEF Return, StoreInv
<1>2. IndexOK' /\ DistinctTuples' /\ IndexCovers' /\ IndexExact'
  BY <1>1, IndexUntouched
<1>3. TableTypeOK' /\ slots' \in Seq(Slot) /\ last_deleted' \in Nat /\ updated' \in BOOLEAN
      /\ damage' \subseteq {"crash", "chain", "text", "overwrite"}
  BY <1>1 DEF TypeOK, TableTypeOK
<1>4. /\ table' \notin {NoTable, Wild} => LinkedTable(table')
      /\ table' = NoTable => ~updated' /\ (op' # "closed" => hashfile' # NoFile)
      /\ table' = Wild => updated' /\ "chain" \in damage'
  BY <1>1 DEF LinksOK, ControlOK
<1> QED
  BY <1>1, <1>2, <1>3, <1>4, RestStep DEF SavingOK, Saving

\* A deletion ends at the end of the file.
LEMMA EraseDoneStep == ASSUME StoreInv, EraseDone PROVE StoreInv'
BY ReturnStep DEF EraseDone, file

\* rl_erase leaves the tuples the condition is false of.
LEMMA EraseLeaves ==
    ASSUME StoreInv, EraseDone
    PROVE  LiveData(slots) = before \ match
<1>1. op = "erase" /\ at > Len(slots) /\ slots \in Seq(Slot)
  BY DEF EraseDone, AtEOF, StoreInv, TypeOK
<1>2. \A i \in Live(slots) : i < at
  <2>1. at \in Nat
    BY DEF StoreInv, TypeOK
  <2> QED BY <1>1, <2>1, LiveSlots
<1> QED
  BY <1>1, <1>2 DEF StoreInv, EraseOK, LiveData

-------------------------------------------------------------------------------
\* rl_update.

\* An update begins: all that is to be read is still in front of it.
LEMMA UpdateBeginStep ==
    ASSUME StoreInv, NEW M \in Conditions, NEW s \in Assignments \cup {Malformed},
           rl_update(M, s)
    PROVE  StoreInv'
<1>1. /\ op = "idle" /\ op' = "update" /\ at' = 1 /\ match' = M /\ before' = LiveData(slots)
      /\ set' = s /\ epos' = Len(slots)
      /\ UNCHANGED <<table, hashfile, slots, last_deleted, updated, pending, copy, damage>>
  BY DEF rl_update, Free, Scan, file
<1>2. /\ slots \in Seq(Slot) /\ Len(slots) \in Nat /\ DOMAIN slots = 1 .. Len(slots)
      /\ Live(slots) \subseteq DOMAIN slots /\ pending = NoTuple /\ copy = NoCopy
      /\ M \in SUBSET Data
  BY <1>1, LiveSlots, OperandAssumption DEF StoreInv, TypeOK, ControlOK, AtRest
<1>3. /\ TypeOK' /\ LinksOK' /\ ControlOK'
      /\ IndexOK' /\ DistinctTuples' /\ IndexCovers' /\ IndexExact'
  BY <1>1, <1>2, ScanBegins
<1>4. Live(slots') = Live(slots) /\ LiveData(slots') = LiveData(slots)
  BY <1>1
<1>5. UpdateOK'
  BY <1>1, <1>2 DEF UpdateOK
<1>6. UpdateSparesItsOwn'
  <2>1. (Len(slots) + 1) .. Len(slots) = {}
    BY <1>2
  <2> QED BY <1>1, <2>1 DEF UpdateSparesItsOwn
<1>7. UpdateMeans'
  <2>1. \A i \in Live(slots) : ~(i < 1) /\ 1 <= i /\ i <= Len(slots)
                               /\ slots[i].data \in LiveData(slots)
    BY <1>2 DEF LiveData
  <2>2. \A d \in LiveData(slots) : \E i \in Live(slots) : slots[i].data = d
    BY DEF LiveData
  <2> QED BY <1>1, <1>2, <1>4, <2>1, <2>2 DEF UpdateMeans
<1>8. EraseOK' /\ CompactOK'
  BY <1>1, <1>2 DEF EraseOK, CompactOK
<1> QED
  BY <1>3, <1>5, <1>6, <1>7, <1>8 DEF StoreInv

\* The parts of the invariant that are about no update.
LEMMA UpdateRuns ==
    ASSUME StoreInv, op = "update", op' = "update", copy' = copy
    PROVE  EraseOK' /\ CompactOK' /\ copy = NoCopy
BY DEF StoreInv, EraseOK, CompactOK

\* An update deletes a tuple and has its image in hand.  When the tuple it has
\* deleted was itself the image of another, its own image is the same.
LEMMA UpdateDeleteStep == ASSUME StoreInv, UpdateDelete PROVE StoreInv'
<1> DEFINE d0 == slots[at].data
<1>1. /\ op = "update" /\ Sane /\ pending = NoTuple /\ ~(at > epos)
      /\ at \in Live(slots) /\ d0 \in match
      /\ tuple_delete(at) /\ hashfile' = hashfile
      /\ IF set = Malformed
         THEN Return
         ELSE /\ pending' = set[d0]
              /\ UNCHANGED <<op, at, match, set, epos, copy, before>>
  BY DEF UpdateDelete, atend
<1>2. /\ slots \in Seq(Slot) /\ Len(slots) \in Nat /\ DOMAIN slots = 1 .. Len(slots)
      /\ Live(slots) \subseteq DOMAIN slots /\ d0 \in Data /\ at \in Nat /\ epos \in Nat
      /\ TypeOK /\ LinksOK /\ ControlOK /\ epos <= Len(slots)
  BY <1>1, LiveSlots DEF StoreInv, TypeOK, UpdateOK
<1>3. /\ slots' \in Seq(Slot)
      /\ LinkedTable(table') \/ (table' = Wild /\ "chain" \in damage')
      /\ updated' = TRUE
      /\ last_deleted' = at
      /\ damage \subseteq damage'
      /\ damage' \subseteq damage \cup {"chain"}
      /\ DOMAIN slots' = DOMAIN slots /\ Len(slots') = Len(slots)
      /\ Live(slots') = Live(slots) \ {at}
      /\ \A j \in DOMAIN slots : slots'[j].data = slots[j].data
      /\ LinkedTable(table') => Indexed(slots', table', damage')
  BY <1>1, OpenInUse, DeleteKeepsIndex
<1>4. LinkedTable(table') => IsTable(table') /\ table' # NoTable /\ table' # Wild
  BY LinkedIsTable
<1>5. /\ TableTypeOK' /\ last_deleted' \in Nat
      /\ damage' \subseteq {"crash", "chain", "text", "overwrite"}
  BY <1>1, <1>2, <1>3, <1>4 DEF TypeOK, TableTypeOK
<1>6. updated' \in BOOLEAN
  BY <1>3, Zenon
<1>7. CASE set = Malformed
  <2>1. op' = "idle" /\ ComeToRest
    BY <1>1, <1>7 DEF Return
  <2>2. IndexOK' /\ DistinctTuples' /\ IndexCovers' /\ IndexExact'
    BY <1>3, <2>1, IndexedChange
  <2> QED
    BY <1>3, <1>4, <1>5, <1>6, <2>1, <2>2, TableAssumption, RestStep DEF SavingOK, Saving
<1>8. CASE set # Malformed
  <2>1. /\ pending' = set[d0] /\ op' = "update"
        /\ UNCHANGED <<at, match, set, epos, copy, before>>
    BY <1>1, <1>8
  <2>2. set \in Assignments /\ set \in [Data -> Tuples]
    BY <1>2, <1>8, OperandAssumption DEF TypeOK
  <2>3. pending' \in Tuples
    BY <1>2, <2>1, <2>2
  <2>4. pending' \in Tuples \cup {NoTuple} /\ pending' # NoTuple
    BY <2>3, TupleAssumption
  <2>5. IndexOK' /\ DistinctTuples' /\ IndexCovers' /\ IndexExact'
    BY <1>3, <2>1, IndexedChange
  <2>6. TypeOK'
    BY <1>2, <1>3, <1>5, <1>6, <2>1, <2>4 DEF TypeOK
  <2>7. LinksOK'
    BY <1>2, <1>3, <2>1, TableAssumption DEF LinksOK
  <2>8. ControlOK'
    BY <1>1, <1>2, <1>3, <1>4, <2>1, TableAssumption DEF ControlOK, SavingOK, Saving
  <2>9. UpdateOK'
    BY <1>1, <1>2, <1>3, <2>1, <2>2 DEF UpdateOK
  <2>10. UpdateSparesItsOwn'
    <3>1. (epos + 1) .. Len(slots) \subseteq Live(slots)
      BY <1>1 DEF StoreInv, UpdateSparesItsOwn
    <3>2. at \notin (epos + 1) .. Len(slots)
      BY <1>1, <1>2
    <3> QED BY <1>3, <2>1, <3>1, <3>2 DEF UpdateSparesItsOwn
  <2>11. UpdateMeans'
    <3> SUFFICES /\ before \ match \subseteq LiveData(slots')
                 /\ \A i \in Live(slots') :
                       IF i <= epos
                       THEN slots'[i].data \in before /\ (i < at => slots'[i].data \notin match)
                       ELSE \E d \in before \cap match : slots'[i].data = stored[set[d]]
                 /\ \E d \in before \cap match : pending' = set[d]
                 /\ damage' = {} => \A d \in before \cap match :
                       \/ \E i \in Live(slots') : at <= i /\ i <= epos /\ slots'[i].data = d
                       \/ stored[set[d]] \in LiveData(slots')
                       \/ stored[pending'] = stored[set[d]]
      BY <2>1, <2>4 DEF UpdateMeans, Made
    <3>1. /\ before \ match \subseteq LiveData(slots)
          /\ \A i \in Live(slots) :
                IF i <= epos
                THEN slots[i].data \in before /\ (i < at => slots[i].data \notin match)
                ELSE \E d \in before \cap match : slots[i].data = stored[set[d]]
          /\ damage' = {} => \A d \in before \cap match :
                \/ \E i \in Live(slots) : at <= i /\ i <= epos /\ slots[i].data = d
                \/ stored[set[d]] \in LiveData(slots)
      BY <1>1, <1>3, <2>2 DEF StoreInv, UpdateMeans, Made
    <3>2. \A i \in Live(slots) : i # at => i \in Live(slots') /\ slots'[i].data = slots[i].data
      BY <1>2, <1>3
    <3>3. before \ match \subseteq LiveData(slots')
      BY <1>1, <3>1, <3>2 DEF LiveData
    <3>4. d0 \in before \cap match
      BY <1>1, <1>2, <3>1
    <3>5. before \subseteq Data
      BY <1>2 DEF TypeOK
    <3>6. ASSUME damage' = {}, NEW d \in before \cap match
          PROVE  \/ \E i \in Live(slots') : at <= i /\ i <= epos /\ slots'[i].data = d
                 \/ stored[set[d]] \in LiveData(slots')
                 \/ stored[pending'] = stored[set[d]]
      <4>1. CASE \E i \in Live(slots) : at <= i /\ i <= epos /\ slots[i].data = d
        BY <2>1, <3>2, <4>1
      <4>2. CASE stored[set[d]] \in LiveData(slots)
        <5>1. PICK j \in Live(slots) : slots[j].data = stored[set[d]]
          BY <4>2 DEF LiveData
        <5>2. CASE j = at
          <6>1. set[d0] = set[d]
            BY <2>2, <3>5, <5>1, <5>2, AssignmentAssumption
          <6> QED BY <2>1, <6>1
        <5>3. CASE j # at
          BY <3>2, <5>1, <5>3 DEF LiveData
        <5> QED BY <5>2, <5>3
      <4> QED BY <3>1, <3>6, <4>1, <4>2
    <3>7. \A i \in Live(slots') :
             IF i <= epos
             THEN slots'[i].data \in before /\ (i < at => slots'[i].data \notin match)
             ELSE \E d \in before \cap match : slots'[i].data = stored[set[d]]
      <4>1. \A i \in Live(slots') : i \in Live(slots) /\ slots'[i].data = slots[i].data
        BY <1>2, <1>3
      <4> QED BY <3>1, <4>1
    <3> QED BY <2>1, <3>3, <3>4, <3>6, <3>7
  <2> QED
    BY <1>1, <2>1, <2>5, <2>6, <2>7, <2>8, <2>9, <2>10, <2>11, UpdateRuns DEF StoreInv
<1> QED
  BY <1>7, <1>8

\* An update appends the tuple it has in hand, behind all those that are left.
LEMMA UpdateAppendStep == ASSUME StoreInv, UpdateAppend PROVE StoreInv'
<1>1. /\ op = "update" /\ op' = "update" /\ Sane /\ pending # NoTuple /\ pending' = NoTuple
      /\ tuple_write(pending, Len(slots) + 1) /\ last_deleted' = last_deleted
      /\ at' = at + 1
      /\ UNCHANGED <<hashfile, match, set, epos, copy, before>>
  BY DEF UpdateAppend, tuple_appendandreturn, Advance
<1>2. /\ slots \in Seq(Slot) /\ Len(slots) \in Nat /\ DOMAIN slots = 1 .. Len(slots)
      /\ Live(slots) \subseteq DOMAIN slots /\ at \in Nat \ {0} /\ epos \in Nat
      /\ TypeOK /\ LinksOK /\ ControlOK /\ epos <= Len(slots)
      /\ at <= epos /\ at \notin Live(slots) /\ set \in Assignments
  BY <1>1, LiveSlots DEF StoreInv, TypeOK, UpdateOK
<1>3. pending \in Tuples
  BY <1>1, <1>2 DEF TypeOK
<1>4. Len(slots) + 1 \in 1 .. Len(slots) + 1
  BY <1>2
<1>5. /\ slots' \in Seq(Slot)
      /\ LinkedTable(table')
      /\ updated' = TRUE
      /\ damage \subseteq damage' /\ damage' \subseteq damage \cup {"text", "overwrite"}
      /\ \/ slots' = slots
         \/ /\ DOMAIN slots' = DOMAIN slots \cup {Len(slots) + 1}
            /\ Live(slots') = Live(slots) \cup {Len(slots) + 1}
            /\ slots'[Len(slots) + 1].data = stored[pending]
            /\ \A j \in DOMAIN slots : j # Len(slots) + 1 => slots'[j] = slots[j]
      /\ Indexed(slots', table', damage')
      /\ damage' = {} => LiveData(slots') = LiveData(slots) \cup {stored[pending]}
  BY <1>1, <1>3, <1>4, OpenInUse, WriteKeepsIndex
<1>6. \/ slots' = slots
      \/ /\ Len(slots') = Len(slots) + 1
         /\ Live(slots') = Live(slots) \cup {Len(slots) + 1}
         /\ slots'[Len(slots) + 1].data = stored[pending]
         /\ \A j \in DOMAIN slots : slots'[j] = slots[j]
  <2>1. ASSUME DOMAIN slots' = DOMAIN slots \cup {Len(slots) + 1}
        PROVE  Len(slots') = Len(slots) + 1
    <3>1. DOMAIN slots' = 1 .. Len(slots') /\ Len(slots') \in Nat
      BY <1>5
    <3>2. 1 .. Len(slots') = 1 .. Len(slots) + 1
      BY <1>2, <2>1, <3>1
    <3>3. Len(slots') <= Len(slots) + 1
      <4>1. ASSUME Len(slots') > Len(slots) + 1 PROVE FALSE
        <5>1. Len(slots') \in 1 .. Len(slots')
          BY <1>2, <3>1, <4>1
        <5>2. Len(slots') \in 1 .. Len(slots) + 1
          BY <3>2, <5>1
        <5> QED BY <1>2, <3>1, <4>1, <5>2
      <4> QED BY <1>2, <3>1, <4>1
    <3>4. Len(slots) + 1 <= Len(slots')
      <4>1. Len(slots) + 1 \in 1 .. Len(slots')
        BY <1>4, <3>2
      <4> QED BY <1>2, <3>1, <4>1
    <3>5. Len(slots') \in Nat /\ Len(slots) \in Nat
      BY <1>2, <3>1
    <3> QED BY <3>3, <3>4, <3>5
  <2>2. \A j \in DOMAIN slots : j # Len(slots) + 1
    BY <1>2
  <2> QED BY <1>5, <2>1, <2>2
<1>7. IsTable(table') /\ table' # NoTable /\ table' # Wild
  BY <1>5, LinkedIsTable
<1>8. IndexOK' /\ DistinctTuples' /\ IndexCovers' /\ IndexExact'
  BY <1>1, <1>5, IndexedChange
<1>9. TypeOK'
  <2>1. TableTypeOK' /\ last_deleted' \in Nat /\ at' \in Nat \ {0}
        /\ damage' \subseteq {"crash", "chain", "text", "overwrite"}
    BY <1>1, <1>2, <1>5, <1>7 DEF TypeOK, TableTypeOK
  <2>2. updated' \in BOOLEAN
    BY <1>5, Zenon
  <2>3. pending' \in Tuples \cup {NoTuple}
    BY <1>1, Zenon
  <2> QED BY <1>1, <1>2, <1>5, <2>1, <2>2, <2>3 DEF TypeOK
<1>10. LinksOK'
  BY <1>1, <1>2, <1>5 DEF LinksOK
<1>11. ControlOK'
  BY <1>1, <1>2, <1>7 DEF ControlOK, SavingOK, Saving
<1>12. UpdateOK'
  BY <1>1, <1>2, <1>6 DEF UpdateOK
<1>13. UpdateSparesItsOwn'
  <2>1. (epos + 1) .. Len(slots) \subseteq Live(slots)
    BY <1>1 DEF StoreInv, UpdateSparesItsOwn
  <2>2. (epos + 1) .. Len(slots) + 1 \subseteq (epos + 1) .. Len(slots) \cup {Len(slots) + 1}
    BY <1>2
  <2>3. (epos + 1) .. Len(slots') \subseteq Live(slots')
    BY <1>6, <2>1, <2>2
  <2> QED BY <1>1, <2>3 DEF UpdateSparesItsOwn
<1>14. UpdateMeans'
  <2> SUFFICES /\ before \ match \subseteq LiveData(slots')
               /\ \A i \in Live(slots') :
                     IF i <= epos
                     THEN slots'[i].data \in before /\ (i < at + 1 => slots'[i].data \notin match)
                     ELSE \E d \in before \cap match : slots'[i].data = stored[set[d]]
               /\ damage' = {} => \A d \in before \cap match :
                     \/ \E i \in Live(slots') : at + 1 <= i /\ i <= epos /\ slots'[i].data = d
                     \/ stored[set[d]] \in LiveData(slots')
    BY <1>1 DEF UpdateMeans, Made
  <2>1. /\ before \ match \subseteq LiveData(slots)
        /\ \A i \in Live(slots) :
              IF i <= epos
              THEN slots[i].data \in before /\ (i < at => slots[i].data \notin match)
              ELSE \E d \in before \cap match : slots[i].data = stored[set[d]]
        /\ \E d \in before \cap match : pending = set[d]
        /\ damage' = {} => \A d \in before \cap match :
              \/ \E i \in Live(slots) : at <= i /\ i <= epos /\ slots[i].data = d
              \/ stored[set[d]] \in LiveData(slots)
              \/ stored[pending] = stored[set[d]]
    BY <1>1, <1>2, <1>5 DEF StoreInv, UpdateMeans, Made
  <2>2. damage' = {} => LiveData(slots') = LiveData(slots) \cup {stored[pending]}
    BY <1>5
  <2>3. \A i \in Live(slots) : /\ i \in Live(slots') /\ slots'[i] = slots[i]
                               /\ (i < at + 1 => i < at) /\ (at <= i => at + 1 <= i)
    BY <1>2, <1>6
  <2>4. \A i \in Live(slots') : i \in Live(slots) \/ (/\ i = Len(slots) + 1
                                                      /\ slots'[i].data = stored[pending])
    BY <1>6
  <2>5. ~(Len(slots) + 1 <= epos)
    BY <1>2
  <2>6. \A i \in Live(slots') :
           IF i <= epos
           THEN slots'[i].data \in before /\ (i < at + 1 => slots'[i].data \notin match)
           ELSE \E d \in before \cap match : slots'[i].data = stored[set[d]]
    <3> SUFFICES ASSUME NEW i \in Live(slots')
                 PROVE  IF i <= epos
                        THEN slots'[i].data \in before
                             /\ (i < at + 1 => slots'[i].data \notin match)
                        ELSE \E d \in before \cap match : slots'[i].data = stored[set[d]]
      OBVIOUS
    <3>1. CASE i \in Live(slots)
      BY <2>1, <2>3, <3>1
    <3>2. CASE i = Len(slots) + 1 /\ slots'[i].data = stored[pending]
      BY <2>1, <2>5, <3>2
    <3> QED BY <2>4, <3>1, <3>2
  <2>7. damage' = {} => \A d \in before \cap match :
           \/ \E i \in Live(slots') : at + 1 <= i /\ i <= epos /\ slots'[i].data = d
           \/ stored[set[d]] \in LiveData(slots')
    BY <2>1, <2>2, <2>3
  <2>8. LiveData(slots) \subseteq LiveData(slots')
    BY <2>3 DEF LiveData
  <2> QED BY <2>1, <2>6, <2>7, <2>8
<1> QED
  BY <1>1, <1>8, <1>9, <1>10, <1>11, <1>12, <1>13, <1>14, UpdateRuns DEF StoreInv

\* An update passes a tuple that it does not change.
LEMMA UpdateSkipStep == ASSUME StoreInv, UpdateSkip PROVE StoreInv'
<1>1. /\ op = "update" /\ op' = "update" /\ pending = NoTuple /\ ~(at > epos)
      /\ ~(at \in Live(slots) /\ slots[at].data \in match)
      /\ at' = at + 1
      /\ UNCHANGED <<table, hashfile, slots, last_deleted, updated, match, set, epos,
                     pending, copy, before, damage>>
  BY DEF UpdateSkip, atend, Advance, file
<1>2. /\ slots \in Seq(Slot) /\ Len(slots) \in Nat /\ DOMAIN slots = 1 .. Len(slots)
      /\ Live(slots) \subseteq DOMAIN slots /\ at \in Nat \ {0} /\ epos \in Nat
      /\ TypeOK /\ LinksOK /\ ControlOK /\ epos <= Len(slots)
  BY <1>1, LiveSlots DEF StoreInv, TypeOK, UpdateOK
<1>3. IndexOK' /\ DistinctTuples' /\ IndexCovers' /\ IndexExact'
  BY <1>1, IndexUntouched
<1>4. TypeOK'
  BY <1>1, <1>2 DEF TypeOK, TableTypeOK
<1>5. LinksOK' /\ ControlOK'
  BY <1>1, <1>2 DEF LinksOK, ControlOK, SavingOK, Saving
<1>6. UpdateOK'
  BY <1>1, <1>2 DEF UpdateOK
<1>7. UpdateSparesItsOwn'
  BY <1>1 DEF StoreInv, UpdateSparesItsOwn, Live
<1>8. UpdateMeans'
  <2>1. \A i \in Live(slots) : /\ (i < at + 1 => i < at \/ i = at)
                               /\ (at <= i => at + 1 <= i \/ i = at)
    BY <1>2
  <2>2. Live(slots') = Live(slots) /\ LiveData(slots') = LiveData(slots)
    BY <1>1
  <2> QED BY <1>1, <2>1, <2>2 DEF StoreInv, UpdateMeans, Made
<1> QED
  BY <1>1, <1>3, <1>4, <1>5, <1>6, <1>7, <1>8, UpdateRuns DEF StoreInv

\* An update ends when it has read the last of the old tuples.
LEMMA UpdateDoneStep == ASSUME StoreInv, UpdateDone PROVE StoreInv'
BY ReturnStep DEF UpdateDone, file

\* rl_update leaves the tuples the condition is false of, and of the others the
\* images: all of them, if the index was right all the time.
LEMMA UpdateLeaves ==
    ASSUME StoreInv, UpdateDone, set \in Assignments
    PROVE  LET image == {stored[set[d]] : d \in before \cap match}
           IN  /\ before \ match \subseteq LiveData(slots)
               /\ LiveData(slots) \subseteq (before \ match) \cup image
               /\ damage = {} => LiveData(slots) = (before \ match) \cup image
<1>1. /\ op = "update" /\ pending = NoTuple /\ at > epos /\ slots \in Seq(Slot)
      /\ at \in Nat /\ epos \in Nat
  BY DEF UpdateDone, atend, StoreInv, TypeOK
<1>2. /\ before \ match \subseteq LiveData(slots)
      /\ \A i \in Live(slots) :
            IF i <= epos
            THEN slots[i].data \in before /\ (i < at => slots[i].data \notin match)
            ELSE \E d \in before \cap match : slots[i].data = stored[set[d]]
      /\ damage = {} => \A d \in before \cap match :
            \/ \E i \in Live(slots) : at <= i /\ i <= epos /\ slots[i].data = d
            \/ stored[set[d]] \in LiveData(slots)
  BY <1>1 DEF StoreInv, UpdateMeans, Made
<1>3. \A i \in Live(slots) : /\ i <= epos => i < at
                             /\ ~(at <= i /\ i <= epos)
  BY <1>1, LiveSlots
<1>4. LiveData(slots) \subseteq
         (before \ match) \cup {stored[set[d]] : d \in before \cap match}
  BY <1>2, <1>3 DEF LiveData
<1>5. damage = {} => {stored[set[d]] : d \in before \cap match} \subseteq LiveData(slots)
  BY <1>2, <1>3
<1> QED
  BY <1>2, <1>4, <1>5

-------------------------------------------------------------------------------
\* rl_compact.

\* The copy begins empty.
LEMMA CompactBeginStep == ASSUME StoreInv, rl_compact PROVE StoreInv'
<1>1. /\ op = "idle" /\ op' = "compact" /\ at' = 1 /\ match' = {} /\ before' = LiveData(slots)
      /\ copy' = NoCopy
      /\ UNCHANGED <<table, hashfile, slots, last_deleted, updated, set, epos,
                     pending, damage>>
  BY DEF rl_compact, Free, Scan, file
<1>2. /\ set \in Assignments \cup {Malformed} /\ epos \in Nat /\ pending = NoTuple
      /\ slots \in Seq(Slot)
  BY <1>1 DEF StoreInv, TypeOK, ControlOK, AtRest
<1>3. /\ TypeOK' /\ LinksOK' /\ ControlOK'
      /\ IndexOK' /\ DistinctTuples' /\ IndexCovers' /\ IndexExact'
      /\ \A i \in Live(slots) : i >= 1
  BY <1>1, <1>2, ScanBegins
<1>4. TextsBefore(at)' = {}
  <2>1. \A j \in Live(slots) : ~(j < 1)
    BY <1>2, LiveSlots
  <2> QED BY <1>1, <2>1 DEF TextsBefore
<1>5. DOMAIN NoCopy.slots = {} /\ Live(NoCopy.slots) = {} /\ LiveTexts(NoCopy.slots) = {}
  <2>1. DOMAIN NoCopy.slots = {}
    BY NoCopyTyped
  <2> QED BY <2>1 DEF Live, LiveTexts, LiveData
<1>6. KeysIn(NoCopy.table) = {} /\ OneNodeEach(NoCopy.table)
  BY NoCopyTyped, EmptyTableLinked
<1>7. CompactOK'
  BY <1>1, <1>4, <1>5, <1>6 DEF CompactOK, Distinct
<1>8. EraseOK' /\ UpdateOK' /\ UpdateSparesItsOwn' /\ UpdateMeans'
  BY <1>1 DEF EraseOK, UpdateOK, UpdateSparesItsOwn, UpdateMeans
<1> QED
  BY <1>3, <1>7, <1>8 DEF StoreInv

\* The texts read grow by that of the slot read, if it is live.
LEMMA TextsGrow ==
    ASSUME slots \in Seq(Slot), at \in Nat
    PROVE  TextsBefore(at + 1) =
              TextsBefore(at) \cup (IF at \in Live(slots) THEN {text[slots[at].data]} ELSE {})
<1>1. {j \in Live(slots) : j < at + 1} =
         {j \in Live(slots) : j < at} \cup (IF at \in Live(slots) THEN {at} ELSE {})
  BY LiveSlots
<1> QED
  BY <1>1 DEF TextsBefore

\* rl_duplicate copies a live tuple whose text `_temp' does not have.
LEMMA CompactNextStep == ASSUME StoreInv, CompactNext PROVE StoreInv'
<1> DEFINE d == slots[at].data
           k == text[d]
<1>1. /\ op = "compact" /\ op' = "compact" /\ Sane /\ at' = at + 1
      /\ copy' = IF at \notin Live(slots) THEN copy
                 ELSE IF Found(copy.table, k) THEN [copy EXCEPT !.updated = TRUE]
                 ELSE [slots   |-> At(copy.slots, Len(copy.slots) + 1, stored[d]),
                       table   |-> Inserted(copy.table, k),
                       updated |-> TRUE]
      /\ UNCHANGED <<table, hashfile, slots, last_deleted, updated, match, set, epos,
                     pending, before, damage>>
  BY DEF CompactNext, Advance, file, ReadBack
<1>2. /\ slots \in Seq(Slot) /\ at \in Nat \ {0} /\ TypeOK /\ LinksOK /\ ControlOK
      /\ Live(slots) \subseteq DOMAIN slots
      /\ copy.slots \in Seq(Slot) /\ copy.updated \in BOOLEAN
  BY LiveSlots DEF StoreInv, TypeOK
<1>3. /\ Live(copy.slots) = DOMAIN copy.slots
      /\ Distinct(copy.slots)
      /\ LiveTexts(copy.slots) = TextsBefore(at)
      /\ KeysIn(copy.table) = TextsBefore(at)
      /\ OneNodeEach(copy.table)
      /\ LinkedTable(copy.table)
      /\ copy = [slots |-> copy.slots, table |-> copy.table, updated |-> copy.updated]
  BY <1>1, <1>2 DEF StoreInv, CompactOK, LinksOK, ControlOK
<1>4. TextsBefore(at)' =
         TextsBefore(at) \cup (IF at \in Live(slots) THEN {k} ELSE {})
  <2>1. TextsBefore(at)' = TextsBefore(at + 1)
    BY <1>1 DEF TextsBefore, Live
  <2> QED BY <1>2, <2>1, TextsGrow
<1> DEFINE Good(c) == /\ c.slots \in Seq(Slot) /\ c.updated \in BOOLEAN
                      /\ c = [slots |-> c.slots, table |-> c.table, updated |-> c.updated]
                      /\ Live(c.slots) = DOMAIN c.slots
                      /\ Distinct(c.slots)
                      /\ LiveTexts(c.slots) = TextsBefore(at)'
                      /\ KeysIn(c.table) = TextsBefore(at)'
                      /\ OneNodeEach(c.table)
                      /\ LinkedTable(c.table)
<1>5. Good(copy')
  <2>1. CASE at \notin Live(slots)
    BY <1>1, <1>2, <1>3, <1>4, <2>1
  <2>2. CASE at \in Live(slots) /\ Found(copy.table, k)
    <3>1. k \in TextsBefore(at)
      <4>1. k \in Keys
        BY <1>2, <2>2, LiveSlots, DataIsTyped
      <4> QED BY <1>3, <2>2, <4>1 DEF KeysIn
    <3>2. TextsBefore(at)' = TextsBefore(at)
      BY <1>4, <2>2, <3>1
    <3>3. copy' = [slots |-> copy.slots, table |-> copy.table, updated |-> TRUE]
      BY <1>1, <1>3, <2>2
    <3>4. copy'.slots = copy.slots /\ copy'.table = copy.table /\ copy'.updated = TRUE
      BY <3>3
    <3>5. copy'.updated \in BOOLEAN
      BY <3>4, Zenon
    <3>6. copy' = [slots |-> copy'.slots, table |-> copy'.table, updated |-> copy'.updated]
      BY <3>3, <3>4
    <3> QED BY <1>2, <1>3, <3>2, <3>4, <3>5, <3>6
  <2>3. CASE at \in Live(slots) /\ ~Found(copy.table, k)
    <3> DEFINE n == Len(copy.slots) + 1
               u == At(copy.slots, n, stored[d])
               w == Inserted(copy.table, k)
    <3>1. d \in Data /\ k \in Keys /\ stored[d] = d
      BY <1>2, <2>3, LiveSlots, DataIsTyped
    <3>2. n \in 1 .. Len(copy.slots) + 1 /\ n \notin DOMAIN copy.slots
      BY <1>2, LiveSlots
    <3>3. copy' = [slots |-> u, table |-> w, updated |-> TRUE]
      BY <1>1, <2>3
    <3>4. /\ LinkedTable(w)
          /\ KeysIn(w) = KeysIn(copy.table) \cup {k}
          /\ OneNodeEach(w)
      BY <1>3, <2>3, <3>1, InsertedKeys
    <3>5. /\ u \in Seq(Slot)
          /\ Live(u) = Live(copy.slots) \cup {n}
          /\ u[n].data = d
          /\ \A j \in DOMAIN copy.slots : j # n => u[j] = copy.slots[j]
          /\ DOMAIN u = DOMAIN copy.slots \cup {n}
      <4>1. u = At(copy.slots, n, d)
        BY <3>1
      <4>2. copy.slots \in Seq(Slot) /\ n \in 1 .. Len(copy.slots) + 1 /\ d \in Data
        BY <1>2, <3>1, <3>2
      <4> HIDE DEF n, u, d
      <4> QED BY <4>1, <4>2, AtWrites, Zenon
    <3> HIDE DEF n, u, w
    <3>6. \A j \in Live(copy.slots) : j # n /\ u[j] = copy.slots[j]
      BY <1>3, <3>2, <3>5
    <3>7. LiveTexts(u) = LiveTexts(copy.slots) \cup {k}
      BY <3>5, <3>6 DEF LiveTexts, LiveData
    <3>8. \A j \in Live(copy.slots) : text[copy.slots[j].data] # k
      <4>1. k \notin LiveTexts(copy.slots)
        BY <1>3, <2>3, <3>1 DEF KeysIn
      <4> QED BY <4>1 DEF LiveTexts, LiveData
    <3>9. Distinct(u)
      BY <1>3, <3>5, <3>6, <3>8 DEF Distinct
    <3>10. copy'.slots = u /\ copy'.table = w /\ copy'.updated = TRUE
      BY <3>3
    <3>11. copy'.updated \in BOOLEAN
      BY <3>10, Zenon
    <3>12. copy' = [slots |-> copy'.slots, table |-> copy'.table, updated |-> copy'.updated]
      BY <3>3, <3>10
    <3> QED BY <1>3, <1>4, <2>3, <3>4, <3>5, <3>7, <3>9, <3>10, <3>11, <3>12
  <2> QED BY <2>1, <2>2, <2>3
<1>6. CompactOK'
  BY <1>1, <1>5 DEF CompactOK
<1>7. IndexOK' /\ DistinctTuples' /\ IndexCovers' /\ IndexExact'
  BY <1>1, IndexUntouched
<1>8. IsTable(copy'.table)
  BY <1>5 DEF LinkedTable
<1>9. TypeOK'
  <2>1. TableTypeOK' /\ at' \in Nat \ {0}
    BY <1>1, <1>2 DEF TypeOK, TableTypeOK
  <2>2. copy'.slots \in Seq(Slot) /\ copy'.updated \in BOOLEAN
    BY <1>5
  <2> HIDE DEF Good
  <2>3. UNCHANGED <<slots, last_deleted, updated, match, set, epos, pending, before, damage>>
        /\ op' = "compact"
    BY <1>1
  <2> QED BY <1>2, <1>8, <2>1, <2>2, <2>3 DEF TypeOK
<1>10. LinksOK' /\ ControlOK'
  BY <1>1, <1>2, <1>5 DEF LinksOK, ControlOK, SavingOK, Saving
<1>11. EraseOK' /\ UpdateOK' /\ UpdateSparesItsOwn' /\ UpdateMeans'
  BY <1>1 DEF EraseOK, UpdateOK, UpdateSparesItsOwn, UpdateMeans
<1> QED
  BY <1>6, <1>7, <1>9, <1>10, <1>11 DEF StoreInv

\* `_temp' takes the place of the relation, with the relation's tuples and an
\* index that is theirs.
LEMMA CompactDoneHolds ==
    ASSUME StoreInv, CompactDone
    PROVE  /\ LiveTexts(slots') = LiveTexts(slots)
           /\ Live(slots') = DOMAIN slots' /\ slots' \in Seq(Slot)
           /\ Distinct(slots')
           /\ LinkedTable(table')
           /\ KeysIn(table') = LiveTexts(slots')
           /\ OneNodeEach(table')
<1>1. /\ op = "compact" /\ at > Len(slots) /\ slots' = copy.slots /\ table' = copy.table
      /\ slots \in Seq(Slot) /\ copy.slots \in Seq(Slot) /\ at \in Nat
      /\ LinkedTable(copy.table)
  BY DEF CompactDone, AtEOF, StoreInv, TypeOK, LinksOK
<1>2. {j \in Live(slots) : j < at} = Live(slots)
  BY <1>1, LiveSlots
<1>3. TextsBefore(at) = LiveTexts(slots)
  BY <1>2 DEF TextsBefore, LiveTexts, LiveData
<1> QED
  BY <1>1, <1>3 DEF StoreInv, CompactOK

\* A relation that was compacted is as good as new.
LEMMA CompactDoneStep == ASSUME StoreInv, CompactDone PROVE StoreInv'
<1>1. /\ op' = "idle" /\ ComeToRest /\ hashfile' = NoFile /\ damage' = {}
      /\ last_deleted' = 0 /\ updated' = copy.updated
  BY DEF CompactDone, Return
<1>2. /\ slots' \in Seq(Slot) /\ Distinct(slots')
      /\ LinkedTable(table')
      /\ KeysIn(table') = LiveTexts(slots')
      /\ OneNodeEach(table')
  BY CompactDoneHolds
<1>3. IsTable(table') /\ table' # NoTable /\ table' # Wild
  BY <1>2, LinkedIsTable
<1>4. TheTable' = table' /\ IndexKeys' = KeysIn(table')
  BY <1>3 DEF TheTable, IndexKeys, KeysIn
<1>5. IndexOK' /\ DistinctTuples' /\ IndexCovers' /\ IndexExact'
  BY <1>1, <1>2, <1>4 DEF IndexOK, DistinctTuples, Distinct, IndexCovers, IndexExact
<1>6. TableTypeOK'
  BY <1>1, <1>3 DEF TableTypeOK
<1>7. updated' \in BOOLEAN
  BY <1>1 DEF StoreInv, TypeOK
<1> QED
  BY <1>1, <1>2, <1>3, <1>5, <1>6, <1>7, RestStep DEF SavingOK, Saving

-------------------------------------------------------------------------------
\* The invariant.

\* Every step keeps the invariant.
LEMMA StoreInvInductive == StoreInv /\ [StoreNext]_vars => StoreInv'
<1> SUFFICES ASSUME StoreInv, [StoreNext]_vars PROVE StoreInv'
  OBVIOUS
<1>1. CASE UNCHANGED vars
  <2>1. UNCHANGED <<table, hashfile, slots, last_deleted, updated, op, at, match, set,
                    epos, pending, copy, before, damage>>
    BY <1>1 DEF vars
  <2>2. TypeOK' /\ LinksOK'
    BY <2>1 DEF StoreInv, TypeOK, LinksOK, TableTypeOK
  <2>3. ControlOK'
    BY <2>1 DEF StoreInv, ControlOK, AtRest, SavingOK, Saving
  <2>4. TheTable' = TheTable /\ IndexKeys' = IndexKeys /\ Sound' = Sound /\ Sane' = Sane
        /\ TextsBefore(at)' = TextsBefore(at) /\ LiveTexts(slots') = LiveTexts(slots)
        /\ LiveData(slots') = LiveData(slots) /\ Live(slots') = Live(slots)
    BY <2>1 DEF TheTable, IndexKeys, Sound, Sane, TextsBefore
  <2>5. IndexOK' /\ DistinctTuples' /\ IndexCovers' /\ IndexExact'
    BY <2>1, <2>4
    DEF StoreInv, IndexOK, DistinctTuples, IndexCovers, IndexExact, IndexInUse
  <2>6. EraseOK' /\ UpdateOK' /\ UpdateSparesItsOwn'
    BY <2>1, <2>4 DEF StoreInv, EraseOK, UpdateOK, UpdateSparesItsOwn
  <2>7. UpdateMeans' /\ CompactOK'
    BY <2>1, <2>4 DEF StoreInv, UpdateMeans, Made, CompactOK
  <2> QED BY <2>2, <2>3, <2>5, <2>6, <2>7 DEF StoreInv
<1>2. CASE Open \/ Close \/ Crash
  BY <1>2, OpenStep, CloseStep, CrashStep
<1>3. CASE \E t \in Tuples : insert(t)
  BY <1>3, InsertTupleStep
<1>4. CASE \E M \in Conditions : rl_erase(M)
  BY <1>4, EraseBeginStep
<1>5. CASE \E M \in Conditions, s \in Assignments \cup {Malformed} : rl_update(M, s)
  BY <1>5, UpdateBeginStep
<1>6. CASE rl_compact
  BY <1>6, CompactBeginStep
<1>7. CASE ScanStep
  <2>1. CASE Build \/ Built \/ SaveNode \/ SaveDone
    BY <2>1, BuildStep, BuiltStep, SaveNodeStep, SaveDoneStep
  <2>2. CASE EraseNext \/ EraseDone
    BY <2>2, EraseNextStep, EraseDoneStep
  <2>3. CASE UpdateDelete \/ UpdateAppend \/ UpdateSkip \/ UpdateDone
    BY <2>3, UpdateDeleteStep, UpdateAppendStep, UpdateSkipStep, UpdateDoneStep
  <2>4. CASE CompactNext \/ CompactDone
    BY <2>4, CompactNextStep, CompactDoneStep
  <2> QED BY <1>7, <2>1, <2>2, <2>3, <2>4 DEF ScanStep
<1> QED
  BY <1>1, <1>2, <1>3, <1>4, <1>5, <1>6, <1>7 DEF StoreNext

\* The inductive invariant holds in every state of the store.
THEOREM StoreInvariant == StoreSpec => []StoreInv
BY InitHolds, StoreInvInductive, PTL DEF StoreSpec

\* A process that opens, scans, changes and closes a relation, or dies at it,
\* leaves every part of it well formed.
THEOREM StoreTyped == StoreSpec => []TypeOK
<1>1. StoreInv => TypeOK
  BY DEF StoreInv
<1> QED
  BY <1>1, StoreInvariant, PTL

\* While the index can be trusted, no relation holds a tuple twice.
THEOREM RelationIsSet == StoreSpec => []DistinctTuples
<1>1. StoreInv => DistinctTuples
  BY DEF StoreInv
<1> QED
  BY <1>1, StoreInvariant, PTL

\* Until a table or a hash file has been corrupted, the index in use, in memory or
\* on disk, knows every tuple of the relation.
THEOREM IndexKnowsAll == StoreSpec => []IndexCovers
<1>1. StoreInv => IndexCovers
  BY DEF StoreInv
<1> QED
  BY <1>1, StoreInvariant, PTL

\* And in an undamaged relation it knows no others.
THEOREM IndexKnowsNoMore == StoreSpec => []IndexExact
<1>1. StoreInv => IndexExact
  BY DEF StoreInv
<1> QED
  BY <1>1, StoreInvariant, PTL

\* No update deletes what it has appended itself.
THEOREM OwnTuplesSpared == StoreSpec => []UpdateSparesItsOwn
<1>1. StoreInv => UpdateSparesItsOwn
  BY DEF StoreInv
<1> QED
  BY <1>1, StoreInvariant, PTL

-------------------------------------------------------------------------------
\* What the operators do.

\* An insertion that does no damage adds its tuple and loses none.
THEOREM InsertAdds == StoreSpec => InsertIsUnion
<1>1. StoreInv /\ [StoreNext]_vars =>
        [\A t \in Tuples : insert(t) /\ damage' = {} =>
            LiveData(slots') = LiveData(slots) \cup {stored[t]}]_vars
  <2> SUFFICES ASSUME StoreInv, NEW t \in Tuples, insert(t), damage' = {}
               PROVE  LiveData(slots') = LiveData(slots) \cup {stored[t]}
    OBVIOUS
  <2>1. Sane /\ IndexInUse
    BY InsertWrites
  <2>2. PICK i \in 1 .. Len(slots) + 1 : tuple_write(t, i)
    BY InsertWrites
  <2> QED BY <2>1, <2>2, WriteKeepsIndex
<1> QED
  BY <1>1, StoreInvariant, PTL DEF StoreSpec, InsertIsUnion

\* A deletion that has come to its end has deleted what it was to delete, however
\* little the index could be trusted.
THEOREM EraseExact == StoreSpec => EraseIsExact
<1>1. StoreInv /\ [StoreNext]_vars => [EraseDone => LiveData(slots) = before \ match]_vars
  BY EraseLeaves
<1> QED
  BY <1>1, StoreInvariant, PTL DEF StoreSpec, EraseIsExact

\* An update of an undamaged relation replaces what it was to replace, although it
\* reads the file that it appends to.
THEOREM UpdateExact == StoreSpec => UpdateIsExact
<1>1. StoreInv /\ [StoreNext]_vars =>
        [UpdateDone /\ set \in Assignments /\ damage = {} =>
            LiveData(slots) = (before \ match) \cup
                              {stored[set[d]] : d \in before \cap match}]_vars
  BY UpdateLeaves
<1> QED
  BY <1>1, StoreInvariant, PTL DEF StoreSpec, UpdateIsExact

\* A file of live tuples with different texts has as many slots as texts.
LEMMA OneSlotEach ==
    ASSUME NEW s \in Seq(Slot), Live(s) = DOMAIN s, Distinct(s)
    PROVE  Len(s) = Cardinality(LiveTexts(s))
<1> DEFINE n == Len(s)
           T == LiveTexts(s)
           f == [i \in 1 .. n |-> text[s[i].data]]
<1>1. n \in Nat /\ DOMAIN s = 1 .. n
  OBVIOUS
<1>2. IsFiniteSet(1 .. n) /\ Cardinality(1 .. n) = n
  <2>1. n \in Nat
    BY <1>1
  <2> HIDE DEF n
  <2>2. IsFiniteSet(1 .. n) /\ Cardinality(1 .. n) = IF 1 > n THEN 0 ELSE n - 1 + 1
    BY <2>1, FS_Interval
  <2> QED BY <2>1, <2>2
<1>3. T = {text[s[i].data] : i \in 1 .. n}
  BY <1>1 DEF LiveTexts, LiveData
<1> HIDE DEF n, T
<1>4. f \in [1 .. n -> T]
  BY <1>3
<1>5. \A i, j \in 1 .. n : f[i] = f[j] => i = j
  BY <1>1 DEF Distinct
<1>6. \A y \in T : \E i \in 1 .. n : f[i] = y
  BY <1>3
<1>7. f \in Bijection(1 .. n, T)
  BY <1>4, <1>5, <1>6 DEF Bijection, Injection, Surjection, IsInjective
<1>8. Cardinality(T) = Cardinality(1 .. n)
  BY <1>2, <1>7, FS_Bijection DEF ExistsBijection
<1> QED
  BY <1>2, <1>8 DEF n, T

\* Compacting keeps the texts of the relation, each in one slot, and this is what
\* makes it a cure for every damage.
THEOREM CompactKeeps == StoreSpec => CompactKeepsTuples
<1>1. StoreInv /\ [StoreNext]_vars =>
        [CompactDone => /\ LiveTexts(slots') = LiveTexts(slots)
                        /\ Len(slots') = Cardinality(LiveTexts(slots))]_vars
  BY CompactDoneHolds, OneSlotEach
<1> QED
  BY <1>1, StoreInvariant, PTL DEF StoreSpec, CompactKeepsTuples

-------------------------------------------------------------------------------
(***************************************************************************)
(* The relation is a set to its users.  Beside the inductive invariant the  *)
(* mapping needs to know what an operator that has not come to its end has  *)
(* left alone.                                                              *)
(***************************************************************************)

\* A relation being opened has no operator running; an update with a malformed set
\* string has met no tuple to change; and rl_compact changes only its copy, which
\* holds tuples of the relation.
Untouched ==
    /\ op = "opening" => match = {} /\ set = Malformed
    /\ op = "update" /\ set = Malformed =>
          /\ before = LiveData(slots) /\ epos = Len(slots)
          /\ \A i \in Live(slots) : i < at => slots[i].data \notin match
    /\ op = "compact" => before = LiveData(slots) /\ LiveData(copy.slots) \subseteq before

\* Nothing is asked of a relation that no operator is using.
LEMMA UntouchedAtRest ==
    ASSUME op' \in {"closed", "saving", "idle", "closing"} PROVE Untouched'
BY DEF Untouched

\* rl_duplicate copies tuples of the relation.
LEMMA CopyWithin ==
    ASSUME StoreInv, Untouched, CompactNext
    PROVE  LiveData(copy'.slots) \subseteq before
<1> DEFINE d == slots[at].data
           n == Len(copy.slots) + 1
           u == At(copy.slots, n, stored[d])
<1>1. /\ op = "compact"
      /\ copy' = IF at \notin Live(slots) THEN copy
                 ELSE IF Found(copy.table, text[d]) THEN [copy EXCEPT !.updated = TRUE]
                 ELSE [slots   |-> u,
                       table   |-> Inserted(copy.table, text[d]),
                       updated |-> TRUE]
  BY DEF CompactNext, ReadBack
<1>2. /\ slots \in Seq(Slot) /\ copy.slots \in Seq(Slot)
      /\ copy = [slots |-> copy.slots, table |-> copy.table, updated |-> copy.updated]
      /\ before = LiveData(slots) /\ LiveData(copy.slots) \subseteq before
  BY <1>1 DEF StoreInv, TypeOK, ControlOK, Untouched
<1>3. CASE at \notin Live(slots)
  BY <1>1, <1>2, <1>3
<1>4. CASE at \in Live(slots) /\ Found(copy.table, text[d])
  <2>1. copy' = [slots |-> copy.slots, table |-> copy.table, updated |-> TRUE]
    BY <1>1, <1>2, <1>4
  <2>2. copy'.slots = copy.slots
    BY <2>1
  <2> QED BY <1>2, <2>2
<1>5. CASE at \in Live(slots) /\ ~Found(copy.table, text[d])
  <2>1. d \in Data /\ stored[d] = d /\ d \in before
    BY <1>2, <1>5, LiveSlots, DataIsTyped DEF LiveData
  <2>2. copy'.slots = u
    BY <1>1, <1>5
  <2>3. n \in 1 .. Len(copy.slots) + 1 /\ n \notin DOMAIN copy.slots
    BY <1>2, LiveSlots
  <2>4. u = At(copy.slots, n, d)
    BY <2>1
  <2>5. copy.slots \in Seq(Slot) /\ n \in 1 .. Len(copy.slots) + 1 /\ d \in Data
    BY <1>2, <2>1, <2>3
  <2> HIDE DEF n, u, d
  <2>6. /\ Live(u) = Live(copy.slots) \cup {n}
        /\ u[n].data = d
        /\ \A j \in DOMAIN copy.slots : j # n => u[j] = copy.slots[j]
    BY <2>4, <2>5, AtWrites, Zenon
  <2>7. \A j \in Live(copy.slots) : j # n /\ j \in DOMAIN copy.slots
    BY <2>3 DEF Live
  <2>8. LiveData(u) \subseteq LiveData(copy.slots) \cup {d}
    BY <2>6, <2>7 DEF LiveData
  <2> QED BY <1>2, <2>1, <2>2, <2>8
<1> QED
  BY <1>3, <1>4, <1>5

\* Every step leaves alone what Untouched says.
LEMMA UntouchedInductive == StoreInv /\ Untouched /\ [StoreNext]_vars => Untouched'
<1> SUFFICES ASSUME StoreInv, Untouched, [StoreNext]_vars PROVE Untouched'
  OBVIOUS
<1>1. CASE UNCHANGED vars
  <2>1. UNCHANGED <<slots, op, at, match, set, epos, copy, before>>
    BY <1>1 DEF vars
  <2> QED BY <2>1 DEF Untouched, LiveData, Live
<1>2. CASE Open
  <2>1. /\ op = "closed" /\ op' \in {"opening", "idle"} /\ UNCHANGED <<match, set>>
        /\ AtRest
    BY <1>2 DEF Open, scan, StoreInv, ControlOK
  <2> QED BY <2>1 DEF Untouched, AtRest
<1>3. CASE \/ Close \/ SaveNode \/ SaveDone \/ Crash \/ Built
           \/ EraseDone \/ UpdateDone \/ CompactDone
  <2>1. op' \in {"closed", "saving", "idle", "closing"}
    BY <1>3
    DEF Close, SaveNode, SaveDone, Saving, Crash, Built, EraseDone, UpdateDone, CompactDone,
        Return
  <2> QED BY <2>1, UntouchedAtRest
<1>4. CASE \E t \in Tuples : insert(t)
  <2>1. op' = "idle"
    BY <1>4 DEF insert, Free, scan
  <2> QED BY <2>1, UntouchedAtRest
<1>5. CASE \E M \in Conditions : rl_erase(M)
  BY <1>5 DEF rl_erase, Scan, Untouched
<1>6. CASE \E M \in Conditions, s \in Assignments \cup {Malformed} : rl_update(M, s)
  <2>1. /\ op' = "update" /\ before' = LiveData(slots) /\ slots' = slots
        /\ epos' = Len(slots) /\ at' = 1
    BY <1>6 DEF rl_update, Scan, file
  <2>2. \A i \in Live(slots) : ~(i < 1)
    BY LiveSlots DEF StoreInv, TypeOK
  <2>3. Live(slots') = Live(slots) /\ LiveData(slots') = LiveData(slots)
    BY <2>1
  <2> QED BY <2>1, <2>2, <2>3 DEF Untouched
<1>7. CASE rl_compact
  <2>1. op' = "compact" /\ before' = LiveData(slots) /\ slots' = slots /\ copy' = NoCopy
    BY <1>7 DEF rl_compact, Scan, file
  <2>2. LiveData(NoCopy.slots) = {}
    <3>1. DOMAIN NoCopy.slots = {}
      BY NoCopyTyped
    <3> QED BY <3>1 DEF Live, LiveData
  <2> QED BY <2>1, <2>2 DEF Untouched, LiveData, Live
<1>8. CASE Build
  <2>1. op = "opening" /\ op' = "opening" /\ UNCHANGED <<match, set>>
    BY <1>8 DEF Build
  <2> QED BY <2>1 DEF Untouched
<1>9. CASE EraseNext
  BY <1>9 DEF EraseNext, Untouched
<1>10. CASE UpdateDelete
  <2>1. op' = "idle" \/ (op' = "update" /\ set # Malformed /\ set' = set)
    BY <1>10 DEF UpdateDelete, Return
  <2> QED BY <2>1 DEF Untouched
<1>11. CASE UpdateAppend
  <2>1. op = "update" /\ op' = "update" /\ set' = set /\ set \in Assignments
    BY <1>11 DEF UpdateAppend, StoreInv, UpdateOK
  <2>2. set # Malformed
    BY <2>1, OperandAssumption
  <2> QED BY <2>1, <2>2 DEF Untouched
<1>12. CASE UpdateSkip
  <2>1. /\ op = "update" /\ op' = "update" /\ UNCHANGED <<slots, match, set, epos, before>>
        /\ ~(at \in Live(slots) /\ slots[at].data \in match) /\ at' = at + 1
    BY <1>12 DEF UpdateSkip, Advance, file
  <2>2. \A i \in Live(slots) : i < at + 1 => i < at \/ i = at
    BY LiveSlots DEF StoreInv, TypeOK
  <2>3. Live(slots') = Live(slots) /\ LiveData(slots') = LiveData(slots)
    BY <2>1
  <2> QED BY <2>1, <2>2, <2>3 DEF Untouched
<1>13. CASE CompactNext
  <2>1. op = "compact" /\ op' = "compact" /\ UNCHANGED <<slots, before>>
    BY <1>13 DEF CompactNext, file
  <2> QED BY <1>13, <2>1, CopyWithin DEF Untouched, LiveData, Live
<1> QED
  BY <1>1, <1>2, <1>3, <1>4, <1>5, <1>6, <1>7, <1>8, <1>9, <1>10, <1>11, <1>12, <1>13
  DEF StoreNext, ScanStep

\* What an unfinished operator has left alone, in every state of the store.
LEMMA UntouchedInvariant == StoreSpec => [](StoreInv /\ Untouched)
<1>1. StoreInit => Untouched
  BY DEF StoreInit, Untouched
<1>2. (StoreInv /\ Untouched) /\ [StoreNext]_vars => (StoreInv /\ Untouched)'
  BY StoreInvInductive, UntouchedInductive
<1> QED
  BY <1>1, <1>2, InitHolds, PTL DEF StoreSpec

\* While no operator runs, the relation is what its file holds.
LEMMA NoneRuns ==
    ASSUME op \notin {"erase", "update", "compact"}, match = {}, set = Malformed
    PROVE  SetRows = LiveData(slots) /\ SetRunning = AsSet!None
BY DEF SetRows, SetRunning, Scanning, ImageOf, AsSet!None

\* While one runs, the relation is still what it was when it began.
LEMMA OneRuns ==
    ASSUME op \in {"erase", "update", "compact"}
    PROVE  /\ SetRows = before
           /\ SetRunning = [command |-> op, cond |-> match, image |-> ImageOf(set)]
           /\ SetRunning.command = op /\ SetRunning.cond = match
           /\ SetRunning.image = ImageOf(set)
BY DEF SetRows, SetRunning, Scanning

\* The state of the store between operators, in the terms of RelationSet.
LEMMA Settled ==
    ASSUME StoreInv, Untouched, op \notin {"erase", "update", "compact"}
    PROVE  SetRows = LiveData(slots) /\ SetRunning = AsSet!None
<1>1. match = {} /\ set = Malformed
  BY DEF StoreInv, TypeOK, ControlOK, AtRest, Untouched
<1> QED
  BY <1>1, NoneRuns

\* The state an operator, or the process, leaves when it comes to rest.
LEMMA ComesToRest ==
    ASSUME op' \in {"closed", "saving", "idle", "closing"}, ComeToRest
    PROVE  SetRows' = LiveData(slots') /\ SetRunning' = AsSet!None
<1>1. match' = {} /\ set' = Malformed
  BY DEF ComeToRest
<1> QED
  BY <1>1 DEF SetRows, SetRunning, Scanning, ImageOf, AsSet!None

\* A step that keeps the relation changes the trust in its index at most.
LEMMA OnlyTrust ==
    ASSUME SetRows' = SetRows, SetRunning' = SetRunning, op # "closed", op' # "closed",
           damage \subseteq damage'
    PROVE  AsSet!Mistrust \/ UNCHANGED AsSet!setVars
<1>1. CASE damage' = damage
  BY <1>1 DEF AsSet!setVars
<1>2. CASE damage' # damage
  BY <1>2 DEF AsSet!Mistrust
<1> QED
  BY <1>1, <1>2

\* A scan that goes on.
LEMMA ScanGoesOn ==
    ASSUME op \in {"erase", "update", "compact"}, UNCHANGED <<op, match, set, before>>,
           damage \subseteq damage'
    PROVE  AsSet!Mistrust \/ UNCHANGED AsSet!setVars
<1>1. SetRows' = SetRows /\ SetRunning' = SetRunning
  BY DEF SetRows, SetRunning, Scanning, ImageOf
<1> QED
  BY <1>1, OnlyTrust

\* Opening and closing, and the death of a process that runs no operator.
LEMMA LifeMaps ==
    ASSUME StoreInv, Untouched,
           \/ Open \/ Build \/ Built \/ Close \/ SaveNode \/ SaveDone
           \/ Crash /\ op \notin {"erase", "update", "compact"}
    PROVE  [AsSet!SetNext]_AsSet!setVars
<1>1. CASE Open
  <2>1. /\ op = "closed" /\ op' \in {"opening", "idle"}
        /\ UNCHANGED <<slots, damage, match, set>> /\ match = {} /\ set = Malformed
    BY <1>1 DEF Open, scan, StoreInv, ControlOK, AtRest
  <2>2. SetRows' = SetRows /\ SetRunning' = SetRunning
    BY <2>1 DEF SetRows, SetRunning, Scanning, ImageOf, LiveData, Live
  <2>3. AsSet!Open
    BY <2>1, <2>2 DEF AsSet!Open
  <2> QED BY <2>3 DEF AsSet!SetNext
<1>2. CASE Build
  <2>1. /\ op = "opening" /\ op' = "opening" /\ UNCHANGED <<slots, damage, match, set>>
    BY <1>2 DEF Build, file
  <2>2. SetRows' = SetRows /\ SetRunning' = SetRunning
    BY <2>1 DEF SetRows, SetRunning, Scanning, ImageOf, LiveData, Live
  <2> QED BY <2>1, <2>2, OnlyTrust DEF AsSet!SetNext
<1>3. CASE Built \/ SaveNode \/ ((Close \/ SaveDone) /\ op' # "closed")
  <2>1. /\ op \in {"opening", "idle", "saving", "closing"}
        /\ op' \in {"idle", "saving", "closing"}
        /\ UNCHANGED <<slots, damage>>
    BY <1>3 DEF Built, SaveNode, SaveDone, Saving, Close, file
  <2>2. ComeToRest
    BY <1>3
    DEF Built, SaveNode, SaveDone, Saving, Close, scan, StoreInv, ControlOK, AtRest, ComeToRest
  <2>3. SetRows' = SetRows /\ SetRunning' = SetRunning
    BY <2>1, <2>2, Settled, ComesToRest
  <2> QED BY <2>1, <2>3, OnlyTrust DEF AsSet!SetNext
<1>4. CASE \/ (Close \/ SaveDone) /\ op' = "closed"
           \/ Crash /\ op \notin {"erase", "update", "compact"}
  <2>1. /\ op \notin {"closed", "erase", "update", "compact"} /\ op' = "closed"
        /\ slots' = slots /\ damage \subseteq damage'
    BY <1>4 DEF Close, SaveDone, Saving, Crash, file
  <2>2. ComeToRest
    BY <1>4
    DEF Close, SaveDone, Saving, Crash, scan, StoreInv, ControlOK, AtRest, ComeToRest
  <2>3. SetRows' = SetRows /\ SetRunning' = SetRunning /\ SetRunning = AsSet!None
    BY <2>1, <2>2, Settled, ComesToRest
  <2>4. AsSet!Close
    BY <2>1, <2>3 DEF AsSet!Close, AsSet!TrustNoMore
  <2> QED BY <2>4 DEF AsSet!SetNext
<1> QED
  BY <1>1, <1>2, <1>3, <1>4

\* insert adds its tuple, or costs another one and the trust in the index.
LEMMA InsertMaps ==
    ASSUME StoreInv, Untouched, NEW t \in Tuples, insert(t)
    PROVE  [AsSet!SetNext]_AsSet!setVars
<1> DEFINE d == stored[t]
<1>1. /\ op = "idle" /\ op' = "idle" /\ Sane /\ IndexInUse
      /\ UNCHANGED <<at, match, set, epos, pending, copy, before>>
  BY InsertWrites
<1>2. PICK i \in 1 .. Len(slots) + 1 : tuple_write(t, i)
  BY InsertWrites
<1>3. /\ d \in Data /\ slots \in Seq(Slot) /\ Live(slots) \subseteq DOMAIN slots
  BY DataIsTyped, LiveSlots DEF StoreInv, TypeOK
<1>4. /\ damage \subseteq damage'
      /\ \/ slots' = slots
         \/ /\ Live(slots') = Live(slots) \cup {i}
            /\ slots'[i].data = d
            /\ \A j \in DOMAIN slots : j # i => slots'[j] = slots[j]
      /\ damage' = {} => LiveData(slots') = LiveData(slots) \cup {d}
  BY <1>1, <1>2, WriteKeepsIndex
<1>5. ComeToRest
  BY <1>1 DEF StoreInv, ControlOK, AtRest, ComeToRest
<1>6. /\ SetRows = LiveData(slots) /\ SetRunning = AsSet!None
      /\ SetRows' = LiveData(slots') /\ SetRunning' = AsSet!None
  BY <1>1, <1>5, Settled, ComesToRest
<1>7. CASE slots' = slots
  BY <1>1, <1>4, <1>6, <1>7, OnlyTrust DEF AsSet!SetNext
<1>8. CASE slots' # slots
  <2>1. \A j \in Live(slots) \ {i} : j \in Live(slots') /\ slots'[j].data = slots[j].data
    BY <1>3, <1>4, <1>8
  <2>2. LiveData(slots') = {slots[j].data : j \in Live(slots) \ {i}} \cup {d}
    BY <1>4, <1>8, <2>1 DEF LiveData
  <2>3. \/ SetRows' = SetRows \cup {d}
        \/ damage' # {} /\ \E lost \in SetRows : SetRows' = (SetRows \ {lost}) \cup {d}
    <3>1. CASE damage' = {}
      BY <1>4, <1>6, <3>1
    <3>2. CASE i \notin Live(slots) \/ \E j \in Live(slots) \ {i} : slots[j].data = slots[i].data
      <4>1. LiveData(slots) = {slots[j].data : j \in Live(slots) \ {i}}
        BY <3>2 DEF LiveData
      <4> QED BY <1>6, <2>2, <4>1
    <3>3. CASE /\ damage' # {} /\ i \in Live(slots)
               /\ \A j \in Live(slots) \ {i} : slots[j].data # slots[i].data
      <4>1. slots[i].data \in LiveData(slots)
        BY <3>3 DEF LiveData
      <4>2. {slots[j].data : j \in Live(slots) \ {i}} = LiveData(slots) \ {slots[i].data}
        BY <3>3 DEF LiveData
      <4> QED BY <1>6, <2>2, <3>3, <4>1, <4>2
    <3> QED BY <3>1, <3>2, <3>3
  <2>4. AsSet!Insert(d)
    BY <1>1, <1>4, <1>6, <2>3 DEF AsSet!Insert, AsSet!TrustNoMore
  <2> QED BY <1>3, <2>4 DEF AsSet!SetNext
<1> QED
  BY <1>7, <1>8

\* What the set string of an update makes of a tuple is a tuple.
LEMMA ImageTyped ==
    ASSUME NEW s \in Assignments \cup {Malformed}
    PROVE  /\ ImageOf(s) \in [Data -> Data] \cup {Malformed}
           /\ s \in Assignments => /\ s # Malformed /\ ImageOf(s) # Malformed
                                   /\ \A d \in Data : ImageOf(s)[d] = stored[s[d]]
<1>1. CASE s \in Assignments
  <2>1. s # Malformed /\ s \in [Data -> Tuples]
    BY <1>1, OperandAssumption
  <2>2. ImageOf(s) = [d \in Data |-> stored[s[d]]]
    BY <2>1 DEF ImageOf
  <2>3. ImageOf(s) \in [Data -> Data]
    BY <2>1, <2>2, DataIsTyped
  <2>4. ImageOf(s) # Malformed
    BY <2>3, <2>2, OperandAssumption
  <2> QED BY <2>1, <2>2, <2>3, <2>4
<1>2. CASE s \notin Assignments
  BY <1>2 DEF ImageOf
<1> QED
  BY <1>1, <1>2

\* An operator begins.
LEMMA BeginMaps ==
    ASSUME StoreInv, Untouched,
           \/ \E M \in Conditions : rl_erase(M)
           \/ \E M \in Conditions, s \in Assignments \cup {Malformed} : rl_update(M, s)
           \/ rl_compact
    PROVE  AsSet!Begin
<1>1. /\ op = "idle" /\ op' \in {"erase", "update", "compact"}
      /\ before' = LiveData(slots) /\ match' \in SUBSET Data
      /\ set' \in Assignments \cup {Malformed}
      /\ damage' = damage
      /\ op' = "update" => Live(slots) # {}
  <2>1. set = Malformed \/ op # "idle"
    BY DEF StoreInv, ControlOK, AtRest
  <2>2. ASSUME NEW M \in Conditions, rl_erase(M)
        PROVE  /\ op = "idle" /\ op' = "erase" /\ before' = LiveData(slots)
               /\ match' = M /\ set' = set /\ damage' = damage
    BY <2>2 DEF rl_erase, Free, Scan
  <2>3. ASSUME NEW M \in Conditions, NEW s \in Assignments \cup {Malformed}, rl_update(M, s)
        PROVE  /\ op = "idle" /\ op' = "update" /\ before' = LiveData(slots)
               /\ match' = M /\ set' = s /\ damage' = damage /\ Live(slots) # {}
    BY <2>3 DEF rl_update, Free, Scan
  <2>4. ASSUME rl_compact
        PROVE  /\ op = "idle" /\ op' = "compact" /\ before' = LiveData(slots)
               /\ match' = {} /\ set' = set /\ damage' = damage
    BY <2>4 DEF rl_compact, Free, Scan
  <2> QED BY <2>1, <2>2, <2>3, <2>4, OperandAssumption
<1>2. SetRows = LiveData(slots) /\ SetRunning = AsSet!None
  BY <1>1, Settled
<1>3. /\ SetRows' = LiveData(slots)
      /\ SetRunning' = [command |-> op', cond |-> match', image |-> ImageOf(set')]
  BY <1>1 DEF SetRows, SetRunning, Scanning, ImageOf
<1>4. SetRunning' \in AsSet!Operator /\ SetRunning'.command = op'
  <2>1. ImageOf(set') \in [Data -> Data] \cup {Malformed}
    BY <1>1, ImageTyped
  <2> HIDE DEF ImageOf
  <2> QED BY <1>1, <1>3, <2>1 DEF AsSet!Operator
<1>5. op' = "update" => SetRows # {}
  BY <1>1, <1>2 DEF LiveData
<1> QED
  BY <1>1, <1>2, <1>3, <1>4, <1>5 DEF AsSet!Begin

\* A scan reads on.
LEMMA ScanMaps ==
    ASSUME StoreInv,
           \/ EraseNext \/ UpdateAppend \/ UpdateSkip \/ CompactNext
           \/ UpdateDelete /\ set # Malformed
    PROVE  [AsSet!SetNext]_AsSet!setVars
<1>1. /\ op \in {"erase", "update", "compact"} /\ UNCHANGED <<op, match, set, before>>
      /\ damage \subseteq damage'
  <2>1. CASE EraseNext
    BY <2>1 DEF EraseNext, tuple_delete
  <2>2. CASE UpdateAppend
    BY <2>2 DEF UpdateAppend, tuple_appendandreturn, tuple_write
  <2>3. CASE UpdateSkip
    BY <2>3 DEF UpdateSkip
  <2>4. CASE CompactNext
    BY <2>4 DEF CompactNext
  <2>5. CASE UpdateDelete /\ set # Malformed
    BY <2>5 DEF UpdateDelete, tuple_delete
  <2> QED BY <2>1, <2>2, <2>3, <2>4, <2>5
<1> QED
  BY <1>1, ScanGoesOn DEF AsSet!SetNext

\* The rows spared, chosen and made, in the terms of an update that is running.
LEMMA UpdateTerms ==
    ASSUME StoreInv, op = "update", set \in Assignments
    PROVE  /\ AsSet!Spared = before \ match
           /\ AsSet!Chosen = before \cap match
           /\ AsSet!Made = {stored[set[d]] : d \in before \cap match}
           /\ SetRunning.image # Malformed
           /\ \A d \in AsSet!Chosen : SetRunning.image[d] = stored[set[d]]
<1>1. /\ SetRows = before /\ SetRunning.cond = match /\ SetRunning.image = ImageOf(set)
      /\ before \subseteq Data
  BY OneRuns DEF StoreInv, TypeOK
<1>2. set # Malformed /\ ImageOf(set) # Malformed
      /\ \A d \in Data : ImageOf(set)[d] = stored[set[d]]
  BY ImageTyped
<1> HIDE DEF ImageOf
<1>3. AsSet!Spared = before \ match /\ AsSet!Chosen = before \cap match
  BY <1>1 DEF AsSet!Spared, AsSet!Chosen
<1>4. \A d \in AsSet!Chosen : SetRunning.image[d] = stored[set[d]]
  BY <1>1, <1>2, <1>3
<1>5. AsSet!Made = {stored[set[d]] : d \in before \cap match}
  BY <1>3, <1>4 DEF AsSet!Made
<1> QED
  BY <1>1, <1>2, <1>3, <1>4, <1>5

\* rl_erase comes to its end.
LEMMA EraseMaps == ASSUME StoreInv, Untouched, EraseDone PROVE AsSet!EndErase
<1>1. /\ op = "erase" /\ op' = "idle" /\ ComeToRest /\ UNCHANGED <<slots, damage>>
  BY DEF EraseDone, Return, file
<1>2. LiveData(slots') = before \ match
  BY <1>1, EraseLeaves
<1>3. SetRows' = LiveData(slots') /\ SetRunning' = AsSet!None
  BY <1>1, ComesToRest
<1>4. AsSet!Spared = before \ match /\ SetRunning.command = "erase"
  BY <1>1, OneRuns DEF AsSet!Spared
<1> QED
  BY <1>1, <1>2, <1>3, <1>4 DEF AsSet!EndErase, AsSet!End

\* rl_update comes to its end, or to that of a malformed set string.
LEMMA UpdateMaps ==
    ASSUME StoreInv, Untouched, UpdateDone \/ (UpdateDelete /\ set = Malformed)
    PROVE  AsSet!EndUpdate \/ AsSet!FailUpdate
<1>1. op = "update" /\ op' = "idle" /\ ComeToRest /\ damage \subseteq damage'
  BY DEF UpdateDone, UpdateDelete, Return, tuple_delete
<1>2. SetRows' = LiveData(slots') /\ SetRunning' = AsSet!None
  BY <1>1, ComesToRest
<1>3. /\ SetRows = before /\ SetRunning.command = "update"
      /\ SetRunning.cond = match /\ SetRunning.image = ImageOf(set)
  BY <1>1, OneRuns
<1>4. AsSet!End("update")
  BY <1>1, <1>2, <1>3 DEF AsSet!End
<1>5. slots \in Seq(Slot) /\ Live(slots) \subseteq DOMAIN slots /\ at \in Nat
  BY LiveSlots DEF StoreInv, TypeOK
<1>6. CASE UpdateDone /\ set \in Assignments
  <2>1. UNCHANGED <<slots, damage>>
    BY <1>6 DEF UpdateDone, file
  <2>2. /\ before \ match \subseteq LiveData(slots)
        /\ LiveData(slots) \subseteq
              (before \ match) \cup {stored[set[d]] : d \in before \cap match}
        /\ damage = {} => LiveData(slots) =
              (before \ match) \cup {stored[set[d]] : d \in before \cap match}
    BY <1>6, UpdateLeaves
  <2>3. /\ AsSet!Spared = before \ match
        /\ AsSet!Made = {stored[set[d]] : d \in before \cap match}
        /\ SetRunning.image # Malformed
    BY <1>1, <1>6, UpdateTerms
  <2>4. AsSet!EndUpdate
    BY <1>2, <1>4, <2>1, <2>2, <2>3 DEF AsSet!EndUpdate
  <2> QED BY <2>4
<1>7. CASE set = Malformed
  <2>1. /\ before = LiveData(slots) /\ epos = Len(slots)
        /\ \A i \in Live(slots) : i < at => slots[i].data \notin match
    BY <1>1, <1>7 DEF Untouched
  <2>2. SetRunning.image = Malformed /\ AsSet!Chosen = before \cap match
    BY <1>3, <1>7 DEF ImageOf, AsSet!Chosen
  <2>3. CASE UpdateDone
    <3>1. at > epos /\ UNCHANGED <<slots, damage>>
      BY <2>3 DEF UpdateDone, atend, file
    <3>2. \A i \in Live(slots) : i < at
      BY <1>5, <2>1, <3>1, LiveSlots
    <3>3. AsSet!Chosen = {}
      BY <2>1, <2>2, <3>2 DEF LiveData
    <3>4. AsSet!FailUpdate
      BY <1>2, <1>3, <1>4, <2>1, <2>2, <3>1, <3>3 DEF AsSet!FailUpdate, AsSet!TrustNoMore
    <3> QED BY <3>4
  <2>4. CASE UpdateDelete
    <3> DEFINE d0 == slots[at].data
    <3>1. /\ op = "update" /\ Sane /\ at \in Live(slots) /\ d0 \in match /\ tuple_delete(at)
      BY <2>4 DEF UpdateDelete
    <3>2. /\ Live(slots') = Live(slots) \ {at}
          /\ \A j \in DOMAIN slots : slots'[j].data = slots[j].data
      BY <3>1, OpenInUse, DeleteKeepsIndex
    <3>3. LiveData(slots') = {slots[j].data : j \in Live(slots) \ {at}}
      BY <1>5, <3>2 DEF LiveData
    <3>4. d0 \in AsSet!Chosen
      BY <2>1, <2>2, <3>1 DEF LiveData
    <3>5. before \ {d0} \subseteq LiveData(slots') /\ LiveData(slots') \subseteq before
      BY <2>1, <3>3 DEF LiveData
    <3>6. ASSUME damage = {} PROVE d0 \notin LiveData(slots')
      <4>1. Distinct(slots)
        BY <3>6 DEF StoreInv, DistinctTuples, Distinct, Sound
      <4>2. \A j \in Live(slots) : slots[j].data = d0 => j = at
        BY <3>1, <4>1 DEF Distinct
      <4> QED BY <3>3, <4>2
    <3>7. damage = {} => LiveData(slots') = before \ {d0}
      BY <3>5, <3>6
    <3> HIDE DEF d0
    <3>8. AsSet!FailUpdate
      BY <1>1, <1>2, <1>3, <1>4, <2>2, <3>4, <3>5, <3>7 DEF AsSet!FailUpdate, AsSet!TrustNoMore
    <3> QED BY <3>8
  <2> QED BY <2>3, <2>4
<1> QED
  BY <1>6, <1>7 DEF StoreInv, TypeOK

\* rl_compact comes to its end.
LEMMA CompactMaps == ASSUME StoreInv, Untouched, CompactDone PROVE AsSet!EndCompact
<1>1. /\ op = "compact" /\ op' = "idle" /\ ComeToRest /\ slots' = copy.slots /\ damage' = {}
  BY DEF CompactDone, Return
<1>2. /\ before = LiveData(slots) /\ LiveData(slots') \subseteq before
  BY <1>1 DEF Untouched
<1>3. /\ LiveTexts(slots') = LiveTexts(slots) /\ Distinct(slots')
  BY CompactDoneHolds
<1>4. SetRows' = LiveData(slots') /\ SetRunning' = AsSet!None
      /\ SetRows = LiveData(slots) /\ SetRunning.command = "compact"
  BY <1>1, <1>2, ComesToRest, OneRuns
<1>5. \A d \in SetRows : \E e \in SetRows' : text[e] = text[d]
  <2> SUFFICES ASSUME NEW d \in LiveData(slots)
               PROVE  \E e \in LiveData(slots') : text[e] = text[d]
    BY <1>4
  <2>1. text[d] \in LiveTexts(slots')
    BY <1>3 DEF LiveTexts
  <2> QED BY <2>1 DEF LiveTexts
<1>6. \A d, e \in SetRows' : text[d] = text[e] => d = e
  BY <1>3, <1>4 DEF LiveData, Distinct
<1>7. ASSUME damage = {} PROVE SetRows' = SetRows
  <2>1. Distinct(slots)
    BY <1>7 DEF StoreInv, DistinctTuples, Distinct, Sound
  <2>2. \A d, e \in SetRows : text[d] = text[e] => d = e
    BY <1>4, <2>1 DEF LiveData, Distinct
  <2>3. SetRows' \subseteq SetRows
    BY <1>2, <1>4
  <2> QED BY <1>5, <2>2, <2>3
<1> QED
  BY <1>1, <1>2, <1>4, <1>5, <1>6, <1>7 DEF AsSet!EndCompact, AsSet!End

\* The process dies while an operator is running.
LEMMA CrashMaps ==
    ASSUME StoreInv, Untouched, Crash, op \in {"erase", "update", "compact"}
    PROVE  AsSet!DieErasing \/ AsSet!DieUpdating \/ AsSet!DieCompacting
<1>1. op' = "closed" /\ ComeToRest /\ slots' = slots /\ damage \subseteq damage'
  BY DEF Crash, file
<1>2. SetRows' = LiveData(slots) /\ SetRunning' = AsSet!None
  BY <1>1, ComesToRest
<1>3. /\ SetRows = before /\ SetRunning.command = op
      /\ SetRunning.cond = match /\ SetRunning.image = ImageOf(set)
  BY OneRuns
<1>4. AsSet!Die(op)
  BY <1>1, <1>2, <1>3 DEF AsSet!Die, AsSet!TrustNoMore
<1>5. CASE op = "erase"
  <2>1. before \ match \subseteq LiveData(slots) /\ LiveData(slots) \subseteq before
    BY <1>5 DEF StoreInv, EraseOK
  <2> QED BY <1>2, <1>3, <1>4, <1>5, <2>1 DEF AsSet!DieErasing, AsSet!Spared
<1>6. CASE op = "compact"
  <2>1. before = LiveData(slots)
    BY <1>6 DEF Untouched
  <2> QED BY <1>2, <1>3, <1>4, <1>6, <2>1 DEF AsSet!DieCompacting
<1>7. CASE op = "update" /\ set = Malformed
  <2>1. before = LiveData(slots) /\ SetRunning.image = Malformed
    BY <1>3, <1>7 DEF Untouched, ImageOf
  <2> QED BY <1>2, <1>3, <1>4, <1>7, <2>1 DEF AsSet!DieUpdating
<1>8. CASE op = "update" /\ set \in Assignments
  <2>1. /\ before \ match \subseteq LiveData(slots)
        /\ \A i \in Live(slots) :
              IF i <= epos
              THEN slots[i].data \in before /\ (i < at => slots[i].data \notin match)
              ELSE \E d \in before \cap match : slots[i].data = stored[set[d]]
        /\ damage = {} => \A d \in before \cap match :
              \/ \E i \in Live(slots) : at <= i /\ i <= epos /\ slots[i].data = d
              \/ stored[set[d]] \in LiveData(slots)
              \/ stored[pending] = stored[set[d]]
    BY <1>8 DEF StoreInv, UpdateMeans, Made
  <2>2. /\ AsSet!Spared = before \ match
        /\ AsSet!Chosen = before \cap match
        /\ AsSet!Made = {stored[set[d]] : d \in before \cap match}
        /\ SetRunning.image # Malformed
        /\ \A d \in AsSet!Chosen : SetRunning.image[d] = stored[set[d]]
    BY <1>8, UpdateTerms
  <2>3. LiveData(slots) \subseteq before \cup {stored[set[d]] : d \in before \cap match}
    BY <2>1 DEF LiveData
  <2>4. ASSUME damage = {}, NEW d \in AsSet!Chosen,
               d \notin LiveData(slots), SetRunning.image[d] \notin LiveData(slots)
        PROVE  SetRunning.image[d] = stored[pending]
    <3>1. d \in before \cap match /\ SetRunning.image[d] = stored[set[d]]
      BY <2>2, <2>4
    <3>2. ~\E i \in Live(slots) : slots[i].data = d
      BY <2>4 DEF LiveData
    <3> QED BY <2>1, <2>4, <3>1, <3>2
  <2>5. damage = {} => \A d, e \in AsSet!Chosen :
           {d, e, SetRunning.image[d], SetRunning.image[e]} \cap LiveData(slots) = {} =>
               SetRunning.image[d] = SetRunning.image[e]
    <3> SUFFICES ASSUME damage = {}, NEW d \in AsSet!Chosen, NEW e \in AsSet!Chosen,
                        {d, e, SetRunning.image[d], SetRunning.image[e]} \cap LiveData(slots) = {}
                 PROVE  SetRunning.image[d] = SetRunning.image[e]
      OBVIOUS
    <3>1. /\ d \notin LiveData(slots) /\ SetRunning.image[d] \notin LiveData(slots)
          /\ e \notin LiveData(slots) /\ SetRunning.image[e] \notin LiveData(slots)
      OBVIOUS
    <3>2. SetRunning.image[d] = stored[pending] /\ SetRunning.image[e] = stored[pending]
      BY <2>4, <3>1
    <3> QED BY <3>2
  <2>6. AsSet!DieUpdating
    BY <1>2, <1>3, <1>4, <1>8, <2>1, <2>2, <2>3, <2>5 DEF AsSet!DieUpdating
  <2> QED BY <2>6
<1> QED
  BY <1>5, <1>6, <1>7, <1>8 DEF StoreInv, TypeOK

\* Every step of the store is one of the set, or none.
LEMMA StepMaps ==
    ASSUME StoreInv, Untouched, [StoreNext]_vars
    PROVE  [AsSet!SetNext]_AsSet!setVars
<1>1. CASE UNCHANGED vars
  <2>1. UNCHANGED <<slots, op, match, set, before, damage>>
    BY <1>1 DEF vars
  <2> QED
    BY <2>1
    DEF AsSet!setVars, SetRows, SetRunning, Scanning, ImageOf, LiveData, Live
<1>2. CASE \/ Open \/ Build \/ Built \/ Close \/ SaveNode \/ SaveDone
           \/ Crash /\ op \notin {"erase", "update", "compact"}
  BY <1>2, LifeMaps
<1>3. CASE Crash /\ op \in {"erase", "update", "compact"}
  BY <1>3, CrashMaps DEF AsSet!SetNext
<1>4. CASE \E t \in Tuples : insert(t)
  BY <1>4, InsertMaps
<1>5. CASE \/ \E M \in Conditions : rl_erase(M)
           \/ \E M \in Conditions, s \in Assignments \cup {Malformed} : rl_update(M, s)
           \/ rl_compact
  BY <1>5, BeginMaps DEF AsSet!SetNext
<1>6. CASE \/ EraseNext \/ UpdateAppend \/ UpdateSkip \/ CompactNext
           \/ UpdateDelete /\ set # Malformed
  BY <1>6, ScanMaps
<1>7. CASE EraseDone \/ CompactDone
  BY <1>7, EraseMaps, CompactMaps DEF AsSet!SetNext
<1>8. CASE UpdateDone \/ (UpdateDelete /\ set = Malformed)
  BY <1>8, UpdateMaps DEF AsSet!SetNext
<1> QED
  BY <1>1, <1>2, <1>3, <1>4, <1>5, <1>6, <1>7, <1>8 DEF StoreNext, ScanStep

\* A relation's file, table and hash file, with operators that scan them a slot at a
\* time and a process that may die between any two writes, implement a set that is
\* changed by whole operators.
THEOREM StoreIsSet == StoreSpec => ImplementsSet
<1>1. StoreInit => AsSet!SetInit
  <2> SUFFICES ASSUME StoreInit PROVE AsSet!SetInit
    OBVIOUS
  <2>1. /\ op = "idle" /\ slots = <<>> /\ damage = {} /\ match = {} /\ set = Malformed
    BY DEF StoreInit, AtRest
  <2>2. LiveData(slots) = {}
    BY <2>1 DEF LiveData, Live
  <2>3. SetRows = {} /\ SetRunning = AsSet!None
    BY <2>1, <2>2, NoneRuns
  <2> QED BY <2>1, <2>3 DEF AsSet!SetInit
<1>2. StoreInv /\ Untouched /\ [StoreNext]_vars => [AsSet!SetNext]_AsSet!setVars
  BY StepMaps
<1> QED
  BY <1>1, <1>2, UntouchedInvariant, PTL DEF StoreSpec, ImplementsSet, AsSet!SetSpec

===============================================================================
