------------------------------ MODULE TupleStore ------------------------------
(***************************************************************************)
(* One permanent relation of a LEAP database: the tuples in its file        *)
(* (src/src/tuples.c), the hash table that tells which of them are new, the *)
(* hash file that table is saved in, and the operators that change them     *)
(* (insert, rl_erase, rl_update and rl_compact of src/src/rtional.c), from  *)
(* the relation being opened (relation_new_read) to the database being      *)
(* closed (relations_dispose_all) or the process dying.                     *)
(*                                                                          *)
(* An operator that scans the relation is one step per tuple, and saving    *)
(* the hash file is one step per node, so that a crash can fall between any *)
(* two of these writes and leaves a hash file that ends anywhere.  (The end *)
(* of rl_compact, which puts `_temp' in the place of the relation, is one   *)
(* step; Catalogue takes it apart.)  A tuple is its text, as typed in or as *)
(* read back; reading back may give another text, because a number is       *)
(* stored as a number and a string is cut to the width of its attribute.    *)
(***************************************************************************)
EXTENDS HashTable, Sequences

CONSTANTS Tuples,       \* the tuples that can be typed in
          stored,       \* what reading a written tuple back gives
          text,         \* tuple_to_string: the fields of a tuple, run together
          Conditions,   \* the conditions: the tuples each is true of
          Assignments,  \* the set strings of update: what each makes of a tuple
          System,       \* is this a relation of the data dictionary?
          Malformed,    \* a set string without an `='
          NoTuple,
          MaxSlots      \* bound: the tuples the file has room for

Data == {stored[t] : t \in Tuples}

ASSUME TupleAssumption == /\ stored \in [Tuples -> Tuples]
                          /\ text \in [Tuples -> Keys]
                          /\ \A d \in Data : stored[d] = d
                          /\ NoTuple \notin Tuples
ASSUME OperandAssumption == /\ Conditions \subseteq SUBSET Data
                            /\ Assignments \subseteq [Data -> Tuples]
                            /\ Malformed \notin Assignments \cup [Data -> Data]
                            /\ System \in BOOLEAN

\* The values in a set string are constants: applying it again changes nothing.
ASSUME AssignmentAssumption ==
    \A s \in Assignments : \A d \in Data : s[stored[s[d]]] = s[d]
ASSUME SlotsAssumption == MaxSlots \in Nat \ {0}

\* The buckets are written to the hash file in their order.
ASSUME BucketsAssumption == Buckets \subseteq Nat

VARIABLES slots,         \* the tuples of the relation's file
          last_deleted,  \* 0, or where a tuple was deleted last
          updated,       \* has the table changed since it was read?
          op,            \* what the process is doing with the relation
          at,            \* the slot the scan reads next
          match,         \* the condition of the scan
          set,           \* the set string of the update
          epos,          \* the last slot there was when the update began
          pending,       \* the updated tuple, deleted and not yet appended
          copy,          \* the relation `_temp' that rl_compact fills
          before,        \* history: the tuples stored when the scan began
          damage         \* history: what has befallen the relation (see below)

file  == <<slots, last_deleted>>
scan  == <<at, match, set, epos, pending, copy, before>>
vars  == <<table, hashfile, slots, last_deleted, updated, op, at, match, set,
           epos, pending, copy, before, damage>>

Slot == [status : {"OK", "DELETED"}, data : Data]

NoCopy == [slots |-> <<>>, table |-> EmptyTable, updated |-> FALSE]

Live(s) == {i \in DOMAIN s : s[i].status = "OK"}

LiveData(s) == {s[i].data : i \in Live(s)}

\* The table, read from the hash file if that has not been done yet.
TheTable == IF table = NoTable THEN Loaded(hashfile) ELSE table

\* The keys the relation holds to be taken.
IndexKeys == {k \in Keys : Found(TheTable, k)}

\* A tuple whose text stands for the tuple that is read back, and for no other.
Plain(t) == /\ text[stored[t]] = text[t]
            /\ \A u \in Tuples : text[u] = text[t] => stored[u] = stored[t]

TypeOK == /\ TableTypeOK
          /\ slots \in Seq(Slot)
          /\ last_deleted \in Nat
          /\ updated \in BOOLEAN
          /\ op \in {"closed", "opening", "saving", "idle", "erase", "update",
                    "compact", "closing"}
          /\ at \in Nat \ {0}
          /\ match \in SUBSET Data
          /\ set \in Assignments \cup {Malformed}
          /\ epos \in Nat
          /\ pending \in Tuples \cup {NoTuple}
          /\ copy.slots \in Seq(Slot) /\ IsTable(copy.table) /\ copy.updated \in BOOLEAN
          /\ before \subseteq Data
          /\ damage \subseteq {"crash", "chain", "text", "overwrite"}

-------------------------------------------------------------------------------
\* The file operations of tuples.c.  (A definition whose comment begins with
\* `Mutant' is a slip of the next one, which a property must notice.)

\* A tuple as tuple_write puts it into the file and tuple_readnext gets it out.
\* Mutant: read back as it was typed in.
AsTyped(t) == t
ReadBack(t) == stored[t]

\* tuple_readnext has met the end of the file.
\* Mutant: it stops in front of the last tuple.
AtLast == at >= Len(slots)
AtEOF == at > Len(slots)

\* atend: has the scan of an update passed the last of the old tuples?
\* Mutant: the old tuples end where the file does.
AtFileEnd == at > Len(slots)
\* Mutant: ... where their last one begins.
AtLastOld == at >= epos
atend == at > epos

\* The file position moves on by a tuple.
\* Mutant: it stays where a skipped tuple begins.
Stay == at' = at
Advance == at' = at + 1

\* Writing a slot at place i, or behind the last one.
At(s, i, d) ==
    IF i \in DOMAIN s THEN [s EXCEPT ![i] = [status |-> "OK", data |-> d]]
    ELSE Append(s, [status |-> "OK", data |-> d])

\* Does the table lack the text of t?
\* Mutant: tuple_write does not look.
NeverLooks(t) == TRUE
IsNew(t) == ~Found(TheTable, text[t])

\* tuple_write writes t where the file handle stands, unless the table already
\* has its text: then it leaves the file alone, and reports success as well.
tuple_write(t, i) ==
    LET new == IsNew(t)
    IN  /\ updated' = TRUE
        /\ table' = IF new THEN Inserted(TheTable, text[t]) ELSE TheTable
        /\ slots' = IF new THEN At(slots, i, ReadBack(t)) ELSE slots
        /\ damage' = damage \cup (IF Plain(t) THEN {} ELSE {"text"})
                            \cup (IF new /\ i \in Live(slots) THEN {"overwrite"} ELSE {})

\* tuple_append as insert calls it, with the handle on the first slot.  The
\* seek to the last deleted slot passes its offset as the `whence' argument; it
\* fails and leaves the handle where it is.
tuple_append(t) ==
    /\ last_deleted' = 0
    /\ tuple_write(t, IF last_deleted # 0 THEN 1 ELSE Len(slots) + 1)

\* Mutant: the end of the file is a tuple too early.
AppendOverLast(t) == tuple_write(t, Len(slots)) /\ UNCHANGED last_deleted
tuple_appendandreturn(t) ==
    tuple_write(t, Len(slots) + 1) /\ UNCHANGED last_deleted

\* The status of the tuple at place i is overwritten.
Strike(s, i) == [s EXCEPT ![i].status = "DELETED"]

tuple_delete(i) ==
    LET key == text[slots[i].data]
        t   == Deleted(TheTable, key)
    IN  /\ updated' = TRUE
        /\ table' = t
        /\ slots' = Strike(slots, i)
        /\ last_deleted' = i
        /\ damage' = damage \cup
              (IF t # Wild /\ \A k \in IndexKeys \ {key} : Found(t, k)
               THEN {} ELSE {"chain"})

-------------------------------------------------------------------------------
\* The life of the relation in memory.

\* No operator is running.
AtRest == /\ at = 1
          /\ match = {}
          /\ set = Malformed
          /\ epos = 0
          /\ pending = NoTuple
          /\ copy = NoCopy
          /\ before = {}

ComeToRest == /\ at' = 1
              /\ match' = {}
              /\ set' = Malformed
              /\ epos' = 0
              /\ pending' = NoTuple
              /\ copy' = NoCopy
              /\ before' = {}

Return == op' = "idle" /\ ComeToRest

\* relation_create has just made the relation.
StoreInit == /\ table = EmptyTable
             /\ hashfile = NoFile
             /\ slots = <<>>
             /\ last_deleted = 0
             /\ updated = FALSE
             /\ op = "idle"
             /\ AtRest
             /\ damage = {}

\* A process whose memory is intact; of any other the model follows the death.
Sane == table # Wild

\* relation_new_read: a hash file is trusted and not yet read; without one the
\* table is built from the tuples.  Nothing gives last_deleted a value.
Open == /\ op = "closed"
        /\ \E v \in {0, 1} : last_deleted' = v
        /\ IF hashfile = NoFile
           THEN op' = "opening" /\ table' = EmptyTable
           ELSE op' = "idle" /\ table' = NoTable
        /\ updated' = FALSE
        /\ UNCHANGED <<hashfile, slots, scan, damage>>

\* build_hash_table, a tuple at a time.
Build == /\ op = "opening"
         /\ ~AtEOF
         /\ table' = IF at \in Live(slots) THEN Inserted(table, text[slots[at].data])
                     ELSE table
         /\ Advance
         /\ UNCHANGED <<hashfile, file, updated, op, match, set, epos, pending,
                        copy, before, damage>>

\* The table of a system relation is saved at once.
Built == /\ op = "opening"
         /\ AtEOF
         /\ ComeToRest
         /\ IF System THEN op' = "saving" /\ hashfile' = Saved(EmptyTable)
            ELSE op' = "idle" /\ UNCHANGED hashfile
         /\ UNCHANGED <<table, file, updated, damage>>

\* relations_dispose_all saves the table if the relation was changed.
Close == /\ op = "idle" /\ Sane
         /\ IF updated
            THEN /\ op' = "closing"
                 /\ hashfile' = Saved(EmptyTable)
                 /\ UNCHANGED <<table, updated>>
            ELSE /\ op' = "closed"
                 /\ table' = NoTable
                 /\ UNCHANGED <<hashfile, updated>>
         /\ UNCHANGED <<file, scan, damage>>

\* hashing_save has emptied the hash file, or made it.
Saving == op \in {"saving", "closing"}

\* How many nodes of key k in bucket b the file holds.
Written(b, k) == IF k \in DOMAIN hashfile[b] THEN hashfile[b][k] ELSE 0

\* The nodes it does not hold yet are written bucket by bucket, from the head of
\* each chain.
Unwritten == {n \in Buckets \X Keys : /\ n[2] \in DOMAIN table[n[1]]
                                      /\ Written(n[1], n[2]) < table[n[1]][n[2]].copies}

IsNext(n) == /\ n \in Unwritten
             /\ \A m \in Unwritten : n[1] < m[1] \/ (n[1] = m[1] /\ n[2] <= m[2])

\* One more node reaches the disk, when the buffer of the file lets it through.  (Of
\* a node that is cut off hashing_load inserts nothing.)
SaveNode ==
    /\ Saving
    /\ \E b \in Buckets : \E k \in DOMAIN table[b] :
          /\ IsNext(<<b, k>>)
          /\ hashfile' = [hashfile EXCEPT ![b] =
                [x \in DOMAIN @ \cup {k} |-> IF x = k THEN Written(b, k) + 1 ELSE @[x]]]
    /\ UNCHANGED <<table, file, updated, op, scan, damage>>

\* Closing the file writes the rest of them.
\* Mutant: the file is not closed, and the rest stays in its buffer.
SaveUnclosed ==
    /\ Saving
    /\ IF op = "closing" THEN op' = "closed" /\ table' = NoTable
       ELSE op' = "idle" /\ UNCHANGED table
    /\ updated' = FALSE
    /\ UNCHANGED <<hashfile, file, scan, damage>>

SaveDone ==
    /\ Saving
    /\ hashfile' = Saved(table)
    /\ IF op = "closing" THEN op' = "closed" /\ table' = NoTable
       ELSE op' = "idle" /\ UNCHANGED table
    /\ updated' = FALSE
    /\ UNCHANGED <<file, scan, damage>>

\* The process dies.  A hash file that the table has left behind stays, as does
\* one that was being written.
Crash == /\ op # "closed"
         /\ op' = "closed"
         /\ table' = NoTable
         /\ updated' = FALSE
         /\ ComeToRest
         /\ damage' = damage \cup
               (IF (updated \/ Saving) /\ hashfile # NoFile THEN {"crash"} ELSE {})
         /\ UNCHANGED <<hashfile, file>>

-------------------------------------------------------------------------------
\* The operators.

Free(n) == op = "idle" /\ Sane /\ Len(slots) + n <= MaxSlots

insert(t) == /\ Free(1)
             /\ tuple_append(t)
             /\ UNCHANGED <<hashfile, op, scan>>

Scan(operator, M) == /\ op' = operator
                     /\ at' = 1
                     /\ match' = M
                     /\ before' = LiveData(slots)

\* rl_erase reads every slot, and deletes those the condition is true of.
rl_erase(M) == /\ Free(0)
               /\ Scan("erase", M)
               /\ UNCHANGED <<table, hashfile, file, updated, set, epos, pending,
                              copy, damage>>

EraseNext == /\ op = "erase" /\ Sane
             /\ ~AtEOF
             /\ IF at \in Live(slots) /\ slots[at].data \in match
                THEN tuple_delete(at)
                ELSE UNCHANGED <<table, slots, last_deleted, updated, damage>>
             /\ Advance
             /\ UNCHANGED <<hashfile, op, match, set, epos, pending, copy, before>>

EraseDone == /\ op = "erase" /\ Sane
             /\ AtEOF
             /\ Return
             /\ UNCHANGED <<table, hashfile, file, updated, damage>>

\* rl_update deletes a tuple and appends what the set string makes of it; atend
\* ends the scan before it reads what it has appended.  An empty relation is
\* refused.
rl_update(M, s) == /\ Free(IF s = Malformed THEN 0
                           ELSE Cardinality({i \in Live(slots) : slots[i].data \in M}))
                   /\ Live(slots) # {}
                   /\ Scan("update", M)
                   /\ set' = s
                   /\ epos' = Len(slots)
                   /\ UNCHANGED <<table, hashfile, file, updated, pending, copy, damage>>

\* A malformed set string is noticed when the first tuple has been deleted.
UpdateDelete == /\ op = "update" /\ Sane /\ pending = NoTuple
                /\ ~atend
                /\ at \in Live(slots) /\ slots[at].data \in match
                /\ tuple_delete(at)
                /\ IF set = Malformed
                   THEN Return
                   ELSE /\ pending' = set[slots[at].data]
                        /\ UNCHANGED <<op, at, match, set, epos, copy, before>>
                /\ UNCHANGED hashfile

UpdateAppend == /\ op = "update" /\ Sane /\ pending # NoTuple
                /\ tuple_appendandreturn(pending)
                /\ pending' = NoTuple
                /\ Advance
                /\ UNCHANGED <<hashfile, op, match, set, epos, copy, before>>

UpdateSkip == /\ op = "update" /\ Sane /\ pending = NoTuple
              /\ ~atend
              /\ ~(at \in Live(slots) /\ slots[at].data \in match)
              /\ Advance
              /\ UNCHANGED <<table, hashfile, file, updated, op, match, set, epos,
                             pending, copy, before, damage>>

UpdateDone == /\ op = "update" /\ Sane /\ pending = NoTuple
              /\ atend
              /\ Return
              /\ UNCHANGED <<table, hashfile, file, updated, damage>>

\* rl_compact: rl_duplicate copies the tuples into `_temp', a tuple at a time;
\* then the relation's files go and `_temp' takes its name.
rl_compact == /\ Free(0)
              /\ Scan("compact", {})
              /\ copy' = NoCopy
              /\ UNCHANGED <<table, hashfile, file, updated, set, epos, pending, damage>>

CompactNext ==
    /\ op = "compact" /\ Sane
    /\ ~AtEOF
    /\ Advance
    /\ LET d == slots[at].data
       IN  copy' = IF at \notin Live(slots) THEN copy
                   ELSE IF Found(copy.table, text[d])
                   THEN [copy EXCEPT !.updated = TRUE]
                   ELSE [slots   |-> At(copy.slots, Len(copy.slots) + 1, ReadBack(d)),
                         table   |-> Inserted(copy.table, text[d]),
                         updated |-> TRUE]
    /\ UNCHANGED <<table, hashfile, file, updated, op, match, set, epos, pending,
                   before, damage>>

CompactDone ==
    /\ op = "compact" /\ Sane
    /\ AtEOF
    /\ Return
    /\ slots' = copy.slots
    /\ table' = copy.table
    /\ updated' = copy.updated
    /\ last_deleted' = 0
    /\ hashfile' = NoFile
    /\ damage' = {}

ScanStep == \/ Build \/ Built
            \/ SaveNode \/ SaveDone
            \/ EraseNext \/ EraseDone
            \/ UpdateDelete \/ UpdateAppend \/ UpdateSkip \/ UpdateDone
            \/ CompactNext \/ CompactDone

StoreNext == \/ Open
             \/ Close
             \/ Crash
             \/ \E t \in Tuples : insert(t)
             \/ \E M \in Conditions : rl_erase(M)
             \/ \E M \in Conditions, s \in Assignments \cup {Malformed} :
                    rl_update(M, s)
             \/ rl_compact
             \/ ScanStep

StoreSpec == StoreInit /\ [][StoreNext]_vars

\* What has begun goes on: the process is one thread that waits for nothing.
FairSpec == StoreSpec /\ WF_vars(ScanStep)

-------------------------------------------------------------------------------
(***************************************************************************)
(* What the relation promises while its index can be trusted.  `damage'     *)
(* names the events after which it cannot:                                  *)
(*    crash      the process died after changing the relation, or while it  *)
(*               saved the table, and the hash file it left is trusted when *)
(*               the relation is opened again;                              *)
(*    chain      hashing_delete unlinked other keys than the deleted one;   *)
(*    text       a tuple was written whose text is not the text read back;  *)
(*    overwrite  an insertion replaced a live tuple, whose key stays taken. *)
(* Compacting a relation undoes all four.                                   *)
(***************************************************************************)
Sound == damage \subseteq {"overwrite"}

LiveTexts(s) == {text[d] : d \in LiveData(s)}

\* Is the table, or the hash file it will be read from, complete?
IndexInUse == Sane /\ op # "opening" /\ ~(op = "closed" /\ hashfile = NoFile)

\* A relation is a set: no two tuples of it are the same.
DistinctTuples ==
    Sound => \A i, j \in Live(slots) :
                text[slots[i].data] = text[slots[j].data] => i = j

\* Every tuple of the relation is known to its index, in memory or on disk.
IndexCovers == Sound /\ IndexInUse => LiveTexts(slots) \subseteq IndexKeys

\* And the index knows no other tuple: none is refused that is not there.
IndexExact == damage = {} /\ IndexInUse => IndexKeys \subseteq LiveTexts(slots)

\* What an update appends it does not read again: atend stops it in time.
UpdateSparesItsOwn ==
    op = "update" => (epos + 1) .. Len(slots) \subseteq Live(slots)

\* insert adds its tuple, and takes none away.
InsertIsUnion ==
    [][\A t \in Tuples : insert(t) /\ damage' = {} =>
          LiveData(slots') = LiveData(slots) \cup {stored[t]}]_vars

\* rl_erase leaves exactly the tuples the condition is false of, whatever the
\* state of the index.  (ImplementsSet says as much; this says it of the slots.)
EraseIsExact ==
    [][EraseDone => LiveData(slots) = before \ match]_vars

\* rl_update replaces exactly the tuples the condition is true of, although it
\* reads, deletes and appends them one at a time in the same file.
UpdateIsExact ==
    [][UpdateDone /\ set \in Assignments /\ damage = {} =>
          LiveData(slots) = (before \ match) \cup
                            {stored[set[d]] : d \in before \cap match}]_vars

\* rl_compact keeps every tuple, once, whatever the state of the index was.
CompactKeepsTuples ==
    [][CompactDone => /\ LiveTexts(slots') = LiveTexts(slots)
                      /\ Len(slots') = Cardinality(LiveTexts(slots))]_vars

\* An operator that has begun comes to its end, or dies with the process.
ScanEnds == (op # "idle") ~> (op \in {"idle", "closed"} \/ ~Sane)

\* An operator that has begun and not ended.
Scanning == op \in {"erase", "update", "compact"}

\* What the set string of an update makes of a stored tuple, read back.
ImageOf(s) == IF s = Malformed THEN Malformed ELSE [d \in Data |-> stored[s[d]]]

\* The relation as its users see it: what an operator does, it does at its end.
SetRows == IF Scanning THEN before ELSE LiveData(slots)

SetRunning == [command |-> IF Scanning THEN op ELSE "none",
               cond    |-> match,
               image   |-> ImageOf(set)]

AsSet == INSTANCE RelationSet WITH Rows    <- Data,
                                   NoImage <- Malformed,
                                   rows    <- SetRows,
                                   open    <- op # "closed",
                                   running <- SetRunning,
                                   trusted <- damage = {}

\* To its users the relation is a set, changed by whole operators: the scans, one
\* slot at a time, with their crashes between any two writes, come to no more
\* than RelationSet allows.
ImplementsSet == AsSet!SetSpec

-------------------------------------------------------------------------------
\* What the comments of tuple_append say: "Seek the last deleted position, or
\* the end of the file", and "We reset last_deleted so we don't overwrite what
\* may be valid data".
InsertKeepsTuples ==
    [][\A t \in Tuples : insert(t) /\ last_deleted \in DOMAIN slots \ Live(slots) =>
          \A i \in Live(slots) : slots'[i] = slots[i]]_vars

===============================================================================
