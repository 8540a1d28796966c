------------------------------- MODULE HashTable -------------------------------
(***************************************************************************)
(* The hash table of one relation (src/src/hashing.c) and its saved form,   *)
(* the hash file.  Any sequence of calls of its operations is allowed: the  *)
(* callers in tuples.c look a key up before they insert it, the relational  *)
(* operators in rtional.c and build_hash_table do not.  A call is one step; *)
(* TupleStore takes a call of hashing_save apart.                           *)
(***************************************************************************)
EXTENDS HashBucket

CONSTANTS Buckets,   \* 0 .. TABLESIZE-1
          hash,      \* the folding function: which bucket a key belongs to
          NoTable,   \* no table in memory: a NULL HashTable
          Wild,      \* a table whose process has touched memory it had freed
          NoFile     \* no hash file on disk

ASSUME HashAssumption == hash \in [Keys -> Buckets]
ASSUME TableAssumption == /\ NoTable # Wild
                          /\ NoTable \notin [Buckets -> Bucket]
                          /\ Wild \notin [Buckets -> Bucket]
                          /\ NoFile \notin [Buckets -> SavedBucket]

VARIABLES table,      \* the table in memory
          hashfile    \* the hash file on disk

tableVars == <<table, hashfile>>

\* Every key is linked in the bucket it hashes to.
InItsBucket(t) == \A b \in Buckets : \A k \in DOMAIN t[b] : hash[k] = b

IsTable(t) == /\ t \in [Buckets -> Range(t)]
              /\ \A b \in Buckets : IsBucket(t[b])
              /\ InItsBucket(t)

IsHashFile(f) == /\ f \in [Buckets -> Range(f)]
                 /\ \A b \in Buckets : IsSavedBucket(f[b])
                 /\ InItsBucket(f)

TableTypeOK == /\ table \in {NoTable, Wild} \/ IsTable(table)
               /\ hashfile = NoFile \/ IsHashFile(hashfile)

-------------------------------------------------------------------------------
\* What a call tells its caller, and the table it leaves behind.

EmptyTable == [b \in Buckets |-> EmptyBucket]

Found(t, k) == hashing_retrieve(t[hash[k]], k)

\* Mutant: every key goes into the same bucket.
InsertedAnywhere(t, k) ==
    [t EXCEPT ![CHOOSE b \in Buckets : TRUE] = hashing_insert(@, k)]

Inserted(t, k) == [t EXCEPT ![hash[k]] = hashing_insert(@, k)]

Deleted(t, k) == IF DeleteIsUndefined(t[hash[k]], k) THEN Wild
                 ELSE [t EXCEPT ![hash[k]] = hashing_delete(@, k)]

Saved(t) == [b \in Buckets |-> hashing_save(t[b])]

\* A hash file that cannot be opened is reported and leaves the table empty.
Loaded(f) == IF f = NoFile THEN EmptyTable
             ELSE [b \in Buckets |-> hashing_load(f[b])]

-------------------------------------------------------------------------------

Ready == table \notin {NoTable, Wild}

Init == table = NoTable /\ hashfile = NoFile

Create == table = NoTable /\ table' = EmptyTable /\ UNCHANGED hashfile

Insert(k) == Ready /\ table' = Inserted(table, k) /\ UNCHANGED hashfile

Delete(k) == Ready /\ table' = Deleted(table, k) /\ UNCHANGED hashfile

Save == Ready /\ hashfile' = Saved(table) /\ UNCHANGED table

Load == table = NoTable /\ table' = Loaded(hashfile) /\ UNCHANGED hashfile

\* hashing_terminate, or the end of the process, which is all the model follows
\* of a process that has touched freed memory.
Terminate == table # NoTable /\ table' = NoTable /\ UNCHANGED hashfile

Next == \/ Create
        \/ \E k \in Keys : Insert(k) \/ Delete(k)
        \/ Save
        \/ Load
        \/ Terminate

Spec == Init /\ [][Next]_tableVars

===============================================================================
