------------------------------ MODULE HashLedger ------------------------------
(***************************************************************************)
(* The hash table together with a record of what it was told: `owed' is     *)
(* what an exact table would hold, and two flags say which of the calls     *)
(* that lead the backward pointers astray have been made.  The properties   *)
(* compare the table with that record.                                      *)
(***************************************************************************)
EXTENDS HashTable

CONSTANT MaxOwed    \* bound: how often one key may be inserted over
ASSUME BoundAssumption == MaxOwed \in Nat

VARIABLES owed,       \* insertions of each key, less its deletions
          pristine,   \* nothing deleted since the table was made or loaded
          tidy        \* every insertion since then was at the end of a chain

vars == <<table, hashfile, owed, pristine, tidy>>

TypeOK == /\ TableTypeOK
          /\ owed \in [Keys -> Nat]
          /\ pristine \in BOOLEAN
          /\ tidy \in BOOLEAN

LedgerInit == /\ Init
              /\ owed = [k \in Keys |-> 0]
              /\ pristine = TRUE
              /\ tidy = TRUE

\* A table that has just been made, with the record of what it holds.
Opened == /\ owed' = [k \in Keys |-> IF Found(table', k)
                                     THEN table'[hash[k]][k].copies ELSE 0]
          /\ pristine' = TRUE
          /\ tidy' = TRUE

NewTable == Create /\ Opened

LoadTable == Load /\ Opened

InsertKey(k) == /\ owed[k] < MaxOwed
                /\ Insert(k)
                /\ owed' = [owed EXCEPT ![k] = @ + 1]
                /\ tidy' = (tidy /\ \A x \in DOMAIN table[hash[k]] : x < k)
                /\ UNCHANGED pristine

DeleteKey(k) == /\ Delete(k)
                /\ owed' = [owed EXCEPT ![k] = IF @ > 0 THEN @ - 1 ELSE 0]
                /\ pristine' = FALSE
                /\ UNCHANGED tidy

SaveTable == Save /\ UNCHANGED <<owed, pristine, tidy>>

DropTable == Terminate /\ UNCHANGED <<owed, pristine, tidy>>

LedgerNext == \/ NewTable
              \/ LoadTable
              \/ \E k \in Keys : InsertKey(k)
              \/ \E k \in Keys : DeleteKey(k)
              \/ SaveTable
              \/ DropTable

LedgerSpec == LedgerInit /\ [][LedgerNext]_vars

-------------------------------------------------------------------------------

\* A key is found only while it was inserted more often than it was deleted:
\* hashing_delete never leaves a node behind that the caller was told is gone.
NoPhantomKey ==
    Ready => \A k \in Keys :
                Found(table, k) => table[hash[k]][k].copies <= owed[k]

\* No key is forgotten as long as nothing has been deleted, or nothing has been
\* inserted in front of another key, since the table was made or loaded: then
\* the pointers hashing_delete follows are those of the chain.
NothingForgotten ==
    (Ready /\ (pristine \/ tidy)) => \A k \in Keys : owed[k] > 0 => Found(table, k)

\* As long as every insertion was at an end no backward pointer goes astray,
\* and hashing_delete never follows one into freed memory.
TidyIsSafe == tidy => table # Wild

\* The node in front has no predecessor.  hashing_delete takes the converse for
\* granted: it treats a node without one as the node in front.
FirstHasNoPrevious ==
    Ready => \A b \in Buckets : \A k \in DOMAIN table[b] :
                Before(table[b], k) = {} => table[b][k].previous = NULL

\* Whatever pointers it follows, hashing_delete unlinks only keys in front of
\* the deleted one, and none of another bucket.
LossIsInFront ==
    [][\A k \in Keys : DeleteKey(k) /\ table' # Wild =>
          \A x \in Keys : Found(table, x) /\ (hash[x] # hash[k] \/ x > k)
                             => Found(table', x)]_vars

-------------------------------------------------------------------------------
\* What the comments of hashing.c say, which the chains do not keep.

\* findposn: "If HT contains an element with key value tkey then found is true".
StoredIsFound == Ready => \A k \in Keys : owed[k] > 0 => Found(table, k)

===============================================================================
