------------------------------ MODULE HashBucket ------------------------------
(***************************************************************************)
(* One bucket of a LEAP hash table (src/src/hashing.c): a chain of nodes    *)
(* kept in strcmp order and linked both ways.  Every relation owns a table  *)
(* of such buckets; it is the index that decides whether a tuple is new.    *)
(*                                                                          *)
(* The forward order of a chain is the order of its keys, so a bucket is a  *)
(* function from the keys linked in it to the part of a node that the order *)
(* does not determine:                                                      *)
(*    previous  the node its `previous' pointer names, by the key of that   *)
(*              node; NULL; or Stale when that node has been freed or       *)
(*              unlinked since the pointer was set;                         *)
(*    copies    how many nodes carry the key: inserting the key of the head *)
(*              node links a second node in front of it.  `previous' is     *)
(*              then the pointer of the foremost copy, and a pointer to the *)
(*              key means the rearmost one.                                 *)
(* ChainHeap.tla is the same chain with its nodes and pointers spelt out.   *)
(***************************************************************************)
EXTENDS Integers, FiniteSetsExt

CONSTANTS Keys,   \* the keys of a bucket, numbered in strcmp order
          NULL,   \* the null pointer
          Stale   \* a pointer to a node no longer in the chain

ASSUME KeysAssumption == Keys \subseteq Nat
ASSUME PointerAssumption == NULL \notin Keys /\ Stale \notin Keys /\ NULL # Stale

Node == [previous : Keys \cup {NULL, Stale}, copies : Nat \ {0}]

Bucket == UNION {[S -> Node] : S \in SUBSET Keys}

IsBucket(c) == DOMAIN c \subseteq Keys /\ c \in [DOMAIN c -> Node]

EmptyBucket == [k \in {} |-> [previous |-> NULL, copies |-> 1]]

Before(c, k) == {x \in DOMAIN c : x < k}
After(c, k)  == {x \in DOMAIN c : x > k}

\* The key in front of k in the forward order: what a walk from the head has
\* in pchnn when it stops at k's place.
Pred(c, k) == IF Before(c, k) = {} THEN NULL ELSE Max(Before(c, k))

\* A chain whose backward pointers agree with its forward order.
WellLinked(c) == \A k \in DOMAIN c : c[k].previous = Pred(c, k)

-------------------------------------------------------------------------------

\* (A definition whose comment begins with `Mutant' is a slip of a later one,
\* which a property must notice.)

\* Mutant: a new head does not take over the chain.
insert_cuts_chain(c, k) ==
    IF k \in DOMAIN c THEN c
    ELSE [x \in (IF Before(c, k) = {} THEN {} ELSE DOMAIN c) \cup {k} |->
             IF x = k THEN [previous |-> Pred(c, k), copies |-> 1] ELSE c[x]]

\* Link a node for k.  The new node's own pointers are set; the `previous' of
\* the node that follows it is left as it was, unless k went in at the end.
\* A key equal to the head's gets a node of its own; any other key that is
\* already linked is dropped.
hashing_insert(c, k) ==
    IF k \notin DOMAIN c
    THEN [x \in DOMAIN c \cup {k} |->
             IF x = k THEN [previous |-> Pred(c, k), copies |-> 1] ELSE c[x]]
    ELSE IF Before(c, k) = {}
    THEN [c EXCEPT ![k].copies = @ + 1]
    ELSE c

\* Is a key found by the walk from the head?
hashing_retrieve(c, k) == k \in DOMAIN c

\* Deleting k writes through its `previous' pointer: into freed memory, or into
\* a node that no longer leads to k's, which leaves the freed node linked.
DeleteIsUndefined(c, k) == k \in DOMAIN c /\ c[k].previous = Stale

\* Mutant: the node at the end of the chain stays.
delete_keeps_last(c, k) ==
    [x \in DOMAIN c \ (IF After(c, k) = {} THEN {} ELSE {k}) |-> c[x]]

\* Mutant: the node that follows keeps its `previous'.
delete_leaves_previous(c, k) ==
    [x \in DOMAIN c \ {k} |->
        IF c[x].previous = k THEN [c[x] EXCEPT !.previous = Stale] ELSE c[x]]

\* Mutant: the node in front becomes the last.
delete_cuts_chain(c, k) ==
    [x \in (IF k \in DOMAIN c THEN Before(c, k) ELSE DOMAIN c) |-> c[x]]

\* Unlink the foremost node of k.  The node its `previous' names is made to
\* point past it (the bucket itself when there is none), so everything between
\* the two leaves the chain with it.
hashing_delete(c, k) ==
    IF k \notin DOMAIN c THEN c
    ELSE LET p      == c[k].previous
             rest   == After(c, k) \cup (IF c[k].copies > 1 THEN {k} ELSE {})
             linked == {x \in Before(c, k) : p # NULL /\ x <= p} \cup rest
         IN  [x \in linked |->
                [previous |-> IF x \in rest /\ \A y \in rest : x <= y THEN p
                              ELSE IF c[x].previous \in linked \cup {NULL}
                              THEN c[x].previous
                              ELSE Stale,
                 copies   |-> IF x = k THEN c[x].copies - 1 ELSE c[x].copies]]

-------------------------------------------------------------------------------

\* A bucket as hashing_save writes it: its keys, in order, once per node.
SavedBucket == UNION {[S -> Nat \ {0}] : S \in SUBSET Keys}

IsSavedBucket(f) == DOMAIN f \subseteq Keys /\ f \in [DOMAIN f -> Nat \ {0}]

hashing_save(c) == [k \in DOMAIN c |-> c[k].copies]

\* Mutant: the loop ends with the first key of a chain.
load_reads_first(f) ==
    [k \in {x \in DOMAIN f : Before(f, x) = {}} |-> [previous |-> NULL, copies |-> f[k]]]

\* hashing_load inserts the saved keys in the order of the file.  Each goes in
\* at the end, which sets both pointers; of repeated keys only those of the
\* head are linked again.
hashing_load(f) ==
    [k \in DOMAIN f |-> [previous |-> Pred(f, k),
                         copies   |-> IF Before(f, k) = {} THEN f[k] ELSE 1]]

===============================================================================
