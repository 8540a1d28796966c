------------------------------- MODULE ChainHeap -------------------------------
(***************************************************************************)
(* One chain of a hash table as src/src/hashing.c builds it: nodes that     *)
(* malloc hands out, joined by next and previous pointers, reached from the *)
(* bucket's head pointer.  HashTable keeps of it only what the order of the *)
(* keys does not determine; Refines says that nothing is lost by that.      *)
(*                                                                          *)
(* An address is handed out again only when no pointer of the chain holds   *)
(* it.  Using a pointer to freed memory is undefined whether or not the     *)
(* memory has been handed out again, so this hides nothing.                 *)
(***************************************************************************)
EXTENDS Integers, Sequences, SequencesExt, FiniteSetsExt

CONSTANTS Keys,        \* the keys of the chain, in strcmp order
          Addresses,   \* bound: the nodes there is memory for
          NULL, Stale, NoTable, Wild, NoFile, bucket

\* Memory is finite; the keys have an order; the marks are neither nodes nor keys.
ASSUME MemoryAssumption == IsFiniteSet(Addresses) /\ Addresses \subseteq Nat
ASSUME KeysAssumption == Keys \subseteq Nat
ASSUME PointerAssumption == /\ NULL \notin Addresses
                            /\ NULL \notin Keys /\ Stale \notin Keys /\ NULL # Stale

VARIABLES heap,        \* NoTable, Wild, or [head : Pointer, node : the nodes
                       \* by address]
          file         \* the saved chain: its keys in the order written

heapVars == <<heap, file>>

Pointer == Addresses \cup {NULL}

\* A node (chain_struct), and what can be in memory: a head and nodes at addresses.
Node == [element : Keys, next : Pointer, previous : Pointer]
Heap == [head : Pointer, node : UNION {[S -> Node] : S \in SUBSET Addresses}]

EmptyHeap == [head |-> NULL, node |-> [a \in {} |-> NULL]]

\* The nodes a walk from the head meets: from[n] is the walk cut off after n nodes,
\* and no chain has more than there are.  It ends at NULL, or at a pointer to
\* memory that has been freed.
Walk(h) ==
    LET from[n \in 0 .. Cardinality(DOMAIN h.node)] ==
            [p \in Pointer |-> IF n = 0 \/ p \notin DOMAIN h.node THEN <<>>
                               ELSE <<p>> \o from[n - 1][h.node[p].next]]
    IN  from[Cardinality(DOMAIN h.node)][h.head]

\* Some pointer the walk follows leads into freed memory.
Dangling(h) ==
    \E p \in {h.head} \cup {h.node[a].next : a \in Range(Walk(h))} :
        p # NULL /\ p \notin DOMAIN h.node

Named(h) == {h.head} \cup UNION {{h.node[a].next, h.node[a].previous} :
                                    a \in DOMAIN h.node}

Unused(h) == Addresses \ (DOMAIN h.node \cup Named(h))

\* (A definition whose comment begins with `Mutant' is a slip of a later one,
\* which a property must notice.)

\* Mutant: the walk never stops before the end of the chain.
NoneNotBelow(h, k) == 0

\* The places of the keys k for which the walk looks: the first node whose key
\* is not smaller, and the first whose key is equal.
FirstNotBelow(h, k) ==
    LET w == Walk(h) IN SelectInSeq(w, LAMBDA a : h.node[a].element >= k)

Lookup(h, k) ==
    LET w == Walk(h) IN SelectInSeq(w, LAMBDA a : h.node[a].element = k)

-------------------------------------------------------------------------------

\* chain_node_create, with the pointers hashing_insert gives the node.
With(h, a, k, nxt, prev) ==
    [b \in DOMAIN h.node \cup {a} |->
        IF b = a THEN [element |-> k, next |-> nxt, previous |-> prev] ELSE h.node[b]]

insert(h, k) ==
    LET a == Min(Unused(h))
        w == Walk(h)
        i == FirstNotBelow(h, k)
    IN  IF h.head = NULL
        THEN [head |-> a, node |-> With(h, a, k, NULL, NULL)]
        ELSE IF i = 0
        THEN LET last == w[Len(w)]
             IN  [h EXCEPT !.node = [With(h, a, k, NULL, last)
                                        EXCEPT ![last].next = a]]
        ELSE IF h.node[w[i]].element = h.node[h.head].element
        THEN [head |-> a, node |-> With(h, a, k, h.head, NULL)]
        ELSE IF k < h.node[w[i]].element
        THEN [h EXCEPT !.node = [With(h, a, k, w[i], w[i - 1])
                                    EXCEPT ![w[i - 1]].next = a]]
        ELSE h

\* Mutant: `previous' pointers are left alone.
SetNextOnly(node, p, f, v) ==
    IF p = NULL \/ f = "previous" THEN node ELSE [node EXCEPT ![p][f] = v]

\* The nodes of h with field f of the node at p set to v, for a p that is not
\* freed memory.
Set(node, p, f, v) == IF p = NULL THEN node ELSE [node EXCEPT ![p][f] = v]

Free(node, a) == Restrict(node, DOMAIN node \ {a})

delete(h, k) ==
    LET i    == Lookup(h, k)
        a    == Walk(h)[i]
        chn  == h.node[a]
        left == IF chn.previous = NULL
                THEN [head |-> chn.next,
                      node |-> Free(Set(h.node, chn.next, "previous", NULL), a)]
                ELSE IF chn.next = NULL
                THEN [h EXCEPT !.node = Free(Set(@, chn.previous, "next", NULL), a)]
                ELSE [h EXCEPT !.node =
                        Free(Set(Set(@, chn.previous, "next", chn.next),
                                 chn.next, "previous", chn.previous), a)]
    IN  IF i = 0 THEN h
        ELSE IF chn.previous \notin DOMAIN h.node \cup {NULL} THEN Wild
        ELSE IF Dangling(left) THEN Wild
        ELSE left

save(h) == [i \in DOMAIN Walk(h) |-> h.node[Walk(h)[i]].element]

\* The chain after each key of the file.
load(f) ==
    LET after[n \in 0 .. Len(f)] ==
            IF n = 0 THEN EmptyHeap ELSE insert(after[n - 1], f[n])
    IN  IF f = NoFile THEN EmptyHeap ELSE after[Len(f)]

-------------------------------------------------------------------------------

HeapReady == heap \notin {NoTable, Wild}

HeapInit == heap = NoTable /\ file = NoFile

HeapCreate == heap = NoTable /\ heap' = EmptyHeap /\ UNCHANGED file

HeapInsert(k) == /\ HeapReady
                 /\ Unused(heap) # {}
                 /\ heap' = insert(heap, k)
                 /\ UNCHANGED file

HeapDelete(k) == HeapReady /\ heap' = delete(heap, k) /\ UNCHANGED file

HeapSave == HeapReady /\ file' = save(heap) /\ UNCHANGED heap

HeapLoad == heap = NoTable /\ heap' = load(file) /\ UNCHANGED file

HeapTerminate == heap # NoTable /\ heap' = NoTable /\ UNCHANGED file

HeapNext == \/ HeapCreate
            \/ \E k \in Keys : HeapInsert(k)
            \/ \E k \in Keys : HeapDelete(k)
            \/ HeapSave
            \/ HeapLoad
            \/ HeapTerminate

HeapSpec == HeapInit /\ [][HeapNext]_heapVars

-------------------------------------------------------------------------------

\* The keys along the chain are in order, and no pointer followed is dangling:
\* findposn and hashing_insert stop where they should, and within the chain.
ChainInOrder ==
    HeapReady => /\ ~Dangling(heap)
                 /\ \A i, j \in DOMAIN save(heap) :
                        i < j => save(heap)[i] <= save(heap)[j]

\* What a node's previous pointer is to HashTable: the key of the node it names
\* if that node is in the chain.
Link(h, p) == IF p = NULL THEN NULL
              ELSE IF p \in Range(Walk(h)) THEN h.node[p].element
              ELSE Stale

AsBucket(h) ==
    [k \in Range(save(h)) |->
        [previous |-> Link(h, h.node[Walk(h)[Lookup(h, k)]].previous),
         copies   |-> Cardinality({i \in DOMAIN save(h) : save(h)[i] = k})]]

AsSaved(f) == [k \in Range(f) |-> Cardinality({i \in DOMAIN f : f[i] = k})]

Abstract ==
    INSTANCE HashTable WITH
        Buckets  <- {bucket},
        hash     <- [k \in Keys |-> bucket],
        table    <- IF HeapReady THEN [b \in {bucket} |-> AsBucket(heap)] ELSE heap,
        hashfile <- IF file = NoFile THEN NoFile
                    ELSE [b \in {bucket} |-> AsSaved(file)]

\* What stands for no table, or a ruined one, or no file, is none of these.
ASSUME MarkAssumption ==
    /\ NoTable # Wild
    /\ \A mark \in {NoTable, Wild} : mark \notin Heap \cup [{bucket} -> Abstract!Bucket]
    /\ NoFile \notin Seq(Keys) \cup [{bucket} -> Abstract!SavedBucket]

\* Every call on the chain of nodes is the call of the same name on HashTable:
\* it finds, links and loses the same keys.
Refines == Abstract!Spec

===============================================================================
