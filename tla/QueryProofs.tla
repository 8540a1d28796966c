------------------------------ MODULE QueryProofs ------------------------------
(***************************************************************************)
(* The walks of the parser and the executor, for every text that can be     *)
(* asked, and that no query touches a relation there is.                    *)
(***************************************************************************)
EXTENDS Query, SequenceTheorems, FiniteSetTheorems, WellFoundedInduction, TLAPS

-------------------------------------------------------------------------------
\* Places.

Places == Seq({0, 1})

\* p is q or a place above it.
Above(p, q) == Len(p) <= Len(q) /\ \A i \in 1 .. Len(p) : q[i] = p[i]

\* The places above a place, from the root on.
Path(p) == [i \in 1 .. Len(p) |-> SubSeq(p, 1, i - 1)]

\* A turn leads to a place, and back.
LEMMA ChildIs ==
    ASSUME NEW p \in Places, NEW b \in {0, 1}
    PROVE  /\ Append(p, b) \in Places /\ Append(p, b) # Root
           /\ Len(Append(p, b)) = Len(p) + 1
           /\ Front(Append(p, b)) = p /\ Last(Append(p, b)) = b
           /\ \A i \in 1 .. Len(p) : Append(p, b)[i] = p[i]
<1> DEFINE q == Append(p, b)
<1>1. /\ q \in Seq({0, 1}) /\ Len(q) = Len(p) + 1 /\ q[Len(p) + 1] = b
      /\ \A i \in 1 .. Len(p) : q[i] = p[i]
  BY AppendProperties DEF Places
<1>2. Len(p) \in Nat /\ p \in Seq({0, 1})
  BY DEF Places
<1> HIDE DEF q
<1>3. Front(q) = p
  <2>1. Front(q) = SubSeq(q, 1, Len(p))
    BY <1>1, <1>2 DEF Front
  <2>2. SubSeq(q, 1, Len(p)) \in Seq({0, 1}) /\ Len(SubSeq(q, 1, Len(p))) = Len(p)
    BY <1>1, <1>2
  <2>3. \A i \in 1 .. Len(p) : SubSeq(q, 1, Len(p))[i] = p[i]
    BY <1>1, <1>2
  <2> QED BY <2>1, <2>2, <2>3, <1>2, SeqEqual
<1>4. Last(q) = b
  BY <1>1, <1>2 DEF Last
<1>5. q # Root
  BY <1>1, <1>2 DEF Root
<1> QED
  BY <1>1, <1>3, <1>4, <1>5 DEF q, Places

\* Every place but the root is a turn from the place above it.
LEMMA ParentIs ==
    ASSUME NEW p \in Places, p # Root
    PROVE  /\ Front(p) \in Places /\ Len(p) = Len(Front(p)) + 1
           /\ Last(p) \in {0, 1} /\ p = Append(Front(p), Last(p))
<1>1. PICK q \in Places, b \in {0, 1} : p = Append(q, b)
  BY SequenceEmptyOrAppend DEF Places, Root
<1> QED
  BY <1>1, ChildIs

\* What two places have in common.
LEMMA AboveTrans ==
    ASSUME NEW p \in Places, NEW q \in Places, NEW r \in Places, Above(p, q), Above(q, r)
    PROVE  Above(p, r)
BY DEF Above, Places

\* Of one length they are the same.
LEMMA AboveSame ==
    ASSUME NEW p \in Places, NEW q \in Places, Above(p, q), Len(p) = Len(q)
    PROVE  p = q
BY SeqEqual DEF Above, Places

\* A place is above itself, and the root above any.
LEMMA AboveSelf ==
    ASSUME NEW p \in Places
    PROVE  Above(p, p) /\ Above(Root, p)
BY DEF Above, Places, Root

\* Above a child is the child, and what is above the place it hangs from.
LEMMA AboveChild ==
    ASSUME NEW p \in Places, NEW q \in Places, NEW b \in {0, 1}
    PROVE  Above(p, Append(q, b)) <=> Above(p, q) \/ p = Append(q, b)
<1>1. /\ Append(q, b) \in Places /\ Len(Append(q, b)) = Len(q) + 1
      /\ \A i \in 1 .. Len(q) : Append(q, b)[i] = q[i]
  BY ChildIs
<1>2. Len(p) \in Nat /\ Len(q) \in Nat
  BY DEF Places
<1>3. Above(p, Append(q, b)) /\ Len(p) # Len(q) + 1 => Above(p, q)
  BY <1>1, <1>2 DEF Above
<1>4. Above(p, Append(q, b)) /\ Len(p) = Len(q) + 1 => p = Append(q, b)
  BY <1>1, AboveSame
<1>5. Above(p, q) => Above(p, Append(q, b))
  BY <1>1, <1>2 DEF Above
<1> QED
  BY <1>1, <1>3, <1>4, <1>5, AboveSelf

\* Two places above one are above one another.
LEMMA AboveOrder ==
    ASSUME NEW p \in Places, NEW q \in Places, NEW r \in Places,
           Above(p, r), Above(q, r), Len(p) <= Len(q)
    PROVE  Above(p, q)
BY DEF Above, Places

\* The first turns of a place.
LEMMA FirstTurns ==
    ASSUME NEW p \in Places, NEW n \in 0 .. Len(p)
    PROVE  /\ SubSeq(p, 1, n) \in Places /\ Len(SubSeq(p, 1, n)) = n
           /\ Above(SubSeq(p, 1, n), p)
<1>1. Len(p) \in Nat
  BY DEF Places
<1>2. SubSeq(p, 1, n) \in Seq({0, 1}) /\ Len(SubSeq(p, 1, n)) = n
  BY <1>1 DEF Places
<1>3. \A i \in 1 .. n : p[i] = SubSeq(p, 1, n)[i]
  BY <1>1 DEF Places
<1> QED
  BY <1>1, <1>2, <1>3 DEF Places, Above

\* The path to a child is the path to the place, and the place.
LEMMA PathToChild ==
    ASSUME NEW p \in Places, NEW b \in {0, 1}
    PROVE  Path(Append(p, b)) = Append(Path(p), p)
<1> DEFINE q == Append(p, b)
<1>1. /\ q \in Places /\ Len(q) = Len(p) + 1
      /\ \A i \in 1 .. Len(p) : q[i] = p[i]
  BY ChildIs
<1>2. Len(p) \in Nat /\ p \in Seq({0, 1}) /\ q \in Seq({0, 1})
  BY <1>1 DEF Places
<1> HIDE DEF q
<1>3. \A i \in 1 .. Len(p) + 1 : SubSeq(q, 1, i - 1) = SubSeq(p, 1, i - 1)
  <2> SUFFICES ASSUME NEW i \in 1 .. Len(p) + 1
               PROVE  SubSeq(q, 1, i - 1) = SubSeq(p, 1, i - 1)
    OBVIOUS
  <2>1. SubSeq(q, 1, i - 1) \in Seq({0, 1}) /\ Len(SubSeq(q, 1, i - 1)) = i - 1
    BY <1>1, <1>2
  <2>2. SubSeq(p, 1, i - 1) \in Seq({0, 1}) /\ Len(SubSeq(p, 1, i - 1)) = i - 1
    BY <1>2
  <2>3. \A j \in 1 .. i - 1 : SubSeq(q, 1, i - 1)[j] = SubSeq(p, 1, i - 1)[j]
    BY <1>1, <1>2
  <2> QED BY <2>1, <2>2, <2>3, SeqEqual
<1>4. SubSeq(p, 1, Len(p)) = p
  BY <1>2, SubSeqFull
<1>5. Path(p) \in Seq(Places) /\ Len(Path(p)) = Len(p)
  <2>1. \A i \in 1 .. Len(p) : SubSeq(p, 1, i - 1) \in Places
    BY <1>2, FirstTurns
  <2> QED BY <2>1, <1>2, IsASeq DEF Path
<1>6. Path(q) \in Seq(Places) /\ Len(Path(q)) = Len(p) + 1
  <2>1. \A i \in 1 .. Len(q) : SubSeq(q, 1, i - 1) \in Places
    BY <1>1, <1>2, FirstTurns
  <2> QED BY <2>1, <1>1, <1>2, IsASeq DEF Path
<1>7. /\ Append(Path(p), p) \in Seq(Places) /\ Len(Append(Path(p), p)) = Len(p) + 1
      /\ Append(Path(p), p)[Len(p) + 1] = p
      /\ \A i \in 1 .. Len(p) : Append(Path(p), p)[i] = Path(p)[i]
  BY <1>5, AppendProperties
<1>8. \A i \in 1 .. Len(p) + 1 : Path(q)[i] = Append(Path(p), p)[i]
  <2>1. \A i \in 1 .. Len(p) + 1 : Path(q)[i] = SubSeq(q, 1, i - 1)
    BY <1>1 DEF Path
  <2>2. \A i \in 1 .. Len(p) : Path(p)[i] = SubSeq(p, 1, i - 1)
    BY DEF Path
  <2>3. SubSeq(p, 1, (Len(p) + 1) - 1) = p
    BY <1>2, <1>4
  <2>4. \A i \in 1 .. Len(p) : Path(q)[i] = Append(Path(p), p)[i]
    BY <2>1, <2>2, <1>2, <1>3, <1>7
  <2>5. Path(q)[Len(p) + 1] = p
    BY <2>1, <2>3, <1>2, <1>3
  <2> QED BY <2>4, <2>5, <1>2, <1>7
<1> QED
  BY <1>6, <1>7, <1>8, SeqEqual DEF q

\* Taking the last place off the path to a child.
LEMMA PathFromChild ==
    ASSUME NEW p \in Places, NEW b \in {0, 1}
    PROVE  /\ Path(Append(p, b)) # <<>>
           /\ Last(Path(Append(p, b))) = p /\ Front(Path(Append(p, b))) = Path(p)
<1>1. Path(Append(p, b)) = Append(Path(p), p)
  BY PathToChild
<1>2. Path(p) \in Seq(Places) /\ Len(Path(p)) = Len(p) /\ Len(p) \in Nat
  <2>1. Len(p) \in Nat
    BY DEF Places
  <2>2. \A i \in 1 .. Len(p) : SubSeq(p, 1, i - 1) \in Places
    BY <2>1, FirstTurns
  <2> QED BY <2>1, <2>2, IsASeq DEF Path
<1> DEFINE l == Path(p)
           m == Append(l, p)
<1> HIDE DEF l
<1>3. l \in Seq(Places) /\ Len(l) \in Nat
  BY <1>2 DEF l
<1>4. /\ m \in Seq(Places) /\ Len(m) = Len(l) + 1 /\ m[Len(l) + 1] = p
      /\ \A i \in 1 .. Len(l) : m[i] = l[i]
  BY <1>3, AppendProperties
<1> HIDE DEF m
<1>5. Last(m) = p /\ m # <<>>
  BY <1>3, <1>4 DEF Last
<1>6. Front(m) = l
  <2>1. Front(m) = SubSeq(m, 1, Len(l))
    BY <1>3, <1>4 DEF Front
  <2>2. SubSeq(m, 1, Len(l)) \in Seq(Places) /\ Len(SubSeq(m, 1, Len(l))) = Len(l)
    BY <1>3, <1>4
  <2>3. \A i \in 1 .. Len(l) : SubSeq(m, 1, Len(l))[i] = l[i]
    BY <1>3, <1>4
  <2> QED BY <2>1, <2>2, <2>3, <1>3, SeqEqual
<1> QED
  BY <1>1, <1>5, <1>6 DEF m, l

\* Between a place and one below it lies a child of the former.
LEMMA WayDown ==
    ASSUME NEW p \in Places, NEW q \in Places, Above(p, q), p # q
    PROVE  \E b \in {0, 1} : Above(Append(p, b), q)
<1>1. Len(p) \in Nat /\ Len(q) \in Nat /\ Len(p) < Len(q)
  BY AboveSame DEF Above, Places
<1>2. q[Len(p) + 1] \in {0, 1}
  BY <1>1 DEF Places
<1>3. /\ Len(Append(p, q[Len(p) + 1])) = Len(p) + 1
      /\ Append(p, q[Len(p) + 1])[Len(p) + 1] = q[Len(p) + 1]
      /\ \A i \in 1 .. Len(p) : Append(p, q[Len(p) + 1])[i] = p[i]
  BY <1>1, <1>2, AppendProperties DEF Places
<1>4. Above(Append(p, q[Len(p) + 1]), q)
  BY <1>1, <1>3 DEF Above
<1> QED
  BY <1>2, <1>4

\* No place lies on both sides of another.
LEMMA OneSide ==
    ASSUME NEW p \in Places, NEW q \in Places, Above(Left(p), q), Above(Right(p), q)
    PROVE  FALSE
<1>1. Len(p) \in Nat
  BY DEF Places
<1>2. /\ Left(p)[Len(p) + 1] = 0 /\ Len(Left(p)) = Len(p) + 1
      /\ Right(p)[Len(p) + 1] = 1 /\ Len(Right(p)) = Len(p) + 1
  BY AppendProperties DEF Places, Left, Right
<1> QED
  BY <1>1, <1>2 DEF Above

\* The children of a place.
LEMMA Children ==
    ASSUME NEW p \in Places
    PROVE  /\ Left(p) \in Places /\ Left(p) # Root /\ Left(p) # p
           /\ Right(p) \in Places /\ Right(p) # Root /\ Right(p) # p
           /\ Left(p) # Right(p) /\ Above(p, Left(p)) /\ Above(p, Right(p))
           /\ \A q \in Places : /\ Left(p) = Left(q) => p = q
                                /\ Right(p) = Right(q) => p = q
                                /\ Left(p) # Right(q)
<1>1. \A q \in Places : /\ Left(q) \in Places /\ Left(q) # Root /\ Len(Left(q)) = Len(q) + 1
                        /\ Front(Left(q)) = q /\ Last(Left(q)) = 0
                        /\ Right(q) \in Places /\ Right(q) # Root /\ Len(Right(q)) = Len(q) + 1
                        /\ Front(Right(q)) = q /\ Last(Right(q)) = 1
  BY ChildIs DEF Left, Right
<1>2. Above(p, Left(p)) /\ Above(p, Right(p))
  BY AboveSelf, AboveChild DEF Left, Right
<1>3. Len(p) \in Nat
  BY DEF Places
<1>4. Left(p) # p /\ Right(p) # p
  BY <1>1, <1>3
<1>5. \A q \in Places : /\ Left(p) = Left(q) => p = q
                        /\ Right(p) = Right(q) => p = q
                        /\ Left(p) # Right(q)
  BY <1>1
<1> QED
  BY <1>1, <1>2, <1>4, <1>5

-------------------------------------------------------------------------------
\* Trees.

Operations == Leaf \cup Unary \cup Binary

NodeFields == {"ldone", "rdone", "left", "right", "lresult", "rresult", "operation",
               "command", "target", "argument"}

\* A tree: what is above a node is in it, and its pointers say which children are.
Tree(ns) ==
    /\ DOMAIN ns \subseteq Places /\ IsFiniteSet(DOMAIN ns) /\ Root \in DOMAIN ns
    /\ \A p \in DOMAIN ns, q \in Places : Above(q, p) => q \in DOMAIN ns
    /\ \A p \in DOMAIN ns : /\ NodeFields \subseteq DOMAIN ns[p]
                            /\ ns[p].left <=> Left(p) \in DOMAIN ns
                            /\ ns[p].right <=> Right(p) \in DOMAIN ns

\* A node that has not been read, and one that has: the parser has been to its left, if
\* it has one, and knows which sides it has.
Fresh(n) == ~n.left /\ ~n.right /\ ~n.ldone /\ ~n.rdone
Entered(n) ==
    \/ n.operation \in Leaf /\ Fresh(n)
    \/ n.operation \in Unary /\ n.left /\ ~n.right /\ n.ldone /\ n.rdone
    \/ n.operation \in Binary /\ n.left /\ n.right /\ n.ldone

\* The nodes that the parser has been to are those that are not to the right of a node
\* whose right side is open; it is to the left of each of these.
Awaits(ns, p) == \E q \in DOMAIN ns : RightOpen(ns, q) /\ p = Right(q)
Walked(ns, c) ==
    /\ Tree(ns)
    /\ c \in DOMAIN ns
    /\ \A p \in DOMAIN ns : RightOpen(ns, p) => /\ Above(Left(p), c)
                                                /\ Fresh(ns[Right(p)])
    /\ \A p \in DOMAIN ns : p # c => Awaits(ns, p) \/ Entered(ns[p])

\* The operations of one kind are of no other.
LEMMA Kinds ==
    /\ Leaf \cap Unary = {} /\ Leaf \cap Binary = {} /\ Unary \cap Binary = {}
BY DEF Leaf, Unary, Binary

\* Above the cursor every node has been read and is an operation.
LEMMA AboveCursor ==
    ASSUME NEW ns, NEW c, Walked(ns, c), NEW q \in Places, Above(q, c), q # c
    PROVE  /\ q \in DOMAIN ns /\ Entered(ns[q])
           /\ ns[q].operation \notin Leaf /\ ns[q].ldone
           /\ ~Done(ns, q) => RightOpen(ns, q)
<1>1. c \in Places /\ q \in DOMAIN ns /\ c \in DOMAIN ns
  BY DEF Walked, Tree
<1>2. ~Awaits(ns, q)
  <2> SUFFICES ASSUME NEW p \in DOMAIN ns, RightOpen(ns, p), q = Right(p)
               PROVE  FALSE
    BY DEF Awaits
  <2>1. p \in Places /\ Above(Left(p), c) /\ Above(Right(p), c)
    BY DEF Walked, Tree
  <2> QED BY <2>1, <1>1, OneSide
<1>3. Entered(ns[q])
  BY <1>1, <1>2 DEF Walked
<1>4. ns[q].left \/ ns[q].right
  <2>1. PICK b \in {0, 1} : Above(Append(q, b), c)
    BY <1>1, WayDown
  <2>2. Append(q, b) \in DOMAIN ns
    BY <1>1, <2>1, ChildIs DEF Walked, Tree
  <2>3. Left(q) \in DOMAIN ns \/ Right(q) \in DOMAIN ns
    BY <2>2 DEF Left, Right
  <2> QED BY <2>3, <1>1 DEF Walked, Tree
<1> QED
  BY <1>1, <1>3, <1>4, Kinds DEF Entered, Fresh, Done, RightOpen

\* A node whose right side is open is above the cursor.
LEMMA OpenAbove ==
    ASSUME NEW ns, NEW c, Walked(ns, c), NEW p \in DOMAIN ns, RightOpen(ns, p)
    PROVE  p \in Places /\ Above(p, c) /\ p # c /\ Above(Left(p), c) /\ ~Done(ns, p)
<1>1. p \in Places /\ c \in Places /\ Above(Left(p), c)
  BY DEF Walked, Tree
<1>2. Left(p) \in Places /\ Above(p, Left(p)) /\ Left(p) # p
  BY <1>1, Children
<1>3. Above(p, c)
  BY <1>1, <1>2, AboveTrans
<1>4. p # c
  <2> SUFFICES ASSUME p = c PROVE FALSE
    OBVIOUS
  <2>1. Len(Left(p)) = Len(p) + 1 /\ Len(p) \in Nat
    BY <1>1, ChildIs DEF Left, Places
  <2> QED BY <2>1, <1>1 DEF Above
<1> QED
  BY <1>1, <1>3, <1>4 DEF Done, RightOpen

-------------------------------------------------------------------------------
\* Parsing.

\* A node is read.
ReadInto(ns, p, r) ==
    [ns EXCEPT ![p].operation = r.operation, ![p].command = r.command,
               ![p].target = r.target, ![p].argument = r.given]

\* Reading a node leaves its children and its marks, and the other nodes, as they were.
LEMMA NodeRead ==
    ASSUME NEW ns, NEW p \in DOMAIN ns, NEW r, NodeFields \subseteq DOMAIN ns[p]
    PROVE  LET read == ReadInto(ns, p, r) IN
           /\ DOMAIN read = DOMAIN ns
           /\ \A q \in DOMAIN ns : q # p => read[q] = ns[q]
           /\ DOMAIN read[p] = DOMAIN ns[p] /\ read[p].operation = r.operation
           /\ read[p].left = ns[p].left /\ read[p].right = ns[p].right
           /\ read[p].ldone = ns[p].ldone /\ read[p].rdone = ns[p].rdone
BY DEF ReadInto, NodeFields

\* A new node.
LEMMA NewNode ==
    ASSUME NEW s
    PROVE  Fresh(new_parse_node(s)) /\ NodeFields \subseteq DOMAIN new_parse_node(s)
BY DEF Fresh, new_parse_node, NodeFields

\* A set of places with a child of one of them.
LEMMA TreeGrows ==
    ASSUME NEW ns, NEW ms, NEW c \in DOMAIN ns, Tree(ns), NEW T \in SUBSET {Left(c), Right(c)},
           DOMAIN ms = DOMAIN ns \cup T
    PROVE  /\ DOMAIN ms \subseteq Places /\ IsFiniteSet(DOMAIN ms) /\ Root \in DOMAIN ms
           /\ \A p \in DOMAIN ms, q \in Places : Above(q, p) => q \in DOMAIN ms
<1>1. c \in Places /\ DOMAIN ns \subseteq Places /\ IsFiniteSet(DOMAIN ns) /\ Root \in DOMAIN ns
  BY DEF Tree
<1>2. Left(c) \in Places /\ Right(c) \in Places
  BY <1>1, Children
<1>3. IsFiniteSet(T)
  <2>1. IsFiniteSet({Left(c), Right(c)})
    <3>1. IsFiniteSet({Left(c)}) /\ {Left(c), Right(c)} = {Left(c)} \cup {Right(c)}
      BY FS_Singleton
    <3> QED BY <3>1, FS_AddElement
  <2> QED BY <2>1, FS_Subset
<1>4. IsFiniteSet(DOMAIN ms)
  BY <1>1, <1>3, FS_Union
<1>5. ASSUME NEW p \in DOMAIN ms, NEW q \in Places, Above(q, p)
      PROVE  q \in DOMAIN ms
  <2>1. CASE p \in DOMAIN ns
    BY <2>1, <1>5 DEF Tree
  <2>2. CASE p \in T
    <3>1. Above(q, c) \/ q = p
      BY <2>2, <1>1, <1>5, AboveChild DEF Left, Right
    <3> QED BY <3>1, <1>5, <1>1 DEF Tree
  <2> QED BY <2>1, <2>2, <1>5
<1> QED
  BY <1>1, <1>2, <1>4, <1>5

\* A node with one operand or two is read, gets its children, and its left one is next.
LEMMA GrowsLeft ==
    ASSUME NEW ns, NEW c, Walked(ns, c), Fresh(ns[c]),
           NEW r, r.operation \in Unary \cup Binary
    PROVE  LET ms == GoLeft(Grown(ns, c, r), c).nodes IN
           /\ DOMAIN ms = DOMAIN ns \cup {Left(c)} \cup
                              (IF r.operation \in Binary THEN {Right(c)} ELSE {})
           /\ \A p \in DOMAIN ns : p # c => ms[p] = ns[p]
           /\ ms[c].operation = r.operation /\ NodeFields \subseteq DOMAIN ms[c]
           /\ ms[c].left /\ ms[c].ldone
           /\ r.operation \in Unary => ~ms[c].right /\ ms[c].rdone
           /\ r.operation \in Binary => ms[c].right /\ ~ms[c].rdone
           /\ Fresh(ms[Left(c)]) /\ NodeFields \subseteq DOMAIN ms[Left(c)]
           /\ r.operation \in Binary => /\ Fresh(ms[Right(c)])
                                        /\ NodeFields \subseteq DOMAIN ms[Right(c)]
           /\ LeftOpen(Grown(ns, c, r), c)
<1> DEFINE read == ReadInto(ns, c, r)
           l == new_parse_node(r.operands[1])
           k == new_parse_node(r.operands[2])
           g == Grown(ns, c, r)
<1>1. /\ c \in DOMAIN ns /\ c \in Places /\ NodeFields \subseteq DOMAIN ns[c]
      /\ Left(c) \notin DOMAIN ns /\ Right(c) \notin DOMAIN ns
      /\ Left(c) # c /\ Right(c) # c /\ Left(c) # Right(c)
  <2>1. c \in DOMAIN ns /\ c \in Places
    BY DEF Walked, Tree
  <2> QED BY <2>1, Children DEF Walked, Tree, Fresh
<1>2. /\ DOMAIN read = DOMAIN ns
      /\ \A q \in DOMAIN ns : q # c => read[q] = ns[q]
      /\ DOMAIN read[c] = DOMAIN ns[c] /\ read[c].operation = r.operation
      /\ ~read[c].left /\ ~read[c].right /\ ~read[c].ldone /\ ~read[c].rdone
  BY <1>1, NodeRead DEF Fresh
<1>3. Fresh(l) /\ NodeFields \subseteq DOMAIN l /\ Fresh(k) /\ NodeFields \subseteq DOMAIN k
  BY NewNode
<1> HIDE DEF l, k
<1>4. r.operation \in Unary =>
        g = With([read EXCEPT ![c].left = TRUE, ![c].rdone = TRUE], Left(c), l)
  BY Kinds DEF Grown, ReadInto, l
<1>5. r.operation \in Binary =>
        g = With(With([read EXCEPT ![c].left = TRUE, ![c].right = TRUE], Left(c), l),
                 Right(c), k)
  BY Kinds DEF Grown, ReadInto, l, k
<1> HIDE DEF read, g
<1>6. GoLeft(g, c).nodes = [g EXCEPT ![c].ldone = TRUE]
  BY DEF GoLeft, At
<1> DEFINE ms == GoLeft(g, c).nodes
<1>7. CASE r.operation \in Unary
  <2> DEFINE f == [read EXCEPT ![c].left = TRUE, ![c].rdone = TRUE]
  <2>1. /\ DOMAIN f = DOMAIN ns
        /\ \A q \in DOMAIN ns : q # c => f[q] = ns[q]
        /\ DOMAIN f[c] = DOMAIN ns[c] /\ f[c].operation = r.operation
        /\ f[c].left /\ ~f[c].right /\ ~f[c].ldone /\ f[c].rdone
    BY <1>1, <1>2 DEF NodeFields
  <2> HIDE DEF f
  <2>2. /\ DOMAIN g = DOMAIN ns \cup {Left(c)}
        /\ \A q \in DOMAIN ns : g[q] = f[q]
        /\ g[Left(c)] = l
    <3>1. g = With(f, Left(c), l)
      BY <1>4, <1>7 DEF f
    <3> QED BY <3>1, <2>1, <1>1 DEF With
  <2>3. LeftOpen(g, c)
    BY <2>1, <2>2, <1>1 DEF LeftOpen
  <2>4. /\ DOMAIN ms = DOMAIN g
        /\ \A q \in DOMAIN g : q # c => ms[q] = g[q]
        /\ DOMAIN ms[c] = DOMAIN g[c] /\ ms[c].ldone
        /\ ms[c].left = g[c].left /\ ms[c].right = g[c].right /\ ms[c].rdone = g[c].rdone
        /\ ms[c].operation = g[c].operation
    BY <1>6, <2>1, <2>2, <1>1 DEF NodeFields
  <2> HIDE DEF ms
  <2>5. r.operation \notin Binary
    BY <1>7, Kinds
  <2> QED BY <2>1, <2>2, <2>3, <2>4, <2>5, <1>1, <1>3 DEF ms, g
<1>8. CASE r.operation \in Binary
  <2> DEFINE f == [read EXCEPT ![c].left = TRUE, ![c].right = TRUE]
  <2>1. /\ DOMAIN f = DOMAIN ns
        /\ \A q \in DOMAIN ns : q # c => f[q] = ns[q]
        /\ DOMAIN f[c] = DOMAIN ns[c] /\ f[c].operation = r.operation
        /\ f[c].left /\ f[c].right /\ ~f[c].ldone /\ ~f[c].rdone
    BY <1>1, <1>2 DEF NodeFields
  <2> HIDE DEF f
  <2>2. /\ DOMAIN g = DOMAIN ns \cup {Left(c)} \cup {Right(c)}
        /\ \A q \in DOMAIN ns : g[q] = f[q]
        /\ g[Left(c)] = l /\ g[Right(c)] = k
    <3>1. g = With(With(f, Left(c), l), Right(c), k)
      BY <1>5, <1>8 DEF f
    <3> QED BY <3>1, <2>1, <1>1 DEF With
  <2>3. LeftOpen(g, c)
    BY <2>1, <2>2, <1>1 DEF LeftOpen
  <2>4. /\ DOMAIN ms = DOMAIN g
        /\ \A q \in DOMAIN g : q # c => ms[q] = g[q]
        /\ DOMAIN ms[c] = DOMAIN g[c] /\ ms[c].ldone
        /\ ms[c].left = g[c].left /\ ms[c].right = g[c].right /\ ms[c].rdone = g[c].rdone
        /\ ms[c].operation = g[c].operation
    BY <1>6, <2>1, <2>2, <1>1 DEF NodeFields
  <2> HIDE DEF ms
  <2>5. r.operation \notin Unary
    BY <1>8, Kinds
  <2> QED BY <2>1, <2>2, <2>3, <2>4, <2>5, <1>1, <1>3, <1>8 DEF ms, g
<1> QED
  BY <1>7, <1>8

\* The nodes that have been read while the cursor is at a node that has not.
Visited(ns, c) == {p \in DOMAIN ns : p # c /\ ~Awaits(ns, p)}

\* The cursor awaits no other node's right side.
LEMMA CursorIsOpen ==
    ASSUME NEW ns, NEW c, Walked(ns, c)
    PROVE  ~Awaits(ns, c)
<1> SUFFICES ASSUME NEW q \in DOMAIN ns, RightOpen(ns, q), c = Right(q)
             PROVE  FALSE
  BY DEF Awaits
<1>1. q \in Places /\ c \in Places /\ Above(Left(q), c)
  BY DEF Walked, Tree
<1> QED
  BY <1>1, AboveSelf, OneSide

\* On to the left operand of a node.
LEMMA WalkedLeft ==
    ASSUME NEW ns, NEW c, Walked(ns, c), Fresh(ns[c]),
           NEW r, r.operation \in Unary \cup Binary
    PROVE  LET ms == GoLeft(Grown(ns, c, r), c).nodes IN
           /\ Walked(ms, Left(c)) /\ Fresh(ms[Left(c)])
           /\ Visited(ms, Left(c)) = Visited(ns, c) \cup {c}
           /\ LeftOpen(Grown(ns, c, r), c)
<1> DEFINE ms == GoLeft(Grown(ns, c, r), c).nodes
           T == {Left(c)} \cup (IF r.operation \in Binary THEN {Right(c)} ELSE {})
<1>1. /\ DOMAIN ms = DOMAIN ns \cup T
      /\ \A p \in DOMAIN ns : p # c => ms[p] = ns[p]
      /\ ms[c].operation = r.operation /\ NodeFields \subseteq DOMAIN ms[c]
      /\ ms[c].left /\ ms[c].ldone
      /\ r.operation \in Unary => ~ms[c].right /\ ms[c].rdone
      /\ r.operation \in Binary => ms[c].right /\ ~ms[c].rdone
      /\ Fresh(ms[Left(c)]) /\ NodeFields \subseteq DOMAIN ms[Left(c)]
      /\ r.operation \in Binary => /\ Fresh(ms[Right(c)])
                                   /\ NodeFields \subseteq DOMAIN ms[Right(c)]
      /\ LeftOpen(Grown(ns, c, r), c)
  <2>1. DOMAIN ns \cup T = DOMAIN ns \cup {Left(c)} \cup
                              (IF r.operation \in Binary THEN {Right(c)} ELSE {})
    OBVIOUS
  <2> QED BY <2>1, GrowsLeft
<1> HIDE DEF ms
<1>2. /\ c \in DOMAIN ns /\ c \in Places /\ DOMAIN ns \subseteq Places
      /\ Left(c) \notin DOMAIN ns /\ Right(c) \notin DOMAIN ns
  BY DEF Walked, Tree, Fresh
<1>3. /\ Left(c) \in Places /\ Right(c) \in Places /\ Left(c) # Right(c)
      /\ Left(c) # c /\ Right(c) # c
  BY <1>2, Children
<1>4. /\ DOMAIN ms \subseteq Places /\ IsFiniteSet(DOMAIN ms) /\ Root \in DOMAIN ms
      /\ \A p \in DOMAIN ms, q \in Places : Above(q, p) => q \in DOMAIN ms
  <2>1. T \in SUBSET {Left(c), Right(c)} /\ Tree(ns)
    BY DEF Walked
  <2> HIDE DEF T
  <2> QED BY <1>1, <1>2, <2>1, TreeGrows
<1>5. \A p \in DOMAIN ns : /\ p # c => Left(p) # Left(c) /\ Right(p) # Right(c)
                           /\ Left(p) # Right(c) /\ Right(p) # Left(c)
  BY <1>2, Children
<1>6. \A p \in T : Left(p) \notin DOMAIN ms /\ Right(p) \notin DOMAIN ms
  <2> SUFFICES ASSUME NEW p \in T, NEW b \in {0, 1}, Append(p, b) \in DOMAIN ms
               PROVE  FALSE
    BY DEF Left, Right
  <2>1. p \in {Left(c), Right(c)} /\ p \in Places /\ p \notin DOMAIN ns
    BY <1>2, <1>3
  <2>2. Append(p, b) \notin DOMAIN ns
    <3>1. Above(p, Append(p, b))
      BY <2>1, AboveSelf, AboveChild
    <3> QED BY <3>1, <2>1 DEF Walked, Tree
  <2>3. Len(Append(p, b)) = Len(c) + 2 /\ Len(Left(c)) = Len(c) + 1
        /\ Len(Right(c)) = Len(c) + 1 /\ Len(c) \in Nat
    BY <2>1, <1>2, ChildIs DEF Left, Right, Places
  <2> QED BY <2>2, <2>3, <1>1
<1>7. \A p \in DOMAIN ms : /\ NodeFields \subseteq DOMAIN ms[p]
                           /\ ms[p].left <=> Left(p) \in DOMAIN ms
                           /\ ms[p].right <=> Right(p) \in DOMAIN ms
  <2> SUFFICES ASSUME NEW p \in DOMAIN ms
               PROVE  /\ NodeFields \subseteq DOMAIN ms[p]
                      /\ ms[p].left <=> Left(p) \in DOMAIN ms
                      /\ ms[p].right <=> Right(p) \in DOMAIN ms
    OBVIOUS
  <2>1. CASE p \in DOMAIN ns /\ p # c
    BY <2>1, <1>1, <1>5 DEF Walked, Tree
  <2>2. CASE p = c
    BY <2>2, <1>1, <1>2, <1>3, Kinds
  <2>3. CASE p \in T
    <3>1. Fresh(ms[p]) /\ NodeFields \subseteq DOMAIN ms[p]
      BY <2>3, <1>1
    <3> QED BY <3>1, <2>3, <1>6 DEF Fresh
  <2> QED BY <2>1, <2>2, <2>3, <1>1
<1>8. \A p \in DOMAIN ms : RightOpen(ms, p) <=>
          (p \in DOMAIN ns /\ p # c /\ RightOpen(ns, p)) \/ (p = c /\ r.operation \in Binary)
  <2> SUFFICES ASSUME NEW p \in DOMAIN ms
               PROVE  RightOpen(ms, p) <=>
                        (p \in DOMAIN ns /\ p # c /\ RightOpen(ns, p))
                        \/ (p = c /\ r.operation \in Binary)
    OBVIOUS
  <2>1. CASE p \in DOMAIN ns /\ p # c
    BY <2>1, <1>1 DEF RightOpen
  <2>2. CASE p = c
    BY <2>2, <1>1, Kinds DEF RightOpen
  <2>3. CASE p \in T
    <3>1. Fresh(ms[p]) /\ p \notin DOMAIN ns /\ p # c
      BY <2>3, <1>1, <1>2, <1>3
    <3> QED BY <3>1 DEF Fresh, RightOpen
  <2> QED BY <2>1, <2>2, <2>3, <1>1
<1>9. ~RightOpen(ns, c)
  BY DEF Fresh, RightOpen
<1>10. \A p \in DOMAIN ms : RightOpen(ms, p) => /\ Above(Left(p), Left(c))
                                                /\ Fresh(ms[Right(p)])
  <2> SUFFICES ASSUME NEW p \in DOMAIN ms, RightOpen(ms, p)
               PROVE  Above(Left(p), Left(c)) /\ Fresh(ms[Right(p)])
    OBVIOUS
  <2>1. CASE p \in DOMAIN ns /\ p # c /\ RightOpen(ns, p)
    <3>1. Above(Left(p), c) /\ Fresh(ns[Right(p)]) /\ Right(p) \in DOMAIN ns
      BY <2>1 DEF Walked, Tree, RightOpen
    <3>2. Right(p) # c
      BY <2>1, CursorIsOpen DEF Awaits
    <3>3. Left(p) \in Places
      BY <2>1, <1>2, Children
    <3>4. Above(Left(p), Left(c))
      BY <3>1, <3>3, <1>2, AboveChild DEF Left
    <3> QED BY <3>1, <3>2, <3>4, <1>1
  <2>2. CASE p = c /\ r.operation \in Binary
    BY <2>2, <1>1, <1>3, AboveSelf
  <2> QED BY <2>1, <2>2, <1>8
<1>11. \A p \in DOMAIN ns : Awaits(ms, p) <=> Awaits(ns, p)
  <2> SUFFICES ASSUME NEW p \in DOMAIN ns
               PROVE  Awaits(ms, p) <=> Awaits(ns, p)
    OBVIOUS
  <2>1. p # Right(c)
    BY <1>2
  <2> QED BY <2>1, <1>1, <1>8, <1>9 DEF Awaits
<1>12. r.operation \in Binary => Awaits(ms, Right(c))
  BY <1>1, <1>2, <1>8 DEF Awaits
<1>13. Entered(ms[c])
  BY <1>1 DEF Entered
<1>14. \A p \in DOMAIN ms : p # Left(c) => Awaits(ms, p) \/ Entered(ms[p])
  <2> SUFFICES ASSUME NEW p \in DOMAIN ms, p # Left(c)
               PROVE  Awaits(ms, p) \/ Entered(ms[p])
    OBVIOUS
  <2>1. CASE p \in DOMAIN ns /\ p # c
    BY <2>1, <1>1, <1>11 DEF Walked
  <2> QED BY <2>1, <1>1, <1>12, <1>13
<1>15. Walked(ms, Left(c))
  <2>1. Left(c) \in DOMAIN ms
    BY <1>1
  <2> QED BY <2>1, <1>4, <1>7, <1>10, <1>14 DEF Walked, Tree
<1>16. Visited(ms, Left(c)) = Visited(ns, c) \cup {c}
  <2>1. ~Awaits(ns, c)
    BY CursorIsOpen
  <2>2. \A p \in DOMAIN ns : p # Left(c)
    BY <1>2
  <2> QED BY <2>1, <2>2, <1>1, <1>2, <1>11, <1>12 DEF Visited
<1> QED
  BY <1>1, <1>15, <1>16 DEF ms

\* A set of natural numbers has a smallest element.
LEMMA SmallestOf ==
    ASSUME NEW T \in SUBSET Nat, T # {}
    PROVE  \E n \in T : \A m \in T : n <= m
<1>1. PICK n \in T : \A m \in T : ~(<<m, n>> \in OpToRel(<, Nat))
  BY NatLessThanWellFounded, WFMin
<1>2. \A m \in T : ~(m < n)
  BY <1>1 DEF OpToRel
<1> QED
  BY <1>2

\* The name of a relation is read: nothing is done, and the node has no children.
LEMMA LeafRead ==
    ASSUME NEW ns, NEW c, Walked(ns, c), Fresh(ns[c]), NEW r, r.operation \in Leaf
    PROVE  LET g == Grown(ns, c, r) IN
           /\ Walked(g, c) /\ Entered(g[c]) /\ DOMAIN g = DOMAIN ns
           /\ g[c].operation \in Leaf /\ Visited(g, c) = Visited(ns, c)
<1> DEFINE g == Grown(ns, c, r)
<1>1. c \in DOMAIN ns /\ NodeFields \subseteq DOMAIN ns[c]
  BY DEF Walked, Tree
<1>2. g = ReadInto(ns, c, r)
  BY Kinds DEF Grown, ReadInto
<1>3. /\ DOMAIN g = DOMAIN ns
      /\ \A q \in DOMAIN ns : q # c => g[q] = ns[q]
      /\ DOMAIN g[c] = DOMAIN ns[c] /\ g[c].operation = r.operation
      /\ ~g[c].left /\ ~g[c].right /\ ~g[c].ldone /\ ~g[c].rdone
  BY <1>1, <1>2, NodeRead DEF Fresh
<1> HIDE DEF g
<1>4. \A q \in DOMAIN ns : RightOpen(g, q) <=> RightOpen(ns, q)
  BY <1>1, <1>3 DEF RightOpen, Fresh
<1>5. \A q \in DOMAIN ns : Awaits(g, q) <=> Awaits(ns, q)
  BY <1>3, <1>4 DEF Awaits
<1>6. Tree(g)
  <2>1. \A p \in DOMAIN g : /\ NodeFields \subseteq DOMAIN g[p]
                            /\ g[p].left <=> Left(p) \in DOMAIN g
                            /\ g[p].right <=> Right(p) \in DOMAIN g
    BY <1>1, <1>3 DEF Walked, Tree, Fresh
  <2> QED BY <2>1, <1>3 DEF Walked, Tree
<1>7. \A p \in DOMAIN g : RightOpen(g, p) => Above(Left(p), c) /\ Fresh(g[Right(p)])
  <2> SUFFICES ASSUME NEW p \in DOMAIN g, RightOpen(g, p)
               PROVE  Above(Left(p), c) /\ Fresh(g[Right(p)])
    OBVIOUS
  <2>1. p \in DOMAIN ns /\ RightOpen(ns, p) /\ Right(p) \in DOMAIN ns
    BY <1>3, <1>4 DEF Walked, Tree, RightOpen
  <2>2. Right(p) # c
    BY <2>1, CursorIsOpen DEF Awaits
  <2> QED BY <2>1, <2>2, <1>3 DEF Walked
<1>8. \A p \in DOMAIN g : p # c => Awaits(g, p) \/ Entered(g[p])
  BY <1>3, <1>5 DEF Walked
<1>9. Entered(g[c])
  BY <1>3 DEF Entered, Fresh
<1>10. Visited(g, c) = Visited(ns, c)
  BY <1>3, <1>5 DEF Visited
<1> QED
  BY <1>1, <1>3, <1>6, <1>7, <1>8, <1>9, <1>10 DEF g, Walked

\* Where the parser climbs to from a node with nothing left to do: all that is still to
\* be done is there or above.
LEMMA ClimbedTo ==
    ASSUME NEW ns, NEW c, Walked(ns, c), c # Root
    PROVE  LET up == Climbed(ns, c) IN
           /\ up \in Places /\ Above(up, c) /\ up # c
           /\ up = Root \/ ~Done(ns, up)
           /\ \A p \in DOMAIN ns : RightOpen(ns, p) => Above(p, up)
<1> DEFINE open == {n \in 0 .. (Len(c) - 1) : n = 0 \/ ~Done(ns, SubSeq(c, 1, n))}
           T == {Len(c) - n : n \in open}
<1>1. c \in Places /\ Len(c) \in Nat /\ Len(c) # 0
  BY DEF Walked, Tree, Places, Root
<1>2. T \in SUBSET Nat /\ T # {}
  <2>1. 0 \in open
    BY <1>1
  <2> QED BY <2>1, <1>1
<1>3. PICK k \in T : \A m \in T : k <= m
  BY <1>2, SmallestOf
<1>4. PICK n \in open : k = Len(c) - n
  BY <1>3
<1>5. \A m \in open : m <= n
  <2> SUFFICES ASSUME NEW m \in open PROVE m <= n
    OBVIOUS
  <2>1. Len(c) - n <= Len(c) - m
    BY <1>3, <1>4
  <2>2. m \in Nat /\ n \in Nat
    BY <1>1
  <2> QED BY <2>1, <2>2, <1>1
<1> DEFINE top == CHOOSE n0 \in open : \A m \in open : m <= n0
           up == SubSeq(c, 1, top)
<1>6. top \in open /\ \A m \in open : m <= top
  BY <1>5
<1>7. Climbed(ns, c) = up
  BY DEF Climbed
<1> HIDE DEF top, T
<1>8. top \in 0 .. Len(c) /\ top < Len(c) /\ (top = 0 \/ ~Done(ns, up))
  BY <1>1, <1>6
<1>9. up \in Places /\ Len(up) = top /\ Above(up, c) /\ up # c
  BY <1>1, <1>8, FirstTurns
<1>10. up = Root \/ ~Done(ns, up)
  <2>1. top = 0 => up = Root
    BY <1>9 DEF Root, Places
  <2> QED BY <2>1, <1>8
<1>11. ASSUME NEW p \in DOMAIN ns, RightOpen(ns, p)
       PROVE  Above(p, up)
  <2>1. p \in Places /\ Above(p, c) /\ p # c /\ ~Done(ns, p)
    BY <1>11, OpenAbove
  <2>2. Len(p) \in 0 .. (Len(c) - 1)
    BY <2>1, <1>1, AboveSame DEF Above, Places
  <2>3. SubSeq(c, 1, Len(p)) = p
    <3>1. Len(p) \in 0 .. Len(c)
      BY <2>2, <1>1
    <3>2. /\ SubSeq(c, 1, Len(p)) \in Places /\ Len(SubSeq(c, 1, Len(p))) = Len(p)
          /\ Above(SubSeq(c, 1, Len(p)), c)
      BY <3>1, <1>1, FirstTurns
    <3>3. Len(p) <= Len(SubSeq(c, 1, Len(p)))
      BY <3>1, <3>2
    <3> QED BY <3>2, <3>3, <2>1, <1>1, AboveOrder, AboveSame
  <2>4. Len(p) <= top
    BY <2>1, <2>2, <2>3, <1>6
  <2> QED BY <2>1, <2>4, <1>1, <1>9, AboveOrder
<1> QED
  BY <1>7, <1>9, <1>10, <1>11

\* On to the right operand of the lowest node that has one to be done.
LEMMA WalkedRight ==
    ASSUME NEW ns, NEW c, Walked(ns, c), Entered(ns[c]),
           NEW u \in DOMAIN ns, RightOpen(ns, u),
           \A p \in DOMAIN ns : RightOpen(ns, p) => Above(p, u)
    PROVE  LET ms == GoRight(ns, u).nodes IN
           /\ Walked(ms, Right(u)) /\ Fresh(ms[Right(u)])
           /\ Visited(ms, Right(u)) = Visited(ns, c) \cup {c}
<1> DEFINE ms == GoRight(ns, u).nodes
<1>1. /\ u \in Places /\ Right(u) \in DOMAIN ns /\ Right(u) # u /\ c \in DOMAIN ns
      /\ DOMAIN ns \subseteq Places /\ NodeFields \subseteq DOMAIN ns[u]
      /\ Fresh(ns[Right(u)])
  <2>1. u \in Places /\ Right(u) \in DOMAIN ns
    BY DEF Walked, Tree, RightOpen
  <2> QED BY <2>1, Children DEF Walked, Tree
<1>2. ms = [ns EXCEPT ![u].rdone = TRUE]
  BY DEF GoRight, At
<1>3. /\ DOMAIN ms = DOMAIN ns
      /\ \A q \in DOMAIN ns : q # u => ms[q] = ns[q]
      /\ DOMAIN ms[u] = DOMAIN ns[u] /\ ms[u].operation = ns[u].operation
      /\ ms[u].left = ns[u].left /\ ms[u].right = ns[u].right /\ ms[u].ldone = ns[u].ldone
      /\ ms[u].rdone
  BY <1>1, <1>2 DEF NodeFields
<1> HIDE DEF ms
<1>4. \A p \in DOMAIN ms : RightOpen(ms, p) <=> RightOpen(ns, p) /\ p # u
  BY <1>1, <1>3 DEF RightOpen
<1>5. Tree(ms)
  <2>1. \A p \in DOMAIN ms : /\ NodeFields \subseteq DOMAIN ms[p]
                             /\ ms[p].left <=> Left(p) \in DOMAIN ms
                             /\ ms[p].right <=> Right(p) \in DOMAIN ms
    BY <1>1, <1>3 DEF Walked, Tree
  <2> QED BY <2>1, <1>3 DEF Walked, Tree
<1>6. \A p \in DOMAIN ms : RightOpen(ms, p) => Above(Left(p), Right(u)) /\ Fresh(ms[Right(p)])
  <2> SUFFICES ASSUME NEW p \in DOMAIN ms, RightOpen(ms, p)
               PROVE  Above(Left(p), Right(u)) /\ Fresh(ms[Right(p)])
    OBVIOUS
  <2>1. p \in DOMAIN ns /\ RightOpen(ns, p) /\ p # u /\ p \in Places
    BY <1>1, <1>3, <1>4
  <2>2. Above(p, u) /\ Above(Left(p), c) /\ Fresh(ns[Right(p)])
    BY <2>1 DEF Walked
  <2>3. c \in Places /\ Above(u, c) /\ Left(p) \in Places
    BY <1>1, <2>1, Children, OpenAbove
  <2>4. Len(Left(p)) <= Len(u)
    <3>1. Len(Left(p)) = Len(p) + 1 /\ Len(p) < Len(u) /\ Len(u) \in Nat /\ Len(p) \in Nat
      BY <2>1, <2>2, <1>1, AboveSame, ChildIs DEF Above, Places, Left
    <3> QED BY <3>1
  <2>5. Above(Left(p), u)
    BY <2>2, <2>3, <2>4, <1>1, AboveOrder
  <2>6. Above(Left(p), Right(u))
    BY <2>3, <2>5, <1>1, AboveChild DEF Right
  <2>7. Right(p) # u
    <3>1. Above(Left(p), u)
      BY <2>5
    <3> QED BY <3>1, <2>1, <1>1, AboveSelf, OneSide
  <2>8. Right(p) \in DOMAIN ns
    BY <2>1 DEF Walked, Tree, RightOpen
  <2> QED BY <2>2, <2>6, <2>7, <2>8, <1>3
<1>7. \A p \in DOMAIN ns : Awaits(ms, p) <=> Awaits(ns, p) /\ p # Right(u)
  <2> SUFFICES ASSUME NEW p \in DOMAIN ns
               PROVE  Awaits(ms, p) <=> Awaits(ns, p) /\ p # Right(u)
    OBVIOUS
  <2>1. \A q \in DOMAIN ns : q # u => Right(q) # Right(u)
    BY <1>1, Children
  <2> QED BY <2>1, <1>3, <1>4 DEF Awaits
<1>8. u # c /\ ~Awaits(ns, u)
  <2>1. u # c /\ Above(u, c)
    BY OpenAbove
  <2>2. ~Awaits(ns, u)
    <3> SUFFICES ASSUME NEW q \in DOMAIN ns, RightOpen(ns, q), u = Right(q)
                 PROVE  FALSE
      BY DEF Awaits
    <3>1. Above(Left(q), c) /\ Above(Right(q), c) /\ q \in Places /\ c \in Places
      BY <2>1, <1>1 DEF Walked
    <3> QED BY <3>1, OneSide
  <2> QED BY <2>1, <2>2
<1>9. Entered(ms[u])
  <2>1. Entered(ns[u])
    BY <1>8 DEF Walked
  <2>2. ns[u].operation \in Binary /\ ns[u].left /\ ns[u].right /\ ns[u].ldone
    BY <2>1 DEF Entered, Fresh, RightOpen
  <2> QED BY <2>2, <1>3 DEF Entered
<1>10. \A p \in DOMAIN ms : p # Right(u) => Awaits(ms, p) \/ Entered(ms[p])
  <2> SUFFICES ASSUME NEW p \in DOMAIN ms, p # Right(u), ~Awaits(ms, p)
               PROVE  Entered(ms[p])
    OBVIOUS
  <2>1. ~Awaits(ns, p)
    BY <1>3, <1>7
  <2>2. Entered(ns[p])
    BY <2>1, <1>3 DEF Walked
  <2> QED BY <2>2, <1>3, <1>9
<1>11. Visited(ms, Right(u)) = Visited(ns, c) \cup {c}
  <2>1. Awaits(ns, Right(u)) /\ ~Awaits(ns, c)
    BY CursorIsOpen DEF Awaits
  <2> QED BY <2>1, <1>1, <1>3, <1>7 DEF Visited
<1>12. Fresh(ms[Right(u)])
  BY <1>1, <1>3
<1> QED
  BY <1>1, <1>3, <1>5, <1>6, <1>10, <1>11, <1>12 DEF ms, Walked

\* Nothing is open: every node has been read.
LEMMA AllEntered ==
    ASSUME NEW ns, NEW c, Walked(ns, c), Entered(ns[c]),
           \A p \in DOMAIN ns : ~RightOpen(ns, p)
    PROVE  /\ \A p \in DOMAIN ns : Entered(ns[p])
           /\ DOMAIN ns = Visited(ns, c) \cup {c}
BY DEF Walked, Awaits, Visited

\* Where a turn can lead: to another node that is to be read; to the root when all is
\* read; there, with its right operand still to do; or there, with nothing to do.
TurnedTo(ns, c, t) ==
    \/ /\ t.cursor # Root
       /\ Walked(t.nodes, t.cursor) /\ Fresh(t.nodes[t.cursor])
       /\ Visited(t.nodes, t.cursor) = Visited(ns, c) \cup {c}
    \/ /\ t.cursor = Root /\ Done(t.nodes, Root)
       /\ Tree(t.nodes) /\ \A p \in DOMAIN t.nodes : Entered(t.nodes[p])
       /\ DOMAIN t.nodes = Visited(ns, c) \cup {c}
    \/ /\ t.cursor = Root /\ ~Done(t.nodes, Root) /\ RightOpen(t.nodes, Root)
       /\ Walked(GoRight(t.nodes, Root).nodes, Right(Root))
       /\ Fresh(GoRight(t.nodes, Root).nodes[Right(Root)])
       /\ Visited(GoRight(t.nodes, Root).nodes, Right(Root)) = Visited(ns, c) \cup {c}
    \/ /\ t.cursor = Root /\ ~Done(t.nodes, Root) /\ ~RightOpen(t.nodes, Root)
       /\ c = Root

\* The parser turns so from a node it has read.
LEMMA Turned ==
    ASSUME NEW ns, NEW c, Walked(ns, c), Fresh(ns[c]), NEW r, r.operation \in Operations,
           NEW t, t = Turn(Grown(ns, c, r), c)
    PROVE  TurnedTo(ns, c, t)
<1> DEFINE g == Grown(ns, c, r)
<1>1. c \in Places /\ Root \in Places /\ c \in DOMAIN ns
  BY DEF Walked, Tree, Places, Root
<1>2. CASE r.operation \in Unary \cup Binary
  <2>1. t = GoLeft(g, c)
    BY <1>2, WalkedLeft DEF Turn
  <2>2. t.cursor = Left(c) /\ t.cursor # Root
    BY <2>1, <1>1, Children DEF GoLeft, At
  <2>3. t.nodes = GoLeft(Grown(ns, c, r), c).nodes
    BY <2>1
  <2> HIDE DEF g
  <2> DEFINE ms == GoLeft(Grown(ns, c, r), c).nodes
  <2>4. /\ Walked(ms, Left(c)) /\ Fresh(ms[Left(c)])
        /\ Visited(ms, Left(c)) = Visited(ns, c) \cup {c}
    BY <1>2, WalkedLeft
  <2>5. t.nodes = ms
    BY <2>3
  <2> HIDE DEF ms
  <2>6. /\ Walked(t.nodes, t.cursor) /\ Fresh(t.nodes[t.cursor])
        /\ Visited(t.nodes, t.cursor) = Visited(ns, c) \cup {c}
    BY <2>2, <2>4, <2>5
  <2> QED BY <2>2, <2>6 DEF TurnedTo
<1>3. CASE r.operation \in Leaf
  <2>1. /\ Walked(g, c) /\ Entered(g[c]) /\ g[c].operation \in Leaf /\ DOMAIN g = DOMAIN ns
        /\ Visited(g, c) = Visited(ns, c)
    BY <1>3, LeafRead
  <2>2. t = Turn(g, c)
    OBVIOUS
  <2> HIDE DEF g
  <2>3. ~LeftOpen(g, c) /\ ~RightOpen(g, c) /\ ~Done(g, c)
    BY <2>1, Kinds DEF Entered, Fresh, LeftOpen, RightOpen, Done
  <2>4. CASE c = Root
    <3>1. t = At(g, c)
      BY <2>2, <2>3, <2>4 DEF Turn
    <3> QED BY <3>1, <2>3, <2>4 DEF At, TurnedTo
  <2>5. CASE c # Root
    <3> DEFINE up == Climbed(g, c)
    <3>1. /\ up \in Places /\ Above(up, c) /\ up # c
          /\ up = Root \/ ~Done(g, up)
          /\ \A p \in DOMAIN g : RightOpen(g, p) => Above(p, up)
      BY <2>1, <2>5, ClimbedTo
    <3>2. t = IF up # Root /\ RightOpen(g, up) THEN GoRight(g, up) ELSE At(g, up)
      BY <2>2, <2>3, <2>5 DEF Turn
    <3> HIDE DEF up
    <3>3. up \in DOMAIN g /\ (~Done(g, up) => RightOpen(g, up))
      BY <2>1, <3>1, AboveCursor
    <3>4. CASE RightOpen(g, up)
      <4>1. LET ms == GoRight(g, up).nodes IN
            /\ Walked(ms, Right(up)) /\ Fresh(ms[Right(up)])
            /\ Visited(ms, Right(up)) = Visited(g, c) \cup {c}
        BY <2>1, <3>1, <3>3, <3>4, WalkedRight
      <4>2. CASE up # Root
        <5>1. t = GoRight(g, up) /\ t.cursor = Right(up) /\ t.cursor # Root
          BY <3>1, <3>2, <3>4, <4>2, Children DEF GoRight, At
        <5> QED BY <5>1, <4>1, <2>1 DEF TurnedTo
      <4>3. CASE up = Root
        <5>1. t.cursor = Root /\ t.nodes = g
          BY <3>2, <4>3 DEF At
        <5>2. ~Done(g, Root)
          BY <3>4, <4>3 DEF RightOpen, Done
        <5> QED BY <5>1, <5>2, <4>1, <4>3, <3>4, <2>1 DEF TurnedTo
      <4> QED BY <4>2, <4>3
    <3>5. CASE ~RightOpen(g, up)
      <4>1. Done(g, up) /\ up = Root
        BY <3>1, <3>3, <3>5
      <4>2. t.cursor = Root /\ t.nodes = g
        BY <3>2, <4>1 DEF At
      <4>3. \A p \in DOMAIN g : ~RightOpen(g, p)
        <5> SUFFICES ASSUME NEW p \in DOMAIN g, RightOpen(g, p) PROVE FALSE
          OBVIOUS
        <5>1. p \in Places /\ Above(p, Root) /\ p = Root
          <6>1. p \in Places /\ Above(p, Root)
            BY <2>1, <3>1, <4>1, OpenAbove
          <6>2. Above(Root, p) /\ Len(p) = Len(Root)
            BY <6>1 DEF Above, Root, Places
          <6> QED BY <6>1, <6>2, <1>1, AboveSame
        <5> QED BY <5>1, <3>5, <4>1
      <4>4. /\ \A p \in DOMAIN g : Entered(g[p])
            /\ DOMAIN g = Visited(g, c) \cup {c}
        BY <2>1, <4>3, AllEntered
      <4>5. Tree(g)
        BY <2>1 DEF Walked
      <4> QED BY <4>1, <4>2, <4>4, <4>5, <2>1 DEF TurnedTo
    <3> QED BY <3>4, <3>5
  <2> QED BY <2>4, <2>5
<1> QED
  BY <1>2, <1>3 DEF Operations

\* What an expression is read as is one of the operations.
LEMMA WordsMean ==
    ASSUME NEW word
    PROVE  get_command(word) \in Operations
BY DEF get_command, commands, Operations, Leaf, Unary, Binary

\* So is what stands in an expression, remembered or a variable.
LEMMA ReadsAs ==
    ASSUME NEW expression
    PROVE  Resolved(expression).operation \in Operations
<1>1. ASSUME NEW s PROVE Reading(s).operation \in Operations
  <2> DEFINE R == {Read(c.brackets.parts, c.words) : c \in
                      {[brackets |-> b, words |-> Commanded(b.rest)] : b \in {InBrackets(s)}}}
             U == {Understood(r, r.given) : r \in R}
  <2>1. \A r \in R : /\ r.operation \in Operations
                     /\ Understood(r, r.given).operation = r.operation
    BY WordsMean DEF Read, Understood
  <2>2. U # {} /\ \A u \in U : u.operation \in Operations
    BY <2>1
  <2>3. Reading(s) \in U
    <3>1. Reading(s) = The(U)
      BY DEF Reading
    <3> HIDE DEF U
    <3> QED BY <3>1, <2>2 DEF The
  <2> QED BY <2>2, <2>3
<1>2. "relation" \in Operations
  BY DEF Operations, Leaf
<1> QED
  BY <1>1, <1>2 DEF Resolved, Remembered

-------------------------------------------------------------------------------
\* Executing.

\* Every node has an operation; one whose left side is done and whose right side is not
\* has the cursor to its right.
Running(ns, c) ==
    /\ Tree(ns)
    /\ c \in DOMAIN ns
    /\ \A p \in DOMAIN ns : ns[p].operation \in Operations
    /\ ns[Root].operation \notin Leaf
    /\ \A p \in DOMAIN ns : ns[p].right /\ ~ns[p].left => Above(Right(p), c)

\* So many turns to the left.
Down(c, n) == c \o [i \in 1 .. n |-> 0]

\* What a place down to the left looks like.
LEMMA DownIs ==
    ASSUME NEW c \in Places, NEW n \in Nat
    PROVE  /\ Down(c, n) \in Places /\ Len(Down(c, n)) = Len(c) + n
           /\ \A i \in 1 .. Len(c) : Down(c, n)[i] = c[i]
           /\ \A i \in 1 .. n : Down(c, n)[Len(c) + i] = 0
<1> DEFINE z == [i \in 1 .. n |-> 0]
<1>1. z \in Seq({0, 1}) /\ Len(z) = n /\ \A i \in 1 .. n : z[i] = 0
  OBVIOUS
<1> HIDE DEF z
<1>2. Len(c) \in Nat /\ c \in Seq({0, 1})
  BY DEF Places
<1>3. /\ c \o z \in Seq({0, 1}) /\ Len(c \o z) = Len(c) + Len(z)
      /\ \A i \in 1 .. Len(c) + Len(z) :
            (c \o z)[i] = IF i <= Len(c) THEN c[i] ELSE z[i - Len(c)]
  BY <1>1, <1>2, ConcatProperties
<1>4. Down(c, n) = c \o z
  BY DEF Down, z
<1> QED
  BY <1>1, <1>2, <1>3, <1>4 DEF Places

\* It is reached turn by turn.
LEMMA DownTurns ==
    ASSUME NEW c \in Places, NEW n \in Nat
    PROVE  Down(c, 0) = c /\ Down(c, n + 1) = Left(Down(c, n)) /\ Above(c, Down(c, n))
<1>1. Len(c) \in Nat /\ c \in Seq({0, 1})
  BY DEF Places
<1>2. Down(c, 0) = c
  BY <1>1, DownIs, SeqEqual DEF Places
<1>3. /\ Down(c, n) \in Places /\ Len(Down(c, n)) = Len(c) + n
      /\ \A i \in 1 .. Len(c) : Down(c, n)[i] = c[i]
      /\ \A i \in 1 .. n : Down(c, n)[Len(c) + i] = 0
  BY DownIs
<1>4. /\ Down(c, n + 1) \in Places /\ Len(Down(c, n + 1)) = Len(c) + (n + 1)
      /\ \A i \in 1 .. Len(c) : Down(c, n + 1)[i] = c[i]
      /\ \A i \in 1 .. n + 1 : Down(c, n + 1)[Len(c) + i] = 0
  <2>1. n + 1 \in Nat
    OBVIOUS
  <2> QED BY <2>1, DownIs
<1>5. /\ Left(Down(c, n)) \in Places /\ Len(Left(Down(c, n))) = Len(c) + n + 1
      /\ Left(Down(c, n))[Len(c) + n + 1] = 0
      /\ \A i \in 1 .. Len(c) + n : Left(Down(c, n))[i] = Down(c, n)[i]
  BY <1>1, <1>3, AppendProperties DEF Left, Places
<1> HIDE DEF Down
<1>6. \A i \in 1 .. Len(c) + n + 1 : Down(c, n + 1)[i] = Left(Down(c, n))[i]
  <2> SUFFICES ASSUME NEW i \in 1 .. Len(c) + n + 1
               PROVE  Down(c, n + 1)[i] = Left(Down(c, n))[i]
    OBVIOUS
  <2>1. CASE i <= Len(c)
    BY <2>1, <1>1, <1>3, <1>4, <1>5
  <2>2. CASE i > Len(c)
    <3>1. i - Len(c) \in 1 .. n + 1 /\ Len(c) + (i - Len(c)) = i
      BY <2>2, <1>1
    <3>2. Down(c, n + 1)[i] = 0
      <4>1. Down(c, n + 1)[Len(c) + (i - Len(c))] = 0
        BY <3>1, <1>4
      <4> QED BY <4>1, <3>1
    <3>3. CASE i = Len(c) + n + 1
      BY <3>2, <3>3, <1>5
    <3>4. CASE i # Len(c) + n + 1
      <4>1. i - Len(c) \in 1 .. n /\ i \in 1 .. Len(c) + n
        BY <3>1, <3>4, <1>1
      <4>2. Down(c, n)[i] = 0
        BY <4>1, <3>1, <1>3
      <4> QED BY <4>1, <4>2, <3>2, <1>5
    <3> QED BY <3>3, <3>4
  <2> QED BY <2>1, <2>2, <1>1
<1>7. Down(c, n + 1) = Left(Down(c, n))
  <2>1. Len(Down(c, n + 1)) = Len(Left(Down(c, n)))
    BY <1>1, <1>4, <1>5
  <2>2. \A i \in 1 .. Len(Down(c, n + 1)) : Down(c, n + 1)[i] = Left(Down(c, n))[i]
    BY <1>1, <1>4, <1>6
  <2> QED BY <2>1, <2>2, <1>4, <1>5, SeqEqual DEF Places
<1>8. Above(c, Down(c, n))
  BY <1>1, <1>3 DEF Above
<1> QED
  BY <1>2, <1>7, <1>8

\* The path down to the left.
LEMMA PathDown ==
    ASSUME NEW c \in Places, NEW n \in Nat
    PROVE  Path(c) \o [i \in 1 .. n |-> Down(c, i - 1)] = Path(Down(c, n))
<1> DEFINE l == Path(c)
           m == [i \in 1 .. n |-> Down(c, i - 1)]
           d == Down(c, n)
<1>1. Len(c) \in Nat /\ c \in Seq({0, 1})
  BY DEF Places
<1>2. /\ d \in Places /\ Len(d) = Len(c) + n /\ Above(c, d)
      /\ \A j \in 0 .. n : Above(Down(c, j), d) /\ Down(c, j) \in Places
                           /\ Len(Down(c, j)) = Len(c) + j
  <2>1. d \in Places /\ Len(d) = Len(c) + n /\ Above(c, d)
    BY DownIs, DownTurns
  <2>2. ASSUME NEW j \in 0 .. n
        PROVE  Above(Down(c, j), d) /\ Down(c, j) \in Places /\ Len(Down(c, j)) = Len(c) + j
    <3>1. /\ Down(c, j) \in Places /\ Len(Down(c, j)) = Len(c) + j
          /\ \A i \in 1 .. Len(c) : Down(c, j)[i] = c[i]
          /\ \A i \in 1 .. j : Down(c, j)[Len(c) + i] = 0
      <4>1. j \in Nat
        OBVIOUS
      <4> QED BY <4>1, DownIs
    <3>2. /\ \A i \in 1 .. Len(c) : d[i] = c[i]
          /\ \A i \in 1 .. n : d[Len(c) + i] = 0
      BY DownIs
    <3> HIDE DEF d
    <3>3. \A i \in 1 .. Len(c) + j : d[i] = Down(c, j)[i]
      <4> SUFFICES ASSUME NEW i \in 1 .. Len(c) + j PROVE d[i] = Down(c, j)[i]
        OBVIOUS
      <4>1. CASE i <= Len(c)
        BY <4>1, <3>1, <3>2, <1>1
      <4>2. CASE i > Len(c)
        <5>1. i - Len(c) \in 1 .. j /\ i - Len(c) \in 1 .. n /\ Len(c) + (i - Len(c)) = i
          BY <4>2, <1>1
        <5> QED BY <5>1, <3>1, <3>2
      <4> QED BY <4>1, <4>2, <1>1
    <3>4. Len(c) + j <= Len(c) + n
      BY <1>1
    <3> QED BY <3>1, <3>3, <3>4, <2>1 DEF Above
  <2> QED BY <2>1, <2>2
<1>3. l \in Seq(Places) /\ Len(l) = Len(c) /\ \A i \in 1 .. Len(c) : l[i] = SubSeq(c, 1, i - 1)
  <2>1. \A i \in 1 .. Len(c) : SubSeq(c, 1, i - 1) \in Places
    BY <1>1, FirstTurns
  <2> QED BY <2>1, <1>1, IsASeq DEF Path
<1>4. m \in Seq(Places) /\ Len(m) = n /\ \A i \in 1 .. n : m[i] = Down(c, i - 1)
  <2>1. \A i \in 1 .. n : Down(c, i - 1) \in Places
    BY <1>2
  <2> QED BY <2>1, IsASeq
<1> HIDE DEF d, l, m
<1>5. Path(d) \in Seq(Places) /\ Len(Path(d)) = Len(c) + n
      /\ \A i \in 1 .. Len(c) + n : Path(d)[i] = SubSeq(d, 1, i - 1)
  <2>1. \A i \in 1 .. Len(d) : SubSeq(d, 1, i - 1) \in Places
    BY <1>1, <1>2, FirstTurns
  <2> QED BY <2>1, <1>1, <1>2, IsASeq DEF Path
<1>6. /\ l \o m \in Seq(Places) /\ Len(l \o m) = Len(c) + n
      /\ \A i \in 1 .. Len(c) + n : (l \o m)[i] = IF i <= Len(c) THEN l[i] ELSE m[i - Len(c)]
  <2>1. /\ l \o m \in Seq(Places) /\ Len(l \o m) = Len(l) + Len(m)
        /\ \A i \in 1 .. Len(l) + Len(m) :
              (l \o m)[i] = IF i <= Len(l) THEN l[i] ELSE m[i - Len(l)]
    BY <1>3, <1>4, ConcatProperties
  <2>2. Len(l) = Len(c) /\ Len(m) = n
    BY <1>3, <1>4
  <2> QED BY <2>1, <2>2
<1>7. \A i \in 1 .. Len(c) + n : Path(d)[i] = (l \o m)[i]
  <2> SUFFICES ASSUME NEW i \in 1 .. Len(c) + n PROVE Path(d)[i] = (l \o m)[i]
    OBVIOUS
  <2>1. /\ SubSeq(d, 1, i - 1) \in Places /\ Len(SubSeq(d, 1, i - 1)) = i - 1
        /\ Above(SubSeq(d, 1, i - 1), d) /\ Path(d)[i] = SubSeq(d, 1, i - 1)
    <3>1. i - 1 \in 0 .. Len(d)
      BY <1>1, <1>2
    <3> QED BY <3>1, <1>2, <1>5, FirstTurns
  <2>2. CASE i <= Len(c)
    <3>1. /\ SubSeq(c, 1, i - 1) \in Places /\ Len(SubSeq(c, 1, i - 1)) = i - 1
          /\ Above(SubSeq(c, 1, i - 1), c)
      <4>1. i - 1 \in 0 .. Len(c)
        BY <2>2, <1>1
      <4> QED BY <4>1, FirstTurns
    <3>2. Above(SubSeq(c, 1, i - 1), d)
      BY <3>1, <1>2, AboveTrans
    <3>3. SubSeq(c, 1, i - 1) = SubSeq(d, 1, i - 1)
      <4>1. Len(SubSeq(c, 1, i - 1)) <= Len(SubSeq(d, 1, i - 1))
        BY <2>1, <3>1
      <4> QED BY <4>1, <2>1, <3>1, <3>2, <1>2, AboveOrder, AboveSame
    <3>4. (l \o m)[i] = SubSeq(c, 1, i - 1)
      BY <2>2, <1>3, <1>6, <1>1
    <3> QED BY <3>3, <3>4, <2>1
  <2>3. CASE i > Len(c)
    <3>1. i - Len(c) \in 1 .. n /\ i - Len(c) - 1 \in 0 .. n
      BY <2>3, <1>1
    <3> DEFINE j == i - Len(c) - 1
    <3>2. Above(Down(c, j), d) /\ Down(c, j) \in Places /\ Len(Down(c, j)) = i - 1
      <4>1. Len(c) + j = i - 1
        BY <1>1
      <4> QED BY <4>1, <3>1, <1>2
    <3>3. (l \o m)[i] = Down(c, j)
      <4>1. (l \o m)[i] = m[i - Len(c)]
        BY <2>3, <1>1, <1>6
      <4>2. m[i - Len(c)] = Down(c, j)
        BY <3>1, <1>4
      <4> QED BY <4>1, <4>2
    <3> HIDE DEF j
    <3>4. Down(c, j) = SubSeq(d, 1, i - 1)
      <4>1. Len(Down(c, j)) <= Len(SubSeq(d, 1, i - 1))
        BY <2>1, <3>2
      <4> QED BY <4>1, <2>1, <3>2, <1>2, AboveOrder, AboveSame
    <3>5. Path(d)[i] = SubSeq(d, 1, i - 1)
      BY <2>1
    <3>6. (l \o m)[i] = SubSeq(d, 1, i - 1)
      BY <3>3, <3>4
    <3> QED BY <3>5, <3>6
  <2>4. i \in Nat /\ (i <= Len(c) \/ i > Len(c))
    BY <1>1
  <2> QED BY <2>2, <2>3, <2>4
<1>8. Path(d) = l \o m
  <2>1. Len(Path(d)) = Len(l \o m) /\ \A i \in 1 .. Len(Path(d)) : Path(d)[i] = (l \o m)[i]
    BY <1>5, <1>6, <1>7
  <2> QED BY <2>1, <1>5, <1>6, SeqEqual
<1> QED
  BY <1>8 DEF d, l, m

\* So many turns to the left of c is the node where the walk ends.
Bottom(ns, c, n) == ~ns[Down(c, n)].left /\ \A m \in 0 .. (n - 1) : ns[Down(c, m)].left

\* The walk to the left comes to its end, as a tree has no more turns than nodes.
LEMMA BottomIs ==
    ASSUME NEW ns, Tree(ns), NEW c \in DOMAIN ns
    PROVE  \E n \in 0 .. Cardinality(DOMAIN ns) : Bottom(ns, c, n)
<1> DEFINE K == Cardinality(DOMAIN ns)
           T == {n \in 0 .. K : Down(c, n) \notin DOMAIN ns}
<1>1. c \in Places /\ K \in Nat /\ IsFiniteSet(DOMAIN ns) /\ Len(c) \in Nat
  BY FS_CardinalityType DEF Tree, Places
<1> HIDE DEF K
<1>2. T # {}
  <2> SUFFICES ASSUME \A n \in 0 .. K : Down(c, n) \in DOMAIN ns PROVE FALSE
    OBVIOUS
  <2> DEFINE f == [n \in 0 .. K |-> Down(c, n)]
  <2>1. IsFiniteSet(0 .. K) /\ Cardinality(0 .. K) = K + 1
    BY <1>1, FS_Interval
  <2>2. f \in [0 .. K -> DOMAIN ns]
    OBVIOUS
  <2>3. Cardinality(DOMAIN ns) < Cardinality(0 .. K)
    BY <1>1, <2>1 DEF K
  <2> HIDE DEF f
  <2>4. PICK x \in 0 .. K, y \in 0 .. K : x # y /\ f[x] = f[y]
    BY <1>1, <2>1, <2>2, <2>3, FS_PigeonHole
  <2>5. x \in Nat /\ y \in Nat
    BY <1>1
  <2>6. Len(Down(c, x)) = Len(c) + x /\ Len(Down(c, y)) = Len(c) + y
    BY <2>5, <1>1, DownIs
  <2>7. Down(c, x) = Down(c, y)
    BY <2>4 DEF f
  <2> QED BY <2>4, <2>5, <2>6, <2>7, <1>1
<1>3. PICK n \in T : \A m \in T : n <= m
  <2>1. T \in SUBSET Nat
    BY <1>1
  <2> HIDE DEF T
  <2> QED BY <1>2, <2>1, SmallestOf
<1>4. n \in 0 .. K /\ Down(c, n) \notin DOMAIN ns
  OBVIOUS
<1>5. n # 0
  BY <1>1, <1>4, DownTurns
<1>6. n - 1 \in 0 .. K /\ n - 1 \in Nat /\ (n - 1) + 1 = n
  BY <1>1, <1>4, <1>5
<1>7. \A m \in 0 .. (n - 1) : Down(c, m) \in DOMAIN ns
  <2> SUFFICES ASSUME NEW m \in 0 .. (n - 1), Down(c, m) \notin DOMAIN ns PROVE FALSE
    OBVIOUS
  <2>1. m \in T
    BY <1>1, <1>4
  <2>2. m < n
    BY <1>4
  <2> QED BY <2>1, <2>2, <1>3, <1>4
<1>8. ~ns[Down(c, n - 1)].left
  <2>1. Left(Down(c, n - 1)) = Down(c, n)
    <3>1. Down(c, (n - 1) + 1) = Left(Down(c, n - 1))
      BY <1>1, <1>6, DownTurns
    <3> QED BY <3>1, <1>6
  <2>2. Down(c, n - 1) \in DOMAIN ns
    BY <1>6, <1>7
  <2> QED BY <2>1, <2>2, <1>4 DEF Tree
<1>9. ASSUME NEW m \in 0 .. (n - 2) PROVE ns[Down(c, m)].left
  <2>1. m \in Nat /\ m + 1 \in 0 .. (n - 1) /\ m \in 0 .. (n - 1)
    BY <1>4
  <2>2. Left(Down(c, m)) = Down(c, m + 1)
    BY <1>1, <2>1, DownTurns
  <2> QED BY <2>1, <2>2, <1>7 DEF Tree
<1>10. Bottom(ns, c, n - 1)
  <2>1. (n - 1) - 1 = n - 2
    BY <1>4
  <2> QED BY <2>1, <1>8, <1>9 DEF Bottom
<1> QED
  BY <1>6, <1>10 DEF K

\* The walk does not leave the tree.
LEMMA DownInTree ==
    ASSUME NEW ns, Tree(ns), NEW c \in DOMAIN ns, NEW n \in Nat, Bottom(ns, c, n)
    PROVE  Down(c, n) \in DOMAIN ns
<1> DEFINE T == {m \in 0 .. n : Down(c, m) \notin DOMAIN ns}
<1>1. c \in Places
  BY DEF Tree
<1> SUFFICES ASSUME Down(c, n) \notin DOMAIN ns PROVE FALSE
  OBVIOUS
<1>2. n \in T
  OBVIOUS
<1>3. PICK m \in T : \A k \in T : m <= k
  <2>1. T \in SUBSET Nat
    OBVIOUS
  <2> HIDE DEF T
  <2> QED BY <1>2, <2>1, SmallestOf
<1>4. m \in 0 .. n /\ Down(c, m) \notin DOMAIN ns
  OBVIOUS
<1>5. m # 0
  BY <1>1, <1>4, DownTurns
<1>6. m - 1 \in 0 .. (n - 1) /\ m - 1 \in Nat /\ (m - 1) + 1 = m
  BY <1>4, <1>5
<1>7. Down(c, m - 1) \in DOMAIN ns
  <2> SUFFICES ASSUME Down(c, m - 1) \notin DOMAIN ns PROVE FALSE
    OBVIOUS
  <2>1. m - 1 \in T
    BY <1>6
  <2>2. m - 1 < m
    BY <1>4
  <2> QED BY <2>1, <2>2, <1>3, <1>4
<1>8. Left(Down(c, m - 1)) = Down(c, m)
  <2>1. Down(c, (m - 1) + 1) = Left(Down(c, m - 1))
    BY <1>1, <1>6, DownTurns
  <2> QED BY <2>1, <1>6
<1>9. ns[Down(c, m - 1)].left
  BY <1>6 DEF Bottom
<1> QED
  BY <1>4, <1>7, <1>8, <1>9 DEF Tree

\* Where execute goes down to: a node without operands left, with the way to it on the
\* stack.
LEMMA Descends ==
    ASSUME NEW ns, NEW c, Running(ns, c)
    PROVE  LET way == LeftMost(ns, c) IN
           /\ way.node \in DOMAIN ns /\ Above(c, way.node)
           /\ ~ns[way.node].left /\ ~ns[way.node].right
           /\ Path(c) \o way.passed = Path(way.node)
<1> DEFINE depth == CHOOSE n \in 0 .. Cardinality(DOMAIN ns) :
                        ~ns[Down(c, n)].left /\ \A m \in 0 .. (n - 1) : ns[Down(c, m)].left
           d == Down(c, depth)
           way == LeftMost(ns, c)
<1>1. Tree(ns) /\ c \in DOMAIN ns /\ c \in Places /\ Cardinality(DOMAIN ns) \in Nat
  BY FS_CardinalityType DEF Running, Tree
<1>2. depth \in 0 .. Cardinality(DOMAIN ns) /\ Bottom(ns, c, depth)
  <2>1. \E n \in 0 .. Cardinality(DOMAIN ns) :
            ~ns[Down(c, n)].left /\ \A m \in 0 .. (n - 1) : ns[Down(c, m)].left
    BY <1>1, BottomIs DEF Bottom
  <2> QED BY <2>1 DEF Bottom
<1>3. way.node = d /\ way.passed = [i \in 1 .. depth |-> Down(c, i - 1)]
  BY DEF LeftMost, Down
<1> HIDE DEF depth, way
<1>4. depth \in Nat
  BY <1>1, <1>2
<1>5. d \in DOMAIN ns /\ ~ns[d].left
  BY <1>1, <1>2, <1>4, DownInTree DEF Bottom
<1>6. Above(c, d) /\ Path(c) \o way.passed = Path(d)
  BY <1>1, <1>3, <1>4, DownTurns, PathDown
<1> HIDE DEF d
<1>7. ~ns[d].right
  <2> SUFFICES ASSUME ns[d].right PROVE FALSE
    OBVIOUS
  <2>1. Above(Right(d), c) /\ d \in Places
    BY <1>5 DEF Running, Tree
  <2>2. Len(Right(d)) = Len(d) + 1 /\ Len(d) \in Nat /\ Len(c) \in Nat
    BY <2>1, <1>1, ChildIs DEF Right, Places
  <2> QED BY <2>1, <2>2, <1>6 DEF Above
<1> QED
  BY <1>3, <1>5, <1>6, <1>7 DEF way

\* A node has left the tree and the walk can go on.
HandedUp(ns, d, ms, next) ==
    /\ Path(d) # <<>> /\ DOMAIN ms = DOMAIN ns \ {d}
    /\ Running(ms, next.cursor) /\ next.stack = Path(next.cursor)

\* A node without operands left gives its result to the one above it, which is next, or
\* whose right operand is.
LEMMA HandsUp ==
    ASSUME NEW ns, NEW c, Running(ns, c), NEW d \in DOMAIN ns, d # Root, Above(c, d),
           ~ns[d].left, ~ns[d].right, NEW result, NEW ms, ms = Handed(ns, d, result),
           NEW next, next = Popped(ms, Path(d))
    PROVE  HandedUp(ns, d, ms, next)
<1> DEFINE p == Front(d)
           b == Last(d)
<1>1. DOMAIN ns \subseteq Places /\ d \in Places /\ c \in Places /\ Tree(ns)
  BY DEF Running, Tree
<1>2. p \in Places /\ b \in {0, 1} /\ d = Append(p, b) /\ Len(d) = Len(p) + 1 /\ Len(p) \in Nat
  BY <1>1, ParentIs DEF Places
<1>3. /\ DOMAIN ms = DOMAIN ns \ {d}
      /\ \A q \in DOMAIN ms :
            ms[q] = IF q # p THEN ns[q]
                    ELSE IF b = 0 THEN [ns[q] EXCEPT !.lresult = result, !.left = FALSE]
                    ELSE [ns[q] EXCEPT !.rresult = result, !.right = FALSE]
  BY DEF Handed
<1>4. Path(d) # <<>> /\ Last(Path(d)) = p /\ Front(Path(d)) = Path(p)
      /\ Path(d) = Append(Path(p), p)
  <2> HIDE DEF p, b
  <2>1. /\ Path(Append(p, b)) # <<>> /\ Last(Path(Append(p, b))) = p
        /\ Front(Path(Append(p, b))) = Path(p) /\ Path(Append(p, b)) = Append(Path(p), p)
    BY <1>2, PathFromChild, PathToChild
  <2> QED BY <2>1, <1>2
<1>5. next = IF ms[p].right THEN [cursor |-> Right(p), stack |-> Path(d)]
             ELSE [cursor |-> p, stack |-> Path(p)]
  BY <1>4 DEF Popped
<1> HIDE DEF p, b
<1>6. p \in DOMAIN ms /\ p # d
  <2>1. Above(p, d) /\ p # d
    BY <1>2, AboveSelf, AboveChild
  <2> QED BY <2>1, <1>1, <1>2, <1>3 DEF Tree
<1>7. NodeFields \subseteq DOMAIN ns[p]
  BY <1>3, <1>6 DEF Running, Tree
<1>8. /\ DOMAIN ms[p] = DOMAIN ns[p] /\ ms[p].operation = ns[p].operation
      /\ b = 0 => ~ms[p].left /\ ms[p].right = ns[p].right
      /\ b = 1 => ~ms[p].right /\ ms[p].left = ns[p].left
  <2>1. CASE b = 0
    <3>1. ms[p] = [ns[p] EXCEPT !.lresult = result, !.left = FALSE]
      BY <2>1, <1>3, <1>6
    <3> QED BY <2>1, <3>1, <1>7 DEF NodeFields
  <2>2. CASE b = 1
    <3>1. ms[p] = [ns[p] EXCEPT !.rresult = result, !.right = FALSE]
      <4>1. b # 0
        BY <2>2
      <4>2. \A q \in DOMAIN ms : q = p /\ b # 0 =>
                ms[q] = [ns[q] EXCEPT !.rresult = result, !.right = FALSE]
        BY <1>3
      <4> QED BY <4>1, <4>2, <1>6
    <3> QED BY <2>2, <3>1, <1>7 DEF NodeFields
  <2> QED BY <2>1, <2>2, <1>2
<1>9. \A q \in DOMAIN ms : q # p => ms[q] = ns[q]
  BY <1>3
<1>10. Tree(ms)
  <2>1. DOMAIN ms \subseteq Places /\ IsFiniteSet(DOMAIN ms) /\ Root \in DOMAIN ms
    <3>1. IsFiniteSet(DOMAIN ns \ {d})
      BY <1>1, FS_RemoveElement DEF Tree
    <3> QED BY <3>1, <1>1, <1>3 DEF Tree
  <2>2. ASSUME NEW q \in DOMAIN ms, NEW k \in Places, Above(k, q)
        PROVE  k \in DOMAIN ms
    <3>1. k \in DOMAIN ns /\ q \in DOMAIN ns /\ q # d
      BY <2>2, <1>1, <1>3 DEF Tree
    <3>2. k # d
      <4> SUFFICES ASSUME k = d PROVE FALSE
        OBVIOUS
      <4>1. PICK e \in {0, 1} : Above(Append(d, e), q)
        BY <2>2, <3>1, <1>1, WayDown
      <4>2. Append(d, e) \in DOMAIN ns
        BY <4>1, <3>1, <1>1, ChildIs DEF Tree
      <4> QED BY <4>2, <1>1 DEF Tree, Left, Right
    <3> QED BY <3>1, <3>2, <1>3
  <2>3. ASSUME NEW q \in DOMAIN ms
        PROVE  /\ NodeFields \subseteq DOMAIN ms[q]
               /\ ms[q].left <=> Left(q) \in DOMAIN ms
               /\ ms[q].right <=> Right(q) \in DOMAIN ms
    <3>1. q \in Places /\ q \in DOMAIN ns
      BY <1>1, <1>3
    <3>2. CASE q # p
      <4>1. Left(q) # d /\ Right(q) # d
        <5>1. Front(Append(q, 0)) = q /\ Front(Append(q, 1)) = q /\ Front(d) = p
          BY <3>1, <1>2, ChildIs
        <5> QED BY <5>1, <3>2 DEF Left, Right
      <4> QED BY <4>1, <3>1, <3>2, <1>1, <1>3, <1>9 DEF Tree
    <3>3. CASE q = p
      <4>1. CASE b = 0
        <5>1. d = Left(p) /\ Right(p) # d
          BY <4>1, <1>2, Children DEF Left
        <5> QED BY <5>1, <4>1, <3>3, <1>1, <1>3, <1>6, <1>7, <1>8 DEF Tree
      <4>2. CASE b = 1
        <5>1. d = Right(p) /\ Left(p) # d
          BY <4>2, <1>2, Children DEF Right
        <5> QED BY <5>1, <4>2, <3>3, <1>1, <1>3, <1>6, <1>7, <1>8 DEF Tree
      <4> QED BY <4>1, <4>2, <1>2
    <3> QED BY <3>2, <3>3
  <2> QED BY <2>1, <2>2, <2>3 DEF Tree
<1>11. next.cursor \in DOMAIN ms /\ next.stack = Path(next.cursor)
  <2>1. CASE ms[p].right
    <3>1. next.cursor = Right(p) /\ next.stack = Path(d)
      BY <2>1, <1>5
    <3>2. Path(Right(p)) = Append(Path(p), p)
      BY <1>2, PathToChild DEF Right
    <3>3. Right(p) \in DOMAIN ms
      BY <2>1, <1>6, <1>10 DEF Tree
    <3> QED BY <3>1, <3>2, <3>3, <1>4
  <2>2. CASE ~ms[p].right
    BY <2>2, <1>5, <1>6
  <2> QED BY <2>1, <2>2
<1>12. \A q \in DOMAIN ms : ms[q].operation \in Operations
  BY <1>3, <1>6, <1>8, <1>9 DEF Running
<1>13. ms[Root].operation \notin Leaf
  BY <1>8, <1>9, <1>10 DEF Running, Tree
<1>14. ASSUME NEW q \in DOMAIN ms, ms[q].right, ~ms[q].left
       PROVE  Above(Right(q), next.cursor)
  <2>1. CASE q = p
    <3>1. next.cursor = Right(p)
      BY <2>1, <1>14, <1>5
    <3> QED BY <3>1, <2>1, <1>2, Children, AboveSelf
  <2>2. CASE q # p
    <3>1. q \in DOMAIN ns /\ q \in Places /\ Above(Right(q), c) /\ Right(q) \in Places
      BY <2>2, <1>1, <1>3, <1>9, <1>14, Children DEF Running
    <3>2. Above(Right(q), d)
      BY <3>1, <1>1, AboveTrans
    <3>3. Right(q) # d
      BY <3>1, <2>2, <1>2, ChildIs DEF Right
    <3>4. Above(Right(q), p)
      BY <3>1, <3>2, <3>3, <1>2, AboveChild
    <3>5. Above(Right(q), Right(p))
      BY <3>1, <3>4, <1>2, AboveChild DEF Right
    <3>6. next.cursor = Right(p) \/ next.cursor = p
      BY <1>5
    <3> QED BY <3>4, <3>5, <3>6
  <2> QED BY <2>1, <2>2
<1> QED
  BY <1>3, <1>4, <1>10, <1>11, <1>12, <1>13, <1>14 DEF Running, HandedUp

-------------------------------------------------------------------------------
\* What an operator creates.

\* Nothing, or a relation that has the name that was free.
Creates(outcome, dest, free) == outcome.new = NULL \/ (free /\ outcome.new.name = dest)

\* A relation is called what it was to be called.
LEMMA CalledSo ==
    ASSUME NEW dest, NEW attrs, NEW tuples
    PROVE  Relation(dest, attrs, tuples).name = dest /\ Wreck(dest).name = dest
BY DEF Relation, Wreck, relation_create_write_header, relation_update_header,
       relation_create_write_eoh_marker

\* What answers or leaves a relation of a free name creates that; the rest creates nothing.
LEMMA OutcomesCreate ==
    ASSUME NEW dest, NEW attrs, NEW tuples
    PROVE  /\ Creates(Answers(Relation(dest, attrs, tuples)), dest, TRUE)
           /\ Creates(Leaves(Relation(dest, attrs, tuples)), dest, TRUE)
           /\ \A free \in BOOLEAN : Creates(Refuses, dest, free) /\ Creates(Dies, dest, free)
           /\ Creates(Leaves(Wreck(dest)), dest, TRUE)
BY CalledSo DEF Creates, Answers, Leaves, Refuses, Dies

\* A relation is created only if its name is free.
LEMMA DuplicateCreates ==
    ASSUME NEW rel, NEW dest, NEW free \in BOOLEAN, NEW outcome,
           Creates(outcome, dest, TRUE)
    PROVE  Creates(create_duplicate_rtn_relation(rel, dest, free, outcome), dest, free)
BY OutcomesCreate DEF create_duplicate_rtn_relation, Creates

\* The same when two relations give the attributes.
LEMMA BothCreate ==
    ASSUME NEW rel1, NEW rel2, NEW dest, NEW free \in BOOLEAN, NEW outcome,
           Creates(outcome, dest, TRUE)
    PROVE  Creates(relation_create_both(rel1, rel2, dest, free, outcome), dest, free)
BY OutcomesCreate DEF relation_create_both, Creates

\* The same for what the set operators share.
LEMMA SetOperatorCreates ==
    ASSUME NEW rel1, NEW rel2, NEW tuples, NEW dest, NEW free \in BOOLEAN
    PROVE  Creates(SetOperator(rel1, rel2, tuples, dest, free), dest, free)
BY OutcomesCreate, DuplicateCreates DEF SetOperator

\* The operators one by one.  A selection, under any condition.
LEMMA SelectCreates ==
    ASSUME NEW rel, NEW given, NEW dest, NEW free \in BOOLEAN
    PROVE  Creates(rl_select(rel, given, dest, free), dest, free)
<1> DEFINE S == {SelectedInto(rel, read, dest) :
                    read \in {IF given = NoCondition THEN special_condition_true ELSE given}}
<1>1. ASSUME NEW read PROVE Creates(SelectedInto(rel, read, dest), dest, TRUE)
  BY OutcomesCreate DEF SelectedInto, Empty
<1>2. Creates(The(S), dest, TRUE)
  BY <1>1 DEF The
<1> HIDE DEF S
<1>3. Creates(create_duplicate_rtn_relation(rel, dest, free, The(S)), dest, free)
  BY <1>2, DuplicateCreates
<1> QED
  BY <1>3 DEF rl_select, S

\* A projection, with an argument that names attributes or not.
LEMMA ProjectCreates ==
    ASSUME NEW rel, NEW attributes, NEW dest, NEW free \in BOOLEAN
    PROVE  Creates(rl_project(rel, attributes, dest, free), dest, free)
BY OutcomesCreate, DuplicateCreates DEF rl_project

\* A product.
LEMMA ProductCreates ==
    ASSUME NEW rel1, NEW rel2, NEW dest, NEW free \in BOOLEAN
    PROVE  Creates(rl_product(rel1, rel2, dest, free), dest, free)
BY OutcomesCreate, BothCreate DEF rl_product

\* A join, with whatever condition.
LEMMA JoinCreates ==
    ASSUME NEW l, NEW r, NEW given, NEW dest, NEW free \in BOOLEAN
    PROVE  Creates(rl_naturaljoin(l, r, given, dest, free), dest, free)
<1>1. ASSUME NEW read, NEW keys PROVE Creates(Joined(l, r, read, keys, dest, free), dest, free)
  BY OutcomesCreate, BothCreate DEF Joined
<1> QED
  BY <1>1, OutcomesCreate DEF rl_naturaljoin, The

\* The operation of a node creates a relation of the name that is its target, if free.
LEMMA OperationCreates ==
    ASSUME NEW p, nodes[p].operation \in Operations \ Leaf
    PROVE  Creates(Operation(p), Target(p), Free(Target(p)))
<1>1. Free(Target(p)) \in BOOLEAN
  BY DEF Free
<1>2. ASSUME NEW l, NEW r, NEW dest, NEW free \in BOOLEAN
      PROVE  /\ Creates(rl_duplicate(l, dest, free), dest, free)
             /\ Creates(rl_union(l, r, dest, free), dest, free)
             /\ Creates(rl_intersect(l, r, dest, free), dest, free)
             /\ Creates(rl_difference(l, r, dest, free), dest, free)
  BY OutcomesCreate, DuplicateCreates, SetOperatorCreates
     DEF rl_duplicate, rl_union, rl_intersect, rl_difference
<1> QED
  BY <1>1, <1>2, OutcomesCreate, SelectCreates, ProjectCreates, ProductCreates, JoinCreates
     DEF Operation, Operations, Leaf, Unary, Binary

\* A round of execute that does not end the process: what there is stays.
LEMMA CreatedKeeps ==
    ASSUME NEW outcome, NEW dest, Creates(outcome, dest, Free(dest)), NEW n \in DOMAIN rels
    PROVE  n \in DOMAIN Created(outcome) /\ Created(outcome)[n] = rels[n]
<1>1. CASE outcome.new = NULL
  BY <1>1 DEF Created
<1>2. CASE outcome.new # NULL
  <2>1. n # outcome.new.name
    BY <1>2 DEF Creates, Free
  <2> QED BY <1>2, <2>1 DEF Created, With
<1> QED
  BY <1>1, <1>2

-------------------------------------------------------------------------------
\* The walks.

\* Where the program is in the tree, and what is on the stack.
WalkInv ==
    /\ phase \in {"prompt", "parse", "execute", "dead"}
    /\ phase = "parse" => stack = <<>> /\ Walked(nodes, cursor) /\ Fresh(nodes[cursor])
    /\ phase = "execute" => Running(nodes, cursor) /\ stack = Path(cursor)

\* A query that has been asked is a single node that has not been read.
LEMMA FirstNode ==
    ASSUME NEW s
    PROVE  LET ns == Alone(new_parse_node(s)) IN
           Walked(ns, Root) /\ Fresh(ns[Root]) /\ Visited(ns, Root) = {} /\ DOMAIN ns = {Root}
<1> DEFINE ns == Alone(new_parse_node(s))
<1>1. DOMAIN ns = {Root} /\ ns[Root] = new_parse_node(s)
  BY DEF Alone
<1>2. Fresh(ns[Root]) /\ NodeFields \subseteq DOMAIN ns[Root]
  BY <1>1, NewNode
<1> HIDE DEF ns
<1>3. Root \in Places /\ Left(Root) # Root /\ Right(Root) # Root
  <2>1. Root \in Places
    BY DEF Places, Root
  <2> QED BY <2>1, Children
<1>4. \A q \in Places : Above(q, Root) => q = Root
  BY <1>3 DEF Above, Places, Root
<1>5. IsFiniteSet(DOMAIN ns)
  BY <1>1, FS_Singleton
<1>6. Tree(ns)
  BY <1>1, <1>2, <1>3, <1>4, <1>5 DEF Tree, Fresh
<1>7. Walked(ns, Root)
  BY <1>1, <1>2, <1>6 DEF Walked, Fresh, RightOpen
<1> QED
  BY <1>1, <1>2, <1>7 DEF ns, Visited

\* A tree that has been read can be executed.
LEMMA ReadyToRun ==
    ASSUME NEW ns, Tree(ns), \A p \in DOMAIN ns : Entered(ns[p]), Done(ns, Root)
    PROVE  Running(ns, Root) /\ Path(Root) = <<>>
<1>1. Root \in DOMAIN ns
  BY DEF Tree
<1>2. \A p \in DOMAIN ns : ns[p].operation \in Operations
  BY DEF Entered, Operations
<1>3. ns[Root].operation \notin Leaf
  BY <1>1, Kinds DEF Entered, Fresh, Done
<1>4. \A p \in DOMAIN ns : ~(ns[p].right /\ ~ns[p].left)
  BY DEF Entered, Fresh
<1>5. Path(Root) = <<>>
  BY DEF Path, Root
<1> QED
  BY <1>1, <1>2, <1>3, <1>4, <1>5 DEF Running

\* A round of parse.
LEMMA ParseRound ==
    ASSUME Parse, Walked(nodes, cursor), Fresh(nodes[cursor])
    PROVE  LET seen == Visited(nodes, cursor) \cup {cursor} IN
           \/ /\ phase' = "parse" /\ Walked(nodes', cursor') /\ Fresh(nodes'[cursor'])
              /\ Visited(nodes', cursor') = seen
           \/ /\ phase' = "execute" /\ Running(nodes', cursor') /\ Path(cursor') = <<>>
              /\ DOMAIN nodes' = seen /\ \A p \in DOMAIN nodes' : Entered(nodes'[p])
           \/ phase' = "prompt"
<1> DEFINE r == Resolved(nodes[cursor].expression)
           t == Turn(Grown(nodes, cursor, r), cursor)
<1>1. /\ phase = "parse"
      /\ \/ /\ t.cursor # Root
            /\ nodes' = t.nodes /\ cursor' = t.cursor /\ phase' = phase
         \/ /\ t.cursor = Root /\ Done(t.nodes, Root)
            /\ nodes' = t.nodes /\ cursor' = Root /\ phase' = "execute"
         \/ /\ t.cursor = Root /\ ~Done(t.nodes, Root) /\ RightOpen(t.nodes, Root)
            /\ nodes' = GoRight(t.nodes, Root).nodes
            /\ cursor' = GoRight(t.nodes, Root).cursor /\ phase' = phase
         \/ /\ t.cursor = Root /\ ~Done(t.nodes, Root) /\ ~RightOpen(t.nodes, Root)
            /\ phase' = "prompt"
  BY DEF Parse
<1>2. r.operation \in Operations
  BY ReadsAs
<1> HIDE DEF r
<1>3. t = Turn(Grown(nodes, cursor, r), cursor)
  OBVIOUS
<1> HIDE DEF t
<1>4. TurnedTo(nodes, cursor, t)
  BY <1>2, <1>3, Turned
<1>5. CASE t.cursor # Root
  BY <1>1, <1>4, <1>5 DEF TurnedTo
<1>6. CASE t.cursor = Root /\ Done(t.nodes, Root)
  <2>1. nodes' = t.nodes /\ cursor' = Root /\ phase' = "execute"
    BY <1>1, <1>6
  <2>2. /\ Tree(t.nodes) /\ \A p \in DOMAIN t.nodes : Entered(t.nodes[p])
        /\ DOMAIN t.nodes = Visited(nodes, cursor) \cup {cursor}
    BY <1>4, <1>6 DEF TurnedTo
  <2>3. Running(t.nodes, Root) /\ Path(Root) = <<>>
    BY <1>6, <2>2, ReadyToRun
  <2> QED BY <2>1, <2>2, <2>3
<1>7. CASE t.cursor = Root /\ ~Done(t.nodes, Root) /\ RightOpen(t.nodes, Root)
  <2>1. GoRight(t.nodes, Root).cursor = Right(Root)
    BY DEF GoRight, At
  <2> QED BY <1>1, <1>4, <1>7, <2>1 DEF TurnedTo
<1>8. CASE t.cursor = Root /\ ~Done(t.nodes, Root) /\ ~RightOpen(t.nodes, Root)
  BY <1>1, <1>8
<1> QED
  BY <1>5, <1>6, <1>7, <1>8

\* A round of execute takes one node, which has no operands left.
LEMMA ExecuteRound ==
    ASSUME Execute, Running(nodes, cursor), stack = Path(cursor)
    PROVE  \E p \in DOMAIN nodes :
              /\ Left(p) \notin DOMAIN nodes /\ Right(p) \notin DOMAIN nodes
              /\ executed' = [executed EXCEPT ![p] = @ + 1]
              /\ \/ phase' \in {"prompt", "dead"}
                 \/ /\ phase' = "execute" /\ DOMAIN nodes' = DOMAIN nodes \ {p}
                    /\ Running(nodes', cursor') /\ stack' = Path(cursor')
<1> DEFINE way == LeftMost(nodes, cursor)
           p == way.node
           pushed == stack \o way.passed
<1>1. phase = "execute"
  BY DEF Execute
<1>2. /\ executed' = [executed EXCEPT ![p] = @ + 1]
      /\ \/ phase' \in {"prompt", "dead"}
         \/ \E result : /\ p # Root
                        /\ nodes' = Handed(nodes, p, result)
                        /\ IF pushed = <<>> THEN phase' = "dead"
                           ELSE /\ cursor' = Popped(nodes', pushed).cursor
                                /\ stack' = Popped(nodes', pushed).stack
                                /\ phase' = phase
  BY DEF Execute
<1> HIDE DEF way
<1>3. /\ p \in DOMAIN nodes /\ Above(cursor, p) /\ ~nodes[p].left /\ ~nodes[p].right
      /\ pushed = Path(p)
  BY Descends DEF way
<1> HIDE DEF p, pushed
<1>4. Left(p) \notin DOMAIN nodes /\ Right(p) \notin DOMAIN nodes
  BY <1>3 DEF Running, Tree
<1>5. ASSUME NEW result, p # Root, nodes' = Handed(nodes, p, result), pushed # <<>>,
             cursor' = Popped(nodes', pushed).cursor, stack' = Popped(nodes', pushed).stack
      PROVE  /\ DOMAIN nodes' = DOMAIN nodes \ {p}
             /\ Running(nodes', cursor') /\ stack' = Path(cursor')
  <2> DEFINE next == Popped(nodes', Path(p))
  <2>1. next = Popped(nodes', Path(p)) /\ cursor' = next.cursor /\ stack' = next.stack
    BY <1>3, <1>5
  <2> HIDE DEF next
  <2>2. /\ DOMAIN nodes' = DOMAIN nodes \ {p}
        /\ Running(nodes', next.cursor) /\ next.stack = Path(next.cursor)
    <3>1. HandedUp(nodes, p, nodes', next)
      BY <1>3, <1>5, <2>1, HandsUp
    <3> QED BY <3>1 DEF HandedUp
  <2> QED BY <2>1, <2>2
<1> QED
  BY <1>1, <1>2, <1>3, <1>4, <1>5

\* WalkInv holds at the start and every step keeps it.
LEMMA WalkInvInductive ==
    /\ Init => WalkInv
    /\ WalkInv /\ [Next]_vars => WalkInv'
<1>1. Init => WalkInv
  BY DEF Init, WalkInv
<1>2. ASSUME WalkInv, [Next]_vars PROVE WalkInv'
  <2>1. CASE Ask
    <3>1. /\ phase' = "parse" /\ cursor' = Root /\ stack' = <<>>
          /\ \E q \in Queries : nodes' = Alone(new_parse_node(q.text))
      BY <2>1 DEF Ask
    <3>2. Walked(nodes', cursor') /\ Fresh(nodes'[cursor'])
      BY <3>1, FirstNode
    <3> QED BY <3>1, <3>2 DEF WalkInv
  <2>2. CASE Parse
    <3>1. phase = "parse" /\ stack' = stack
      BY <2>2 DEF Parse
    <3>2. stack = <<>> /\ Walked(nodes, cursor) /\ Fresh(nodes[cursor])
      BY <1>2, <3>1 DEF WalkInv
    <3>3. \/ phase' = "parse" /\ Walked(nodes', cursor') /\ Fresh(nodes'[cursor'])
          \/ phase' = "execute" /\ Running(nodes', cursor') /\ Path(cursor') = <<>>
          \/ phase' = "prompt"
      BY <2>2, <3>2, ParseRound
    <3> QED BY <3>1, <3>2, <3>3 DEF WalkInv
  <2>3. CASE Execute
    <3>1. phase = "execute"
      BY <2>3 DEF Execute
    <3>2. Running(nodes, cursor) /\ stack = Path(cursor)
      BY <1>2, <3>1 DEF WalkInv
    <3>3. \/ phase' \in {"prompt", "dead"}
          \/ phase' = "execute" /\ Running(nodes', cursor') /\ stack' = Path(cursor')
      BY <2>3, <3>2, ExecuteRound
    <3> QED BY <3>3 DEF WalkInv
  <2>4. CASE UNCHANGED vars
    <3>1. phase' = phase /\ nodes' = nodes /\ cursor' = cursor /\ stack' = stack
      BY <2>4 DEF vars
    <3> QED BY <1>2, <3>1 DEF WalkInv
  <2> QED BY <1>2, <2>1, <2>2, <2>3, <2>4 DEF Next
<1> QED
  BY <1>1, <1>2

\* The walks are always where they should be.
THEOREM WalkInvariant == Spec => []WalkInv
BY WalkInvInductive, PTL DEF Spec

\* While a query is executed the stack holds what is above the cursor, from the root
\* on: what is popped is the parent of what has run (execute and p_stack.c).
THEOREM StackHoldsPath == Spec => []StackIsPath
<1>1. WalkInv => StackIsPath
  BY DEF WalkInv, StackIsPath, Path
<1> QED
  BY <1>1, WalkInvariant, PTL

\* A query creates relations and changes or removes none that there is
\* (relation_create refuses a name that exists).
THEOREM QueryKeepsRelations == Spec => RelationsKept
<1> DEFINE Kept == \A n \in DOMAIN rels : n \in DOMAIN rels' /\ rels'[n] = rels[n]
<1>1. ASSUME WalkInv, [Next]_vars PROVE Kept
  <2>1. CASE Ask
    BY <2>1 DEF Ask
  <2>2. CASE Parse
    BY <2>2 DEF Parse
  <2>3. CASE Execute
    <3> DEFINE p == LeftMost(nodes, cursor).node
               out == IF nodes[p].operation \in Leaf THEN Refuses ELSE Operation(p)
    <3>1. phase = "execute" /\ (rels' = rels \/ rels' = Created(out))
      BY <2>3 DEF Execute
    <3>2. p \in DOMAIN nodes /\ nodes[p].operation \in Operations
      <4>1. Running(nodes, cursor)
        BY <1>1, <3>1 DEF WalkInv
      <4> QED BY <4>1, Descends DEF Running
    <3> HIDE DEF p
    <3>3. Creates(out, Target(p), Free(Target(p)))
      <4>1. Free(Target(p)) \in BOOLEAN
        BY DEF Free
      <4>2. Creates(Refuses, Target(p), Free(Target(p)))
        BY <4>1, OutcomesCreate
      <4> QED BY <3>2, <4>2, OperationCreates
    <3> HIDE DEF out
    <3> QED BY <3>1, <3>3, CreatedKeeps
  <2>4. CASE UNCHANGED vars
    BY <2>4 DEF vars
  <2> QED BY <1>1, <2>1, <2>2, <2>3, <2>4 DEF Next
<1>2. Kept => [Kept]_vars
  OBVIOUS
<1>3. WalkInv /\ [Next]_vars => [Kept]_vars
  BY <1>1
<1> QED
  BY <1>3, WalkInvariant, PTL DEF Spec, RelationsKept

-------------------------------------------------------------------------------
\* Every node once.

\* The tree of a query, as TreeAssumption has it.
Shape(tree) ==
    /\ DOMAIN tree \subseteq Places /\ Root \in DOMAIN tree
    /\ \A p \in DOMAIN tree : p # Root => Front(p) \in DOMAIN tree
    /\ \A p \in DOMAIN tree : /\ Left(p) \in DOMAIN tree => tree[p].op \notin Leaf
                              /\ Right(p) \in DOMAIN tree => tree[p].op \in Binary

\* What has been parsed is what the parser has been to, and what has been executed is
\* what is no longer in the tree.
OnceInv ==
    /\ phase \in {"parse", "execute"} =>
        /\ Shape(query) /\ DOMAIN parsed = DOMAIN query /\ DOMAIN executed = DOMAIN query
    /\ phase = "parse" =>
        \A p \in DOMAIN query : /\ parsed[p] = IF p \in Visited(nodes, cursor) THEN 1 ELSE 0
                                /\ executed[p] = 0
    /\ phase = "execute" =>
        \A p \in DOMAIN query : /\ parsed[p] = 1
                                /\ executed[p] = IF p \in DOMAIN nodes THEN 0 ELSE 1
    /\ phase \in {"prompt", "dead"} => EachNodeOnce

\* The parse tree is not larger than what was meant, and of its operations.
AsWritten ==
    /\ phase # "prompt" => DOMAIN nodes \subseteq DOMAIN query
    /\ phase # "prompt" => \A p \in DOMAIN nodes : parsed[p] > 0 =>
            nodes[p].operation = query[p].op

\* A parse tree all of whose nodes have been read is as large as what was meant.
LEMMA WholeTree ==
    ASSUME NEW ns, NEW tree, Tree(ns), \A p \in DOMAIN ns : Entered(ns[p]), Shape(tree),
           \A p \in DOMAIN ns : p \in DOMAIN tree /\ ns[p].operation = tree[p].op
    PROVE  DOMAIN tree = DOMAIN ns
<1> SUFFICES ASSUME NEW x \in DOMAIN tree, x \notin DOMAIN ns PROVE FALSE
  OBVIOUS
<1> DEFINE T == {Len(p) : p \in DOMAIN tree \ DOMAIN ns}
<1>1. T \in SUBSET Nat /\ T # {}
  <2>1. \A p \in DOMAIN tree : Len(p) \in Nat
    BY DEF Shape, Places
  <2>2. Len(x) \in T
    OBVIOUS
  <2> QED BY <2>1, <2>2
<1>2. PICK n \in T : \A m \in T : n <= m
  <2> HIDE DEF T
  <2> QED BY <1>1, SmallestOf
<1>3. PICK p \in DOMAIN tree \ DOMAIN ns : n = Len(p)
  OBVIOUS
<1>4. p \in Places /\ p # Root /\ Root \in DOMAIN ns
  BY DEF Shape, Tree
<1> DEFINE q == Front(p)
           b == Last(p)
<1>5. q \in Places /\ b \in {0, 1} /\ p = Append(q, b) /\ Len(p) = Len(q) + 1 /\ Len(q) \in Nat
  BY <1>4, ParentIs DEF Places
<1>6. q \in DOMAIN tree
  BY <1>3, <1>4 DEF Shape
<1> HIDE DEF q, b
<1>7. q \in DOMAIN ns
  <2> SUFFICES ASSUME q \notin DOMAIN ns PROVE FALSE
    OBVIOUS
  <2>1. Len(q) \in T
    BY <1>6
  <2> HIDE DEF T
  <2>2. n <= Len(q)
    BY <1>2, <2>1
  <2> QED BY <2>2, <1>3, <1>5
<1>8. Entered(ns[q]) /\ ns[q].operation = tree[q].op
  BY <1>7
<1>9. CASE b = 0
  <2>1. p = Left(q)
    BY <1>5, <1>9 DEF Left
  <2>2. tree[q].op \notin Leaf
    BY <1>3, <1>6, <2>1 DEF Shape
  <2>3. ns[q].left
    BY <1>8, <2>2 DEF Entered
  <2> QED BY <1>3, <1>7, <2>1, <2>3 DEF Tree
<1>10. CASE b = 1
  <2>1. p = Right(q)
    BY <1>5, <1>10 DEF Right
  <2>2. tree[q].op \in Binary
    BY <1>3, <1>6, <2>1 DEF Shape
  <2>3. ns[q].right
    BY <1>8, <2>2, Kinds DEF Entered
  <2> QED BY <1>3, <1>7, <2>1, <2>3 DEF Tree
<1> QED
  BY <1>5, <1>9, <1>10

\* A query is asked.
LEMMA AskOnce ==
    ASSUME Ask
    PROVE  OnceInv'
<1>1. PICK q \in Queries :
        /\ nodes' = Alone(new_parse_node(q.text))
        /\ query' = q.tree
        /\ parsed' = [p \in DOMAIN q.tree |-> 0]
        /\ executed' = [p \in DOMAIN q.tree |-> 0]
  BY DEF Ask
<1>2. phase' = "parse" /\ cursor' = Root
  BY DEF Ask
<1>3. Shape(q.tree)
  BY TreeAssumption DEF Shape, Places
<1>4. Visited(nodes', cursor') = {}
  BY <1>1, <1>2, FirstNode
<1> QED
  BY <1>1, <1>2, <1>3, <1>4 DEF OnceInv

\* A round of parse.
LEMMA ParseOnce ==
    ASSUME Parse, WalkInv, OnceInv, AsWritten, AsWritten'
    PROVE  OnceInv'
<1>1. phase = "parse" /\ query' = query /\ executed' = executed
      /\ parsed' = [parsed EXCEPT ![cursor] = IF @ = 2 THEN 2 ELSE @ + 1]
  BY DEF Parse
<1>2. Walked(nodes, cursor) /\ Fresh(nodes[cursor]) /\ cursor \in DOMAIN nodes
  BY <1>1 DEF WalkInv, Walked
<1>3. /\ Shape(query) /\ DOMAIN parsed = DOMAIN query /\ DOMAIN executed = DOMAIN query
      /\ \A p \in DOMAIN query : /\ parsed[p] = IF p \in Visited(nodes, cursor) THEN 1 ELSE 0
                                 /\ executed[p] = 0
  BY <1>1 DEF OnceInv
<1> DEFINE seen == Visited(nodes, cursor) \cup {cursor}
<1>4. cursor \in DOMAIN query /\ cursor \notin Visited(nodes, cursor)
  BY <1>1, <1>2 DEF AsWritten, Visited
<1>5. /\ DOMAIN parsed' = DOMAIN query
      /\ \A p \in DOMAIN query : parsed'[p] = IF p \in seen THEN 1 ELSE 0
  BY <1>1, <1>3, <1>4
<1>6. \/ phase' = "parse" /\ Visited(nodes', cursor') = seen
      \/ /\ phase' = "execute" /\ Running(nodes', cursor')
         /\ DOMAIN nodes' = seen /\ \A p \in DOMAIN nodes' : Entered(nodes'[p])
      \/ phase' = "prompt"
  BY <1>2, ParseRound
<1> HIDE DEF seen
<1>7. CASE phase' = "parse" /\ Visited(nodes', cursor') = seen
  BY <1>1, <1>3, <1>5, <1>7 DEF OnceInv
<1>8. CASE /\ phase' = "execute" /\ Running(nodes', cursor')
           /\ DOMAIN nodes' = seen /\ \A p \in DOMAIN nodes' : Entered(nodes'[p])
  <2>1. DOMAIN nodes' \subseteq DOMAIN query
    BY <1>1, <1>8 DEF AsWritten
  <2>2. \A p \in DOMAIN nodes' : p \in DOMAIN query /\ parsed'[p] = 1
    BY <1>5, <1>8, <2>1
  <2>3. \A p \in DOMAIN nodes' : nodes'[p].operation = query[p].op
    BY <1>1, <1>8, <2>2 DEF AsWritten
  <2>4. DOMAIN query = DOMAIN nodes'
    BY <1>3, <1>8, <2>2, <2>3, WholeTree DEF Running
  <2> QED BY <1>1, <1>3, <1>5, <1>8, <2>4 DEF OnceInv
<1>9. CASE phase' = "prompt"
  <2>1. EachNodeOnce'
    BY <1>1, <1>3, <1>5, <1>9 DEF EachNodeOnce
  <2> QED BY <1>9, <2>1 DEF OnceInv
<1> QED
  BY <1>6, <1>7, <1>8, <1>9

\* A round of execute.
LEMMA ExecuteOnce ==
    ASSUME Execute, WalkInv, OnceInv, AsWritten
    PROVE  OnceInv'
<1>1. phase = "execute" /\ query' = query /\ parsed' = parsed
  BY DEF Execute
<1>2. Running(nodes, cursor) /\ stack = Path(cursor) /\ Tree(nodes)
  BY <1>1 DEF WalkInv, Running
<1>3. /\ Shape(query) /\ DOMAIN parsed = DOMAIN query /\ DOMAIN executed = DOMAIN query
      /\ \A p \in DOMAIN query : /\ parsed[p] = 1
                                 /\ executed[p] = IF p \in DOMAIN nodes THEN 0 ELSE 1
  BY <1>1 DEF OnceInv
<1>4. PICK p \in DOMAIN nodes :
        /\ Left(p) \notin DOMAIN nodes /\ Right(p) \notin DOMAIN nodes
        /\ executed' = [executed EXCEPT ![p] = @ + 1]
        /\ \/ phase' \in {"prompt", "dead"}
           \/ phase' = "execute" /\ DOMAIN nodes' = DOMAIN nodes \ {p}
  BY <1>2, ExecuteRound
<1>5. p \in DOMAIN query
  BY <1>1 DEF AsWritten
<1>6. /\ DOMAIN executed' = DOMAIN query
      /\ \A k \in DOMAIN query : executed'[k] = IF k \in DOMAIN nodes \ {p} THEN 0 ELSE 1
  BY <1>3, <1>4, <1>5
<1>7. CASE phase' = "execute" /\ DOMAIN nodes' = DOMAIN nodes \ {p}
  BY <1>1, <1>3, <1>6, <1>7 DEF OnceInv
<1>8. CASE phase' \in {"prompt", "dead"}
  <2>1. ASSUME NEW k \in DOMAIN query, executed'[k] = 1,
               NEW b \in {0, 1}, Append(k, b) \in DOMAIN query
        PROVE  executed'[Append(k, b)] = 1
    <3>1. k \in Places
      BY <1>3 DEF Shape
    <3>2. k = p \/ k \notin DOMAIN nodes
      BY <1>6, <2>1
    <3>3. Append(k, b) \notin DOMAIN nodes
      <4>1. CASE k = p
        BY <4>1, <1>4 DEF Left, Right
      <4>2. CASE k \notin DOMAIN nodes
        <5>1. Above(k, Append(k, b))
          BY <3>1, AboveSelf, AboveChild
        <5> QED BY <4>2, <5>1, <3>1, <1>2 DEF Tree
      <4> QED BY <3>2, <4>1, <4>2
    <3> QED BY <2>1, <3>3, <1>6
  <2>2. \A k \in DOMAIN query : parsed[k] = 1 /\ executed'[k] \in {0, 1}
    BY <1>3, <1>6
  <2>3. EachNodeOnce'
    BY <1>1, <1>8, <2>1, <2>2 DEF EachNodeOnce
  <2> QED BY <1>8, <2>3 DEF OnceInv
<1> QED
  BY <1>4, <1>7, <1>8

\* OnceInv says that every node is taken once.
LEMMA OnceMeans ==
    ASSUME WalkInv, OnceInv
    PROVE  EachNodeOnce
<1>1. CASE phase = "parse"
  BY <1>1 DEF OnceInv, EachNodeOnce
<1>2. CASE phase = "execute"
  <2>1. Shape(query) /\ Tree(nodes)
    BY <1>2 DEF OnceInv, WalkInv, Running
  <2>2. \A p \in DOMAIN query : /\ parsed[p] = 1
                                /\ executed[p] = IF p \in DOMAIN nodes THEN 0 ELSE 1
    BY <1>2 DEF OnceInv
  <2>3. ASSUME NEW k \in DOMAIN query, executed[k] = 1,
               NEW b \in {0, 1}, Append(k, b) \in DOMAIN query
        PROVE  executed[Append(k, b)] = 1
    <3>1. k \in Places /\ k \notin DOMAIN nodes
      BY <2>1, <2>2, <2>3 DEF Shape
    <3>2. Above(k, Append(k, b))
      BY <3>1, AboveSelf, AboveChild
    <3>3. Append(k, b) \notin DOMAIN nodes
      BY <3>1, <3>2, <2>1 DEF Tree
    <3> QED BY <3>3, <2>2, <2>3
  <2> QED BY <2>2, <2>3 DEF EachNodeOnce
<1>3. CASE phase \in {"prompt", "dead"}
  BY <1>3 DEF OnceInv
<1> QED
  BY <1>1, <1>2, <1>3 DEF WalkInv

\* As long as the text is read as it was meant (ReadAsWritten), parse takes every node
\* of the query once and execute every node once, after its operands: the marks ldone
\* and rdone and the cleared pointers are enough for that (parse and execute).
THEOREM EveryNodeOnce == Spec /\ []ReadAsWritten => []EachNodeOnce
<1>1. ReadAsWritten => AsWritten
  BY DEF ReadAsWritten, AsWritten
<1>2. Init => OnceInv
  <2> SUFFICES ASSUME Init PROVE OnceInv
    OBVIOUS
  <2>1. /\ phase = "prompt" /\ query = NoQuery /\ DOMAIN query = {Root}
        /\ parsed[Root] = 0 /\ executed[Root] = 0
    BY DEF Init, NoQuery, Alone
  <2> QED BY <2>1 DEF OnceInv, EachNodeOnce
<1>3. WalkInv /\ OnceInv /\ AsWritten /\ AsWritten' /\ [Next]_vars => OnceInv'
  <2> SUFFICES ASSUME WalkInv, OnceInv, AsWritten, AsWritten', [Next]_vars PROVE OnceInv'
    OBVIOUS
  <2>1. CASE UNCHANGED vars
    BY <2>1 DEF vars, OnceInv, EachNodeOnce, Visited, Awaits
  <2> QED BY <2>1, AskOnce, ParseOnce, ExecuteOnce DEF Next
<1>4. WalkInv /\ OnceInv => EachNodeOnce
  BY OnceMeans
<1> QED
  BY <1>1, <1>2, <1>3, <1>4, WalkInvariant, PTL DEF Spec

================================================================================
