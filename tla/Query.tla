-------------------------------- MODULE Query --------------------------------
(***************************************************************************)
(* A query, from its text to the relation it answers with                   *)
(* (src/src/parser.c).  `parse' grows the tree of operations from the text, *)
(* node by node, and `execute' consumes it, operation by operation, with a  *)
(* stack (src/src/p_stack.c) of the nodes whose operands it has gone to     *)
(* fetch.  The operations are those of Algebra.                             *)
(*                                                                         *)
(* What is asked is a text and the tree that it is to mean: a function from *)
(* places (sequences of turns, 0 to the left and 1 to the right) to what    *)
(* stands there.  Only the properties look at the tree.                     *)
(***************************************************************************)
EXTENDS Algebra, TLC

CONSTANTS Queries,      \* what may be asked: texts with their trees
          BaseRelations,\* the relations there are to begin with, a set
          Internal,     \* the name of a relation of the data dictionary
          MaxQueries    \* bound: how many queries are asked

VARIABLES
    rels,       \* the relations of the database, by name
    last,       \* the variable `last'
    phase,      \* "prompt", "parse", "execute" or, when the process ended, "dead"
    nodes,      \* the parse tree, by place
    cursor,     \* ptree: the place where parse or execute is
    stack,      \* ptstack
    answer,     \* what the last query answered: the name of a relation, or NULL
    asked       \* how many queries were asked

\* What the properties remember: what was meant; whether a node of it was parsed
\* 0, 1 or 2 times, 2 standing for more; how often it was executed; and what the
\* algebra says its relation is.
VARIABLES query,        \* the tree of what was asked
          parsed, executed, ideal

vars == <<rels, last, phase, query, nodes, cursor, stack, answer, asked,
          parsed, executed, ideal>>

Leaf == {"relation"}
Unary == {"duplicate", "select", "project", "print"}
Binary == {"union", "intersect", "difference", "product", "join"}

Root == <<>>
Left(p) == Append(p, 0)
Right(p) == Append(p, 1)

\* The tree of a query is one: it has a root, what is above a place, and as many
\* places below it as the operation there has operands.
ASSUME TreeAssumption ==
    \A q \in Queries : \A tree \in {q.tree} :
        /\ Root \in DOMAIN tree
        /\ \A p \in DOMAIN tree :
            /\ p \in Seq({0, 1})
            /\ p # Root => Front(p) \in DOMAIN tree
            /\ tree[p].op \in Leaf \cup Unary \cup Binary
            /\ Left(p) \in DOMAIN tree <=> tree[p].op \notin Leaf
            /\ Right(p) \in DOMAIN tree <=> tree[p].op \in Binary

Alone(node) == [p \in {Root} |-> node]
NoQuery == Alone([op |-> "relation", arg |-> NULL, target |-> NULL])

\* A parse node.  `left' and `right' are its pointers to children, `command'
\* the relation that a leaf names, `argument' what `second' or `third' is when it
\* is no operand: a condition or a list of attributes.
new_parse_node(expression) ==
    [ldone |-> FALSE, rdone |-> FALSE, left |-> FALSE, right |-> FALSE,
     lresult |-> NULL, rresult |-> NULL, expression |-> expression, operation |-> NULL,
     command |-> NULL, target |-> NULL, argument |-> NULL]

\* A tree with another node, or a database with another relation.
With(f, x, value) == [y \in DOMAIN f \cup {x} |-> IF y = x THEN value ELSE f[y]]

RelationOf(name) == IF name \in DOMAIN rels THEN rels[name] ELSE NULL

Init ==
    /\ rels = [n \in {r.name : r \in BaseRelations} |->
                  CHOOSE r \in BaseRelations : r.name = n]
    /\ last = Internal
    /\ phase = "prompt"
    /\ query = NoQuery
    /\ nodes = Alone(new_parse_node(<<>>))
    /\ cursor = Root
    /\ stack = <<>>
    /\ answer = NULL
    /\ asked = 0
    /\ parsed = Alone(0)
    /\ executed = Alone(0)
    /\ ideal = Alone(NULL)

-------------------------------------------------------------------------------
\* parse.

Ask ==
    /\ phase = "prompt"
    /\ asked < MaxQueries
    /\ \E q \in Queries :
        /\ nodes' = Alone(new_parse_node(q.text))
        /\ query' = q.tree
        /\ parsed' = [p \in DOMAIN q.tree |-> 0]
        /\ executed' = [p \in DOMAIN q.tree |-> 0]
        /\ ideal' = [p \in DOMAIN q.tree |-> NULL]
    /\ phase' = "parse"
    /\ cursor' = Root
    /\ stack' = <<>>
    /\ answer' = NULL
    /\ asked' = asked + 1
    /\ UNCHANGED <<rels, last>>

\* The words of the table of commands that are operators.
commands ==
    [word \in {"difference", "display", "duplicate", "intersect", "join", "minus", "print",
               "product", "project", "restrict", "select", "union"} |->
        CASE word = "display" -> "print"
          [] word = "minus" -> "difference"
          [] word = "restrict" -> "select"
          [] OTHER -> word]

\* What is no command, when spaces before it are skipped, is the name of a relation.
get_command(token) == LET word == Name(strip_leading_spaces(token))
                      IN  IF word \in DOMAIN commands THEN commands[word] ELSE "relation"

\* The parts of an expression that are in brackets, up to three, and the rest.
InBrackets(s) ==
    FoldLeft(LAMBDA out, i : LET cut == cut_to_right_bracket(out.rest, FALSE)
                             IN  [parts |-> Append(out.parts, cut.result), rest |-> cut.rest],
             [parts |-> <<>>, rest |-> strip_trailing_spaces(strip_leading_spaces(s))], <<1, 2, 3>>)

\* The rest of an expression: what is assigned to, the command wherever it is,
\* and what follows it.
Commanded(rest) ==
    LET assignment == Until(rest, 1, {"="})
        assigned == assignment <= Len(rest)
        command == cut_token(IF assigned THEN After(rest, assignment + 1) ELSE rest)
    IN  [command |-> command.token,
         target |-> IF assigned THEN Name(strip_trailing_spaces(SubSeq(rest, 1, assignment - 1)))
                    ELSE NULL,
         bare |-> Tokens(command.rest)]

\* An expression as it is read.  Without brackets what follows the command is its
\* operands and its argument.
Read(parts, words) ==
    LET operation == get_command(words.command)
        part(n) == CASE \E i \in 1..n : parts[i] # <<>> -> parts[n]
                     [] (\A i \in 1..n : parts[i] = <<>>) /\ n <= Len(words.bare) -> words.bare[n]
                     [] OTHER -> <<>>
    IN  [operation |-> operation,
         command |-> Name(words.command),
         target |-> words.target,
         operands |-> CASE operation \in Unary -> <<part(1)>>
                        [] operation \in Binary -> <<part(1), part(2)>>
                        [] OTHER -> <<>>,
         given |-> CASE operation \in {"select", "project"} -> part(2)
                     [] operation = "join" -> part(3)
                     [] OTHER -> <<>>]

\* What the operation will make of its argument: a condition or attributes.
Understood(reading, given) ==
    [reading EXCEPT !.given = CASE reading.operation \in {"select", "join"} -> qualification(given)
                                [] reading.operation = "project" -> attribute_list(given)
                                [] OTHER -> NULL]

\* An expression, read.
Reading(expression) ==
    The({Understood(r, r.given) : r \in
            {Read(c.brackets.parts, c.words) : c \in
                {[brackets |-> b, words |-> Commanded(b.rest)] : b \in {InBrackets(expression)}}}})

\* What comes up in most queries is read once and remembered: the texts, and the
\* operands in them to a depth of three.
Expressions ==
    FoldLeft(LAMBDA all, depth : all \cup UNION {Range(Reading(s).operands) : s \in all},
             {q.text : q \in Queries}, <<1, 2, 3>>)
Remembered == [s \in Expressions |-> Reading(s)]

\* A variable stands for its value: `last' for the relation it names.
Resolved(expression) ==
    IF expression = <<"@", "last">>
    THEN [operation |-> "relation", command |-> last, target |-> NULL, operands |-> <<>>,
          given |-> NULL]
    ELSE IF expression \in Expressions THEN Remembered[expression] ELSE Reading(expression)

\* The node that has been read gets its children.  A node with one
\* operand has its right side `done'.
Grown(ns, p, r) ==
    LET read == [ns EXCEPT ![p].operation = r.operation, ![p].command = r.command,
                           ![p].target = r.target, ![p].argument = r.given]
    IN  CASE r.operation \in Leaf -> read
          [] r.operation \in Unary ->
                With([read EXCEPT ![p].left = TRUE, ![p].rdone = TRUE],
                     Left(p), new_parse_node(r.operands[1]))
          [] r.operation \in Binary ->
                With(With([read EXCEPT ![p].left = TRUE, ![p].right = TRUE],
                          Left(p), new_parse_node(r.operands[1])),
                     Right(p), new_parse_node(r.operands[2]))

LeftOpen(ns, p) == ns[p].left /\ ~ns[p].ldone
RightOpen(ns, p) == ns[p].right /\ ~ns[p].rdone
Done(ns, p) == ns[p].ldone /\ ns[p].rdone

At(ns, p) == [nodes |-> ns, cursor |-> p]
GoLeft(ns, p) == At([ns EXCEPT ![p].ldone = TRUE], Left(p))
\* Mutant: the turn is not noted.
GoRightAgain(ns, p) == At(ns, Right(p))
GoRight(ns, p) == At([ns EXCEPT ![p].rdone = TRUE], Right(p))

\* The nearest node above that is not done, or the root.
Climbed(ns, p) ==
    LET open == {n \in 0..(Len(p) - 1) : n = 0 \/ ~Done(ns, SubSeq(p, 1, n))}
    IN  SubSeq(p, 1, CHOOSE n \in open : \A m \in open : m <= n)

\* Where to go from a node that has been read.
Turn(ns, p) ==
    CASE LeftOpen(ns, p) -> GoLeft(ns, p)
      [] ~LeftOpen(ns, p) /\ RightOpen(ns, p) -> GoRight(ns, p)
      [] ~LeftOpen(ns, p) /\ ~RightOpen(ns, p) /\ p = Root -> At(ns, p)
      [] OTHER -> LET up == Climbed(ns, p)
                  IN  IF up # Root /\ RightOpen(ns, up) THEN GoRight(ns, up) ELSE At(ns, up)

\* One round of the loop.  Back at the root the tree is complete, has a right
\* side still to do, or is not one: a relation's name alone is no query.
Parse ==
    /\ phase = "parse"
    /\ parsed' = [parsed EXCEPT ![cursor] = IF @ = 2 THEN 2 ELSE @ + 1]
    /\ \E read \in {Resolved(nodes[cursor].expression)} :
       \E grown \in {Grown(nodes, cursor, read)} :
       \E turn \in {Turn(grown, cursor)} :
       LET ns == turn.nodes
       IN  \/ /\ turn.cursor # Root
              /\ nodes' = ns
              /\ cursor' = turn.cursor
              /\ phase' = phase
           \/ /\ turn.cursor = Root
              /\ Done(ns, Root)
              /\ nodes' = ns
              /\ cursor' = Root
              /\ phase' = "execute"
           \/ /\ turn.cursor = Root
              /\ ~Done(ns, Root)
              /\ RightOpen(ns, Root)
              /\ nodes' = GoRight(ns, Root).nodes
              /\ cursor' = GoRight(ns, Root).cursor
              /\ phase' = phase
           \/ /\ turn.cursor = Root
              /\ ~Done(ns, Root)
              /\ ~RightOpen(ns, Root)
              /\ nodes' = ns
              /\ cursor' = Root
              /\ phase' = "prompt"
    /\ UNCHANGED <<rels, last, query, stack, answer, asked, executed, ideal>>

-------------------------------------------------------------------------------
\* execute.

\* The places passed on the way down to the left-most node, and that node.
LeftMost(ns, p) ==
    LET down(n) == p \o [i \in 1..n |-> 0]
        depth == CHOOSE n \in 0..Cardinality(DOMAIN ns) :
                     ~ns[down(n)].left /\ \A m \in 0..(n - 1) : ns[down(m)].left
    IN  [passed |-> [i \in 1..depth |-> down(i - 1)], node |-> down(depth)]

\* The name of a node's relation: the user's, or a random one, which is new.
Target(p) ==
    IF nodes[p].target # NULL THEN nodes[p].target
    ELSE "zz" \o ToString(Cardinality(DOMAIN rels))

\* relation_create refuses a name that exists.
\* Mutant: it does not.
AlwaysFree(name) == TRUE
Free(name) == name \notin DOMAIN rels

\* What the operation of a node does with its operands.
Operation(p) ==
    LET op == nodes[p].operation
        l == RelationOf(nodes[p].lresult)
        r == RelationOf(nodes[p].rresult)
        dest == Target(p)
        free == Free(dest)
    IN  CASE op = "duplicate" -> rl_duplicate(l, dest, free)
          [] op = "select" -> rl_select(l, nodes[p].argument, dest, free)
          [] op = "project" -> rl_project(l, nodes[p].argument, dest, free)
          [] op = "union" -> rl_union(l, r, dest, free)
          [] op = "intersect" -> rl_intersect(l, r, dest, free)
          [] op = "difference" -> rl_difference(l, r, dest, free)
          [] op = "product" -> rl_product(l, r, dest, free)
          [] op = "join" -> rl_naturaljoin(l, r, nodes[p].argument, dest, free)
          [] op = "print" -> IF l # NULL /\ ~Whole(l) THEN Dies ELSE Refuses

Result(p, outcome) ==
    CASE nodes[p].operation \in Leaf ->
            IF nodes[p].command \in DOMAIN rels THEN nodes[p].command ELSE NULL
      [] nodes[p].operation = "print" -> nodes[p].lresult
      [] OTHER -> IF outcome.answers THEN outcome.new.name ELSE NULL

\* The data dictionary is read and written by queries, which leave their own
\* relation in `last': for a relation that is created, and for the keys of a
\* join.
Maintains(p, outcome) ==
    \/ outcome.new # NULL
    \/ /\ nodes[p].operation = "join" /\ nodes[p].argument = NoCondition
       /\ nodes[p].lresult # NULL /\ nodes[p].rresult # NULL

Created(outcome) ==
    IF outcome.new = NULL THEN rels ELSE With(rels, outcome.new.name, outcome.new)

\* The result goes to the parent, whose pointer to the child is cleared, and
\* the child is freed.
Handed(ns, p, result) ==
    LET up == Front(p)
    IN  [q \in DOMAIN ns \ {p} |->
            IF q # up THEN ns[q]
            ELSE IF Last(p) = 0 THEN [ns[q] EXCEPT !.lresult = result, !.left = FALSE]
            ELSE [ns[q] EXCEPT !.rresult = result, !.right = FALSE]]

\* The next node: the one on top of the stack, or its right child, which keeps
\* it there.
\* Mutant: ... which does not.
LosesParent(ns, st) ==
    IF ns[Last(st)].right THEN [cursor |-> Right(Last(st)), stack |-> Front(st)]
    ELSE [cursor |-> Last(st), stack |-> Front(st)]
Popped(ns, st) ==
    IF ns[Last(st)].right THEN [cursor |-> Right(Last(st)), stack |-> st]
    ELSE [cursor |-> Last(st), stack |-> Front(st)]

\* What `last' is after an operation.  When the query has its answer, that is it.
\* Mutant: the relation created, answered or not.
LastCreated(p, outcome, result) ==
    CASE outcome.new # NULL -> outcome.new.name
      [] OTHER -> last
LastAfter(p, outcome, result) ==
    CASE p = Root /\ result # NULL -> result
      [] (p # Root \/ result = NULL) /\ Maintains(p, outcome) -> Internal
      [] OTHER -> last

-------------------------------------------------------------------------------
\* What relational algebra says of an operation.  A meaning is a relation whose
\* tuples are a set.

\* From left to right: what a comparison joined by `or' gives must pass every
\* later `and'.  Numbers are compared as numbers; with one that is empty
\* nothing holds.
Means(cond, l, s, r, t) ==
    LET holds(i) == LET x == operand_value(cond[i].left, l, s, r, t)
                        y == operand_value(cond[i].right, l, s, r, t)
                        number == "NUMBER" \in {data_type(cond[i].left, l, r),
                                                data_type(cond[i].right, l, r)}
                    IN  IF number THEN x # <<>> /\ y # <<>> /\ Accepts(cond[i].op, atoi(x) - atoi(y))
                        ELSE Accepts(cond[i].op, strcmp(x, y))
    IN  cond = <<>> \/ \E i \in DOMAIN cond :
            /\ cond[i].link # "and"
            /\ holds(i)
            /\ \A j \in DOMAIN cond : j > i /\ cond[j].link = "and" => holds(j)

\* Every operand is found, and only attributes of one type are compared.  With
\* the empty value for a number a condition ends, so that only a single
\* comparison has a meaning with it.
Makes(cond, l, r) ==
    /\ match_tuples(cond, l, r) = "ok"
    /\ \A i \in DOMAIN cond :
        /\ cond[i].link # "xor"
        /\ LET types == {data_type(cond[i].left, l, r), data_type(cond[i].right, l, r)} \ {NULL}
           IN  /\ \A t, u \in types : t = u
               /\ Len(cond) > 1 /\ "NUMBER" \in types =>
                    [kind |-> "value", value |-> <<>>] \notin {cond[i].left, cond[i].right}

\* The attributes by which a join without a condition joins.
Keys(l, r, arg) == IF arg = <<>> /\ Related(l.name, r.name) THEN KeysOf(l.name, r.name) ELSE << <<>>, <<>> >>

Agree(l, s, r, t, keys) ==
    \A i \in DOMAIN keys[1] :
        s[attribute_find(l, keys[1][i])] = t[attribute_find(r, keys[2][i])]

\* A tuple or a header without the left keys.
WithoutKeys(l, s, keys) ==
    LET kept == {i \in DOMAIN l.attrs : l.attrs[i].name \notin Range(keys[1])}
    IN  [n \in 1..Cardinality(kept) |->
            s[CHOOSE i \in kept : Cardinality({j \in kept : j < i}) = n - 1]]

\* The right attributes, the relation's name before a name that is on the left.
Labelled(left, r) ==
    [i \in DOMAIN r.attrs |->
        IF r.attrs[i].name \in Range(attribute_names(left))
        THEN [r.attrs[i] EXCEPT !.name = [rel |-> r.name, attr |-> r.attrs[i].name]]
        ELSE r.attrs[i]]

MeantAttributes(op, arg, l, r) ==
    CASE op \in {"duplicate", "select", "print"} -> l.attrs
      [] op \in {"union", "intersect", "difference"} -> r.attrs
      [] op = "project" -> [i \in DOMAIN arg |-> l.attrs[attribute_find(l, arg[i])]]
      [] op = "product" -> l.attrs \o Labelled(l.attrs, r)
      [] op = "join" -> LET left == WithoutKeys(l, l.attrs, Keys(l, r, arg))
                        IN  left \o Labelled(left, r)

MeantTuples(op, arg, l, r) ==
    CASE op \in {"duplicate", "print"} -> l.tuples
      [] op = "select" -> {t \in l.tuples : Means(arg, l, t, NULL, <<>>)}
      [] op = "project" ->
            {[i \in DOMAIN arg |-> t[attribute_find(l, arg[i])]] : t \in l.tuples}
      [] op = "union" -> l.tuples \cup r.tuples
      [] op = "intersect" -> l.tuples \cap r.tuples
      [] op = "difference" -> l.tuples \ r.tuples
      [] op = "product" -> {p[1] \o p[2] : p \in l.tuples \X r.tuples}
      [] op = "join" ->
            LET keys == Keys(l, r, arg)
            IN  {WithoutKeys(l, p[1], keys) \o p[2] :
                    p \in {p \in l.tuples \X r.tuples :
                              /\ Agree(l, p[1], r, p[2], keys)
                              /\ arg = <<>> \/ Means(arg, l, p[1], r, p[2])}}

\* Is the operation well formed?
MeansWell(op, arg, l, r) ==
    CASE op = "select" -> Makes(arg, l, NULL)
      [] op = "project" -> \A i \in DOMAIN arg : attribute_find(l, arg[i]) > 0
      [] op \in {"union", "intersect", "difference"} -> Len(l.attrs) = Len(r.attrs)
      [] op = "join" -> IF arg = <<>> THEN Related(l.name, r.name) \/ status_productjoin
                        ELSE Makes(arg, l, r)
      [] OTHER -> TRUE

\* LEAP knows tuples by their values run together, and cuts and converts values
\* after that, so that a file may even hold a tuple twice.  What it does with
\* tuples that this confuses is no algebra.
Distinguished(tuples) ==
    \A s, t \in tuples : FlattenSeq(s) = FlattenSeq(t) => s = t
Fits(attrs, t) ==
    /\ DOMAIN t = DOMAIN attrs
    /\ \A i \in DOMAIN attrs :
        /\ Len(t[i]) <= attrs[i].width
        /\ attrs[i].type = "NUMBER" =>
            /\ t[i] # <<>> /\ Range(t[i]) \subseteq Range(Digits)
            /\ t[i][1] = Digits[1] => Len(t[i]) = 1

Meaning(p) ==
    LET op == query[p].op
        arg == query[p].arg
        l == ideal[Left(p)]
        r == IF op \in Binary THEN ideal[Right(p)] ELSE NULL
        attrs == MeantAttributes(op, arg, l, r)
        tuples == MeantTuples(op, arg, l, r)
    IN  IF op \in Leaf
        THEN LET rel == RelationOf(nodes[p].command)
             IN  IF rel # NULL => ~Whole(rel) \/ ~IsInjective(rel.tuples) THEN NULL
                 ELSE [name |-> rel.name, attrs |-> rel.attrs, tuples |-> Range(rel.tuples)]
        ELSE IF /\ l # NULL /\ (op \in Binary => r # NULL)
                /\ op = "print" \/ Free(Target(p))
                /\ MeansWell(op, arg, l, r)
                /\ Distinguished(tuples \cup l.tuples \cup (IF r = NULL THEN {} ELSE r.tuples))
                /\ \A t \in tuples : Fits(attrs, t)
             THEN [name |-> IF op = "print" THEN l.name ELSE Target(p),
                   attrs |-> attrs, tuples |-> tuples]
             ELSE NULL

-------------------------------------------------------------------------------
\* One round of the loop: down to the left-most node, its operation, and on to
\* the node that waits for its result.
Execute ==
    /\ phase = "execute"
    /\ LET way == LeftMost(nodes, cursor)
           p == way.node
           pushed == stack \o way.passed
       IN  \E outcome \in {IF nodes[p].operation \in Leaf THEN Refuses ELSE Operation(p)} :
           \E result \in {Result(p, outcome)} :
           /\ executed' = [executed EXCEPT ![p] = @ + 1]
           /\ \/ /\ outcome.dies
                 /\ phase' = "dead"
                 /\ UNCHANGED <<rels, last, nodes, cursor, stack, answer, ideal>>
              \/ /\ ~outcome.dies
                 /\ ideal' = [q \in DOMAIN ideal |-> IF q = p THEN Meaning(p) ELSE ideal[q]]
                 /\ rels' = Created(outcome)
                 /\ last' = LastAfter(p, outcome, result)
                 /\ \/ /\ p = Root
                       /\ answer' = result
                       /\ phase' = "prompt"
                       /\ UNCHANGED <<nodes, cursor, stack>>
                    \/ /\ p # Root
                       /\ nodes[p].operation \in Leaf /\ result = NULL
                       /\ phase' = "prompt"
                       /\ UNCHANGED <<nodes, cursor, stack, answer>>
                    \/ /\ p # Root
                       /\ nodes[p].operation \in Leaf => result # NULL
                       /\ nodes' = Handed(nodes, p, result)
                       /\ IF pushed = <<>>
                          THEN phase' = "dead" /\ UNCHANGED <<cursor, stack>>
                          ELSE /\ cursor' = Popped(nodes', pushed).cursor
                               /\ stack' = Popped(nodes', pushed).stack
                               /\ phase' = phase
                       /\ UNCHANGED answer
    /\ UNCHANGED <<query, asked, parsed>>

Next == Ask \/ Parse \/ Execute

\* The program runs a query to its end once it was asked.  The guard of Execute
\* is its phase, so that its weak fairness needs no ENABLED, which is slow to
\* evaluate.
Fairness ==
    /\ WF_vars(Parse)
    /\ <>[](phase = "execute") => []<><<Execute>>_vars

Spec == Init /\ [][Next]_vars /\ Fairness

-------------------------------------------------------------------------------
\* Properties.

\* The database, the parse tree and the answer are what their readers expect;
\* what is in a file fits its header.
TypeOK ==
    /\ \A n \in DOMAIN rels :
        /\ rels[n].name = n
        /\ rels[n].tuples # <<>> => Whole(rels[n])
        /\ \A i \in DOMAIN rels[n].tuples : Fits(rels[n].attrs, rels[n].tuples[i])
    /\ phase \in {"prompt", "parse", "execute", "dead"}
    /\ answer # NULL => answer \in DOMAIN rels
    /\ asked \in 0..MaxQueries
    /\ phase \in {"parse", "execute"} => cursor \in DOMAIN nodes

\* parse visits every node of the query exactly once before execute begins, and
\* execute takes every node once, after its operands (process_query relies on
\* ldone, rdone and the cleared pointers for it).
EachNodeOnce ==
    /\ \A p \in DOMAIN query : parsed[p] <= 1 /\ executed[p] <= parsed[p]
    /\ phase = "execute" => \A p \in DOMAIN query : parsed[p] = 1
    /\ \A p \in DOMAIN query : executed[p] = 1 =>
            \A b \in {0, 1} : Append(p, b) \in DOMAIN query => executed[Append(p, b)] = 1

\* What a node was read to be asked for; a condition may be unreadable.
Readable(node) ==
    node.operation \in {"select", "join"} => node.argument.outcome = "ok"
Argument(node) ==
    CASE node.operation = "relation" -> node.command
      [] node.operation \in {"select", "join"} -> node.argument.list
      [] node.operation = "project" -> node.argument.items
      [] OTHER -> <<>>

\* The parse tree is that of the text: every node has the operation, the target
\* and the argument that stand at its place (the brackets are cut out of the
\* text one level at a time, each time into a text that was cut before).
ReadAsWritten ==
    \A p \in DOMAIN nodes :
        /\ phase # "prompt" => p \in DOMAIN query
        /\ phase # "prompt" /\ parsed[p] > 0 =>
            /\ nodes[p].operation = query[p].op
            /\ nodes[p].operation \notin Leaf => nodes[p].target = query[p].target
            /\ query[p].arg # NULL /\ Readable(nodes[p]) => Argument(nodes[p]) = query[p].arg

\* The stack holds the nodes above the cursor that have not been executed, so
\* that what is popped is the parent of what has run.
StackIsPath ==
    phase = "execute" => stack = [i \in 1..Len(cursor) |-> SubSeq(cursor, 1, i - 1)]

\* A selection from a relation without tuples answers nothing (see Closure).
SelectsFromEmpty ==
    \E p \in DOMAIN query : /\ query[p].op = "select"
                            /\ ideal[Left(p)] # NULL /\ ideal[Left(p)].tuples = {}

\* A well-formed query over tuples that LEAP can tell apart answers what
\* relational algebra says, labels and tuples, each tuple once.
AnswerIsAlgebra ==
    phase = "prompt" /\ ideal[Root] # NULL =>
        IF SelectsFromEmpty THEN answer = NULL
        ELSE /\ answer # NULL
             /\ attribute_names(rels[answer].attrs) = attribute_names(ideal[Root].attrs)
             /\ Range(rels[answer].tuples) = ideal[Root].tuples
             /\ IsInjective(rels[answer].tuples)

\* No query changes a relation that exists: operators only create.
RelationsKept ==
    [][\A n \in DOMAIN rels : n \in DOMAIN rels' /\ rels'[n] = rels[n]]_vars

\* A selection's condition that names a relation other than the one selected from.
StrangeCondition(p) ==
    /\ query[p].op = "select"
    /\ \E i \in DOMAIN query[p].arg : \E x \in {query[p].arg[i].left, query[p].arg[i].right} :
        /\ x.kind = "qualified"
        /\ x.rel # IF query[Left(p)].op = "relation" THEN query[Left(p)].arg
                   ELSE query[Left(p)].target

\* The process ends of a query only when the query names a relation whose
\* creation an earlier query gave up, or has a strange condition, or one whose
\* first comparison cannot be read and another follows it: what fails
\* within a query never reaches the operation above it as a relation.
DeathNeedsWreck ==
    phase = "dead" =>
        \/ \E p \in DOMAIN query :
            /\ query[p].op = "relation"
            /\ query[p].arg \in DOMAIN rels
            /\ ~Whole(rels[query[p].arg])
        \/ \E p \in DOMAIN query : StrangeCondition(p)
        \/ \E p \in DOMAIN nodes : /\ nodes[p].operation = "select"
                                   /\ nodes[p].argument.outcome = "dies"

\* `@last' can always be read: it never names what a failed query left behind.
LastIsWhole == last \in DOMAIN rels /\ Whole(rels[last])

\* Every query comes to an end.
EveryQueryEnds == phase # "prompt" ~> phase \in {"prompt", "dead"}

\* Closure (doc/user_guide.htm:805): every operator returns a relation, so that
\* a well-formed query has an answer.
Closure == phase = "prompt" /\ ideal[Root] # NULL => answer # NULL

\* The natural join leaves the left keys out of the header and nothing else
\* (relation_create_both, rtional.c:1216: "Check that the attribute is not to
\* be skipped").
JoinKeepsLabels ==
    phase = "prompt" /\ answer # NULL /\ ideal[Root] # NULL =>
        attribute_names(rels[answer].attrs) = attribute_names(ideal[Root].attrs)

===============================================================================
