------------------------------- MODULE Algebra -------------------------------
(***************************************************************************)
(* The operators that make a new relation out of others (src/src/rtional.c) *)
(* and the conditions they evaluate (src/src/cond.c), as functions of their *)
(* operands.  Nothing else touches the operands or the new relation while   *)
(* an operator runs, so that each is one function from what it reads to     *)
(* what it leaves behind.                                                   *)
(*                                                                         *)
(* A relation is its file (src/src/tuples.c): a header, and the tuples in   *)
(* their order.  A value is a sequence of letters, as it is read, a tuple   *)
(* one of values.  Conditions and lists of attributes were read by Text.    *)
(***************************************************************************)
EXTENDS Text, Functions

CONSTANTS NULL,         \* the null pointer: no relation
          within,       \* pairs of attribute names, the first a part of the second
          relship,      \* the relationships of the data dictionary
          status_productjoin   \* is a join without a condition a product?

\* A relationship names two relations and the attributes that join them.
\* There is one for a pair of relations, and its lists of keys match.
ASSUME RelshipAssumption ==
    /\ \A s, u \in relship : s.foreign = u.foreign /\ s.primary = u.primary => s = u
    /\ \A s \in relship : Len(s.fkeys) = Len(s.pkeys) /\ Len(s.fkeys) > 0
    /\ status_productjoin \in BOOLEAN

-------------------------------------------------------------------------------
\* The header of a relation's file: its name, how many attributes there are to
\* be, these, and once more how many there are, for the end of the header.

relation_create_write_header(name, noattribs) ==
    [name |-> name, noattributes |-> noattribs, attrs |-> <<>>, marker |-> NULL, tuples |-> <<>>]

\* The sizes of numbers and truth values are given by their types.
relation_create_write_attribute(attribute) ==
    [attribute EXCEPT !.width = CASE attribute.type = "STRING" -> IF @ = 0 THEN 255 ELSE @
                                  [] attribute.type = "NUMBER" -> 8
                                  [] attribute.type = "BOOLEAN" -> 1]

relation_update_header(file, noattribs) == [file EXCEPT !.noattributes = noattribs]
relation_create_write_eoh_marker(file, noattribs) == [file EXCEPT !.marker = noattribs]

\* What relation_create leaves when nothing is written after it: a header that
\* promises an attribute.
Wreck(name) == relation_create_write_header(name, 1)

\* What an operator makes of it.
Relation(name, attrs, tuples) ==
    LET written == [Wreck(name) EXCEPT !.attrs =
                       [i \in DOMAIN attrs |-> relation_create_write_attribute(attrs[i])]]
        headed == relation_update_header(written, Len(attrs))
    IN  [relation_create_write_eoh_marker(headed, Len(attrs)) EXCEPT !.tuples = tuples]

\* Reading: NULL stands for what is not there.
tuple_readheader(file) == file.noattributes
relation_attribute_read(file, count) ==
    IF count \in DOMAIN file.attrs THEN file.attrs[count] ELSE NULL
relation_read_eoh_marker(file, noattributes) == file.marker = noattributes

\* The attributes of a relation, or NULL: an attribute that is not there is used
\* all the same, and so is the result when the marker is not, so that either
\* ends the process.
tuple_prepare(file) ==
    LET atts == [count \in 1..tuple_readheader(file) |-> relation_attribute_read(file, count)]
    IN  IF NULL \notin Range(atts) /\ relation_read_eoh_marker(file, tuple_readheader(file))
        THEN atts ELSE NULL

Whole(rel) == tuple_prepare(rel) # NULL

attribute_names(attrs) == [i \in DOMAIN attrs |-> attrs[i].name]

\* What an operator does: the relation it creates, if any; whether it returns
\* it; whether the process survives.
Answers(rel) == [new |-> rel, answers |-> TRUE, dies |-> FALSE]
Leaves(rel)  == [new |-> rel, answers |-> FALSE, dies |-> FALSE]
Refuses      == [new |-> NULL, answers |-> FALSE, dies |-> FALSE]
Dies         == [new |-> NULL, answers |-> FALSE, dies |-> TRUE]

-------------------------------------------------------------------------------
\* Writing tuples.  (A definition whose comment begins with `Mutant' is a slip
\* of the next one, which a property must notice.)

\* The text by which a tuple is known: its values, run together.
tuple_to_string(t) == IF t = <<>> THEN t ELSE FlattenSeq(t)

Cut(value, width) ==
    IF Len(value) > width THEN SubSeq(value, 1, width) ELSE value

\* The number that a value begins with, or 0, and how a number is read back.
atoi(v) ==
    FoldLeft(LAMBDA n, a : 10 * n + SelectInSeq(Digits, LAMBDA d : d = a) - 1,
             0, SubSeq(v, 1, Past(v, 1, ToSet(Digits)) - 1))
Decimal(n) ==
    LET length == CHOOSE k \in 1..9 : n < 10^k /\ (k > 1 => n >= 10^(k - 1))
    IN  [i \in 1..length |-> Digits[((n \div 10^(length - i)) % 10) + 1]]

\* The tuple as it is in the file: strings are cut to their attributes, and what
\* is to be a number becomes one.
\* Mutant: strings are not cut.
StoredWhole(attrs, t) ==
    [i \in DOMAIN attrs |-> IF attrs[i].type = "NUMBER" THEN Decimal(atoi(t[i])) ELSE t[i]]
Stored(attrs, t) ==
    [i \in DOMAIN attrs |-> IF attrs[i].type = "NUMBER" THEN Decimal(atoi(t[i]))
                            ELSE Cut(t[i], attrs[i].width)]

\* The tuples a new relation holds once those of the sequence have been
\* appended: one whose text has been written before is dropped.
tuple_append(out, attrs, t) ==
    IF tuple_to_string(t) \in out.taken THEN out
    ELSE [taken |-> out.taken \cup {tuple_to_string(t)},
          tuples |-> Append(out.tuples, Stored(attrs, t))]

Written(attrs, tuples) ==
    FoldLeft(LAMBDA out, t : tuple_append(out, attrs, t),
             [taken |-> {}, tuples |-> <<>>], tuples).tuples

Texts(tuples) == {tuple_to_string(t) : t \in Range(tuples)}

-------------------------------------------------------------------------------
\* Attributes.

\* The place of an attribute, or 0: the first that has the name.
attribute_find(rel, name) ==
    LET places == {i \in DOMAIN rel.attrs : rel.attrs[i].name = name}
    IN  IF places = {} THEN 0 ELSE CHOOSE i \in places : \A j \in places : i <= j

\* strstr: does the name occur in one of the list that has not been struck out?
Occurs(name, key) == key # NULL /\ (name = key \/ <<name, key>> \in within)

\* The attributes of the left relation that are not to be skipped.  A match
\* strikes the name it was found in out of the list.
Unskipped(attrs, skip_list) ==
    FoldLeft(LAMBDA out, a :
                 LET found == {i \in DOMAIN out.list : Occurs(a.name, out.list[i])}
                 IN  IF found = {} THEN [out EXCEPT !.kept = Append(@, a)]
                     ELSE LET i == CHOOSE i \in found : \A j \in found : i <= j
                          IN  [out EXCEPT !.list[i] = NULL],
             [kept |-> <<>>, list |-> skip_list], attrs).kept

attribute_used(attrs, name) == \E i \in DOMAIN attrs : attrs[i].name = name

\* The attributes of the right relation follow; a name that is taken gets the
\* relation's in front.
JoinedAttributes(attrs, rel) ==
    FoldLeft(LAMBDA out, a :
                 Append(out, IF attribute_used(out, a.name)
                             THEN [a EXCEPT !.name = [rel |-> rel.name, attr |-> a.name]]
                             ELSE a),
             attrs, rel.attrs)

\* Attributes are not compared: relations of equally many are compatible.
rl_is_union_compatible(rel1, rel2) ==
    rel1 # NULL /\ rel2 # NULL /\ Len(rel1.attrs) = Len(rel2.attrs)

-------------------------------------------------------------------------------
\* Conditions.

special_condition_true == qualification(<<"(", "TRUE", "=", "TRUE", ")">>)
NoCondition == [outcome |-> "ok", list |-> <<>>]    \* what no text reads as

\* tuple_find_attribute_val finds the operand in the tuples of l, then in those of r.
matchup(x, l, r) ==
    CASE x.kind = "value" -> "ok"
      [] x.kind = "attribute" ->
            IF \/ attribute_find(l, x.name) > 0
               \/ r # NULL /\ attribute_find(r, x.name) > 0
            THEN "ok" ELSE "error"
      [] x.kind = "qualified" /\ x.rel = l.name ->
            IF attribute_find(l, x.name) > 0 THEN "ok" ELSE "error"
      [] x.kind = "qualified" /\ x.rel # l.name /\ r = NULL -> "dies"
      [] OTHER ->
            IF x.rel = r.name /\ attribute_find(r, x.name) > 0 THEN "ok" ELSE "error"

\* The outcome of the first operand that is not found.
match_tuples(cond, l, r) ==
    LET operands == FlattenSeq([i \in DOMAIN cond |-> <<cond[i].left, cond[i].right>>])
        outcomes == [i \in DOMAIN operands |-> matchup(operands[i], l, r)]
        failed == {i \in DOMAIN outcomes : outcomes[i] # "ok"}
    IN  IF failed = {} THEN "ok"
        ELSE outcomes[CHOOSE i \in failed : \A j \in failed : i <= j]

build_condition(read, l, r) ==
    IF read.outcome = "ok" THEN match_tuples(read.list, l, r) ELSE read.outcome

\* The value of an attribute in a tuple of a relation.
tuple_find_attribute_val(rel, t, name) ==
    IF attribute_find(rel, name) = 0 THEN NULL ELSE t[attribute_find(rel, name)]

\* Where matchup finds an operand, the left relation first.
operand_value(x, l, lt, r, rt) ==
    CASE x.kind = "value" -> x.value
      [] x.kind = "attribute" ->
            IF attribute_find(l, x.name) > 0 THEN tuple_find_attribute_val(l, lt, x.name)
            ELSE tuple_find_attribute_val(r, rt, x.name)
      [] OTHER ->
            IF x.rel = l.name THEN tuple_find_attribute_val(l, lt, x.name)
            ELSE tuple_find_attribute_val(r, rt, x.name)

\* The type of the attribute that an operand is, or NULL.
data_type(x, l, r) ==
    LET Types(rel) == [i \in DOMAIN rel.attrs |-> rel.attrs[i].type]
    IN  IF x.kind = "value" THEN NULL
        ELSE operand_value(x, l, Types(l), r, IF r = NULL THEN <<>> ELSE Types(r))

\* Does a comparator accept operands that compare as n does to 0?  (The
\* comparator ~ goes to a library of regular expressions and is left out.)
Accepts(op, n) ==
    CASE op = <<"=">> -> n = 0
      [] op = <<"<", ">">> -> n # 0
      [] op = <<">">> -> n > 0
      [] op = <<">", "=">> -> n >= 0
      [] op = <<"<">> -> n < 0
      [] op = <<"<", "=">> -> n <= 0

\* The order of characters.
Letters == Digits \o <<"FALSE", "TRUE", "a", "b", "c", "d", "e", "x", "y", "z">>

strcmp(x, y) ==
    LET rank(v, i) == IF i > Len(v) THEN 0 ELSE SelectInSeq(Letters, LAMBDA a : a = v[i])
        differ == {i \in 1..(Len(x) + Len(y)) : rank(x, i) # rank(y, i)}
        at == CHOOSE i \in differ : \A j \in differ : i <= j
    IN  IF differ = {} THEN 0 ELSE rank(x, at) - rank(y, at)

\* One comparison: its result, and whether the evaluation ends with it.
Compared(result, ends) == [result |-> result, ends |-> ends]
do_string_eval(op, x, y) == Compared(Accepts(op, strcmp(x, y)), FALSE)
do_int_eval(op, x, y) ==
    IF x = <<>> \/ y = <<>> THEN Compared(FALSE, TRUE)
    ELSE Compared(Accepts(op, atoi(x) - atoi(y)), FALSE)

\* From left to right: `and' binds no tighter than `or', and `xor' does nothing.
\* Attributes of different types make the whole condition false.
\* Mutant: an `or' ends the evaluation.
EndsAtOr(cond, l, lt, r, rt) ==
    LET ends == {i \in DOMAIN cond : cond[i].link = "or"}
        upto == IF ends = {} THEN Len(cond) ELSE CHOOSE i \in ends : \A j \in ends : i <= j
    IN  \E i \in 1..upto : do_string_eval(cond[i].op, operand_value(cond[i].left, l, lt, r, rt),
                                          operand_value(cond[i].right, l, lt, r, rt)).result
evaluate(cond, l, lt, r, rt) ==
    FoldLeft(LAMBDA out, c :
                 LET x == operand_value(c.left, l, lt, r, rt)
                     y == operand_value(c.right, l, lt, r, rt)
                     ltype == data_type(c.left, l, r)
                     rtype == data_type(c.right, l, r)
                     one == IF "NUMBER" \in {ltype, rtype} THEN do_int_eval(c.op, x, y)
                            ELSE do_string_eval(c.op, x, y)
                 IN  CASE out.ends -> out
                       [] ~out.ends /\ ltype # NULL /\ rtype # NULL /\ ltype # rtype ->
                             Compared(FALSE, TRUE)
                       [] OTHER ->
                             Compared(CASE c.link = "first" -> one.result
                                        [] c.link = "and" -> out.result /\ one.result
                                        [] c.link = "or" -> out.result \/ one.result
                                        [] c.link = "xor" -> out.result,
                                      one.ends),
             Compared(FALSE, FALSE), cond).result

-------------------------------------------------------------------------------
\* The operators.  `dest' names the new relation; relation_create refuses a
\* name that is not `free'.

\* A relation with the attributes of another.  The file is created before the
\* other relation is looked at.
\* Mutant: the file is answered with whatever the other relation is.
AnswersWreck(rel, dest, free, outcome) ==
    CASE ~free -> Refuses
      [] free /\ rel = NULL -> Answers(Wreck(dest))
      [] free /\ rel # NULL /\ ~Whole(rel) -> Dies
      [] OTHER -> outcome
create_duplicate_rtn_relation(rel, dest, free, outcome) ==
    CASE ~free -> Refuses
      [] free /\ rel = NULL -> Leaves(Wreck(dest))
      [] free /\ rel # NULL /\ ~Whole(rel) -> Dies
      [] OTHER -> outcome

rl_duplicate(rel, dest, free) ==
    create_duplicate_rtn_relation(rel, dest, free,
        Answers(Relation(dest, rel.attrs, Written(rel.attrs, rel.tuples))))

Empty(rel, dest) == Relation(dest, rel.attrs, <<>>)

Selected(rel, cond) == SelectSeq(rel.tuples, LAMBDA t : evaluate(cond, rel, t, NULL, <<>>))

SelectedInto(rel, read, dest) ==
    LET condition == IF rel.tuples = <<>> THEN "error" ELSE build_condition(read, rel, NULL)
    IN  CASE condition = "error" -> Leaves(Empty(rel, dest))
          [] condition = "dies" -> Dies
          [] OTHER -> Answers(Relation(dest, rel.attrs,
                                       Written(rel.attrs, Selected(rel, read.list))))

rl_select(rel, given, dest, free) ==
    create_duplicate_rtn_relation(rel, dest, free,
        The({SelectedInto(rel, read, dest) :
                read \in {IF given = NoCondition THEN special_condition_true ELSE given}}))

\* A set operator: what is to be written, in the header of the second relation.
\* Comparing the attributes reads both files first.
SetOperator(rel1, rel2, tuples, dest, free) ==
    CASE ~rl_is_union_compatible(rel1, rel2) -> Refuses
      [] rl_is_union_compatible(rel1, rel2) /\ ~(Whole(rel1) /\ Whole(rel2)) -> Dies
      [] OTHER -> create_duplicate_rtn_relation(rel2, dest, free,
                      Answers(Relation(dest, rel2.attrs, Written(rel2.attrs, tuples))))

rl_union(rel1, rel2, dest, free) ==
    SetOperator(rel1, rel2, rel1.tuples \o rel2.tuples, dest, free)

\* The hash table of the first relation's texts decides about the second's tuples.
rl_intersect(rel1, rel2, dest, free) ==
    SetOperator(rel1, rel2,
                SelectSeq(rel2.tuples, LAMBDA t : tuple_to_string(t) \in Texts(rel1.tuples)),
                dest, free)

rl_difference(rel1, rel2, dest, free) ==
    SetOperator(rel1, rel2,
                SelectSeq(rel1.tuples, LAMBDA t : tuple_to_string(t) \notin Texts(rel2.tuples)),
                dest, free)

\* The list of attributes is read twice.  For the header it is cut into tokens,
\* up to the first that is no attribute; for the tuples it is cut at its commas.
\* Tuples are projected when each of these is an attribute.
ProjectedAttributes(rel, tokens) ==
    LET places == [i \in DOMAIN tokens |-> attribute_find(rel, tokens[i])]
        known == {n \in DOMAIN tokens : 0 \notin Range(SubSeq(places, 1, n))}
    IN  [i \in known |-> rel.attrs[places[i]]]

rl_project(rel, attributes, dest, free) ==
    create_duplicate_rtn_relation(rel, dest, free,
        LET attrs == ProjectedAttributes(rel, attributes.tokens)
            places == [i \in DOMAIN attributes.items |-> attribute_find(rel, attributes.items[i])]
            projected(t) == [i \in DOMAIN attrs |-> IF i \in DOMAIN places THEN t[places[i]] ELSE <<>>]
        IN  CASE places[1] > 0 /\ rel.tuples # <<>> /\ 0 \in Range(places) ->
                    Leaves(Relation(dest, attrs, <<>>))
              [] places[1] > 0 /\ 0 \notin Range(places) ->
                    Answers(Relation(dest, attrs,
                        Written(attrs, [n \in DOMAIN rel.tuples |-> projected(rel.tuples[n])])))
              [] OTHER -> Answers(Relation(dest, attrs, <<>>)))

\* A relation with the attributes of two, those of the skip list left out.
relation_create_both(rel1, rel2, dest, free, outcome) ==
    CASE rel1 = NULL \/ rel2 = NULL -> Refuses
      [] rel1 # NULL /\ rel2 # NULL /\ ~free -> Refuses
      [] rel1 # NULL /\ rel2 # NULL /\ free /\ ~(Whole(rel1) /\ Whole(rel2)) -> Dies
      [] OTHER -> outcome

\* The pairs of tuples, in the order of two nested loops.
Pairs(rel1, rel2) ==
    FlattenSeq([i \in DOMAIN rel1.tuples |->
                   [j \in DOMAIN rel2.tuples |-> <<rel1.tuples[i], rel2.tuples[j]>>]])

rl_product(rel1, rel2, dest, free) ==
    relation_create_both(rel1, rel2, dest, free,
        LET attrs == JoinedAttributes(rel1.attrs, rel2)
            pairs == Pairs(rel1, rel2)
        IN  Answers(Relation(dest, attrs,
                Written(attrs, [n \in DOMAIN pairs |-> pairs[n][1] \o pairs[n][2]]))))

\* The keys by which two relations are related, the left one's first.  Relations
\* are known by their names.
get_keys(l, r) ==
    {<<s.fkeys, s.pkeys>> : s \in {s \in relship : s.foreign = l /\ s.primary = r}}

Related(l, r) == get_keys(l, r) # {} \/ get_keys(r, l) # {}

KeysOf(l, r) ==
    IF get_keys(l, r) # {} THEN CHOOSE k \in get_keys(l, r) : TRUE
    ELSE CHOOSE k \in {<<s[2], s[1]>> : s \in get_keys(r, l)} : TRUE

\* The text of the condition that the keys agree, and what it reads as.
KeysAgree(l, r, keys) ==
    FlattenSeq([i \in DOMAIN keys[1] |->
        (IF i = 1 THEN <<>> ELSE <<" ", "and", " ">>) \o
        <<"(", l, ".", keys[1][i], "=", r, ".", keys[2][i], ")">>])

generated_qualification ==
    [p \in {<<s.foreign, s.primary>> : s \in relship} \cup {<<s.primary, s.foreign>> : s \in relship}
        |-> The({qualification(text) : text \in {KeysAgree(p[1], p[2], KeysOf(p[1], p[2]))}})]

\* The left tuple without its keys.  The places of the keys are met in the
\* order in which the keys are listed: a place that is out of order is kept.
Skipped(t, skip) ==
    FoldLeftDomain(LAMBDA out, count :
                       IF out.position \in DOMAIN skip /\ skip[out.position] = count
                       THEN [out EXCEPT !.position = @ + 1]
                       ELSE [out EXCEPT !.kept = Append(@, t[count])],
                   [kept |-> <<>>, position |-> 1], t).kept

\* The output tuple has the values of its header: the last ones stay empty when
\* there are too few, and are not written when there are too many.
Fitted(t, attrs) == [i \in DOMAIN attrs |-> IF i \in DOMAIN t THEN t[i] ELSE <<>>]

\* The join under a condition, the attributes of the list left out of the left
\* relation.
Joined(l, r, read, keys, dest, free) ==
    relation_create_both(l, r, dest, free,
        LET attrs == JoinedAttributes(Unskipped(l.attrs, keys), r)
            skip == [i \in DOMAIN keys |-> attribute_find(l, keys[i])]
            pairs == SelectSeq(Pairs(l, r), LAMBDA p : evaluate(read.list, l, p[1], r, p[2]))
            condition == IF l.tuples = <<>> \/ r.tuples = <<>> THEN "error"
                         ELSE build_condition(read, l, r)
        IN  CASE 0 \in Range(skip) -> Leaves(Relation(dest, attrs, <<>>))
              [] 0 \notin Range(skip) /\ condition = "dies" -> Dies
              [] 0 \notin Range(skip) /\ condition = "error" -> Answers(Relation(dest, attrs, <<>>))
              [] OTHER -> Answers(Relation(dest, attrs,
                              Written(attrs, [n \in DOMAIN pairs |->
                                  Fitted(Skipped(pairs[n][1], skip) \o pairs[n][2], attrs)]))))

\* Without a condition the keys of the data dictionary give it.
JoinCondition(l, r, given) ==
    CASE given # NoCondition -> [read |-> given, keys |-> <<>>]
      [] given = NoCondition /\ Related(l.name, r.name) ->
            [read |-> generated_qualification[<<l.name, r.name>>], keys |-> KeysOf(l.name, r.name)[1]]
      [] OTHER -> [read |-> special_condition_true, keys |-> <<>>]

rl_naturaljoin(l, r, given, dest, free) ==
    CASE l = NULL \/ r = NULL -> Refuses
      [] /\ l # NULL /\ r # NULL
         /\ given = NoCondition /\ ~Related(l.name, r.name) /\ ~status_productjoin -> Refuses
      [] OTHER -> The({Joined(l, r, on.read, on.keys, dest, free) : on \in {JoinCondition(l, r, given)}})
==============================================================================
