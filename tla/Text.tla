-------------------------------- MODULE Text --------------------------------
(***************************************************************************)
(* The text of a query, as the parser and the conditions cut it             *)
(* (src/src/util.c, src/src/cond.c).                                        *)
(*                                                                         *)
(* A text is a sequence of symbols: marks, which are strings of one         *)
(* character, words, and the letters of a value between quotes.  Words are  *)
(* longer than the separators that are ever put before them.                *)
(***************************************************************************)
EXTENDS Integers, FiniteSets, SequencesExt, Functions

CONSTANT Fragment   \* the end of a word, or several words: the name of nothing

TOKEN_SEPERATORS == {",", " ", "/", "\\", ":", "(", ")"}
Comparators == {"=", "<", ">", "~"}
Quote == "'"
Digits == <<"0", "1", "2", "3", "4", "5", "6", "7", "8", "9">>
Marks == TOKEN_SEPERATORS \cup Comparators \cup ToSet(Digits) \cup {Quote, ".", "@"}

\* The first place from `from' on whose symbol is one of the marks, or is none.
Until(s, from, marks) ==
    LET n == SelectInSeq(SubSeq(s, from, Len(s)), LAMBDA x : x \in marks)
    IN  IF n = 0 THEN Len(s) + 1 ELSE from + n - 1
Past(s, from, marks) ==
    LET n == SelectInSeq(SubSeq(s, from, Len(s)), LAMBDA x : x \notin marks)
    IN  IF n = 0 THEN Len(s) + 1 ELSE from + n - 1

After(s, from) == SubSeq(s, from, Len(s))

\* The member of a set that has one.
The(S) == CHOOSE x \in S : TRUE

\* What a token names: a word, or an attribute with a relation's name before it.
Name(token) ==
    CASE Len(token) = 1 -> token[1]
      [] Len(token) = 3 /\ token[2] = "." -> [rel |-> token[1], attr |-> token[3]]
      [] OTHER -> Fragment

strip_leading_spaces(s) == After(s, Past(s, 1, {" "}))
strip_trailing_spaces(s) == Reverse(strip_leading_spaces(Reverse(s)))

-------------------------------------------------------------------------------
\* Brackets.

\* The brackets of a text and how deep each is; the text is at depth 1.
Brackets(s) ==
    FoldLeftDomain(LAMBDA out, c :
                       CASE s[c] = "(" -> [depth |-> out.depth + 1,
                                list |-> Append(out.list, [pos |-> c, depth |-> out.depth])]
                         [] s[c] = ")" -> [depth |-> out.depth - 1,
                                list |-> Append(out.list, [pos |-> c, depth |-> out.depth - 1])]
                         [] OTHER -> out,
                   [depth |-> 1, list |-> <<>>], s)

\* The text cut at two places; without an end the rest is what stood before.
CutAt(s, from, to) ==
    IF to > from
    THEN [result |-> SubSeq(s, from + 1, to - 1), rest |-> SubSeq(s, 1, from - 1) \o After(s, to + 1)]
    ELSE [result |-> After(s, from + 1),
          rest |-> IF from = 1 THEN After(s, 2) ELSE <<Fragment>> \o SubSeq(s, 2, from - 1)]

\* What the first brackets enclose, and the text without them.  The table of
\* brackets is never empty: its second entry, until it is used, is the end of
\* the text, so that a single bracket left open ends there.  When more are, the
\* end is found in an unused entry, which stands for the start of the text.
\* Mutant: the first closing bracket ends the cut.
cut_to_first_bracket(s, force) ==
    IF "(" \notin ToSet(s)
    THEN IF force THEN [result |-> s, rest |-> <<>>] ELSE [result |-> <<>>, rest |-> s]
    ELSE CutAt(s, Until(s, 1, {"("}), Until(s, 1, {")"}))
cut_to_right_bracket(s, force) ==
    The({LET bracket(c) == CASE c <= Len(b.list) -> b.list[c]
                             [] c > Len(b.list) /\ c = 2 -> [pos |-> Len(s) + 1, depth |-> 1]
                             [] OTHER -> [pos |-> 1, depth |-> 0]
             bdepth == IF b.depth < 1 THEN b.depth ELSE 1
             places == 1..(Len(b.list) + 2)
             start == CHOOSE c \in places : /\ bracket(c).depth >= bdepth
                                            /\ \A i \in 1..(c - 1) : bracket(i).depth < bdepth
             finish == CHOOSE c \in places : /\ c > start /\ bracket(c).depth <= bdepth
                                             /\ \A i \in (start + 1)..(c - 1) : bracket(i).depth > bdepth
         IN  IF "(" \notin ToSet(s)
             THEN IF force THEN [result |-> s, rest |-> <<>>] ELSE [result |-> <<>>, rest |-> s]
             ELSE CutAt(s, bracket(start).pos, bracket(finish).pos)
         : b \in {Brackets(s)}})

-------------------------------------------------------------------------------
\* Tokens.

\* The first token, with the separators before it, and the text from where it ends -
\* if it began where the text does: the length of the token is taken for the place of
\* its end, so that behind separators the end of the token stays.
cut_token(s) ==
    LET first == Past(s, 1, TOKEN_SEPERATORS)
        end == Until(s, first, TOKEN_SEPERATORS)
    IN  IF first > Len(s) THEN [token |-> <<>>, rest |-> s]
        ELSE [token |-> SubSeq(s, 1, end - 1),
              rest |-> IF first = 1 THEN After(s, Past(s, end, {" ", ","}))
                       ELSE <<Fragment>> \o After(s, end)]

skip_to_alnum(token) == After(token, Past(token, 1, Marks \ ToSet(Digits)))

\* The tokens of a list, one cut_token after the other.
Tokens(s) ==
    FoldLeft(LAMBDA out, x :
                 LET cut == cut_token(out.rest)
                 IN  IF cut.token = <<>> THEN out
                     ELSE [list |-> Append(out.list, cut.token), rest |-> cut.rest],
             [list |-> <<>>, rest |-> s], s).list

\* The items between the commas of a list.
Items(s) ==
    LET commas == SelectSeq([i \in 1..(Len(s) + 1) |-> i],
                            LAMBDA i : i \in DOMAIN s => s[i] = ",")
        from(n) == IF n = 1 THEN 1 ELSE commas[n - 1] + 1
    IN  [n \in DOMAIN commas |-> strip_leading_spaces(SubSeq(s, from(n), commas[n] - 1))]

\* The attributes that a list names, by its tokens and by its items.
attribute_list(s) ==
    [tokens |-> [i \in DOMAIN Tokens(s) |-> Name(skip_to_alnum(Tokens(s)[i]))],
     items |-> [i \in DOMAIN Items(s) |-> Name(Items(s)[i])]]

find_start_of_data(s) == After(s, Past(s, 1, Marks))

-------------------------------------------------------------------------------
\* Conditions.

Error == [ok |-> FALSE]

\* A side of a comparison: what is between quotes, TRUE or FALSE, or an
\* attribute, the relation's name before it or not.
Operand(s) ==
    LET open == Until(s, 1, {Quote})
        close == Until(s, open + 1, {Quote})
        dot == Until(s, 1, {"."})
    IN  CASE open <= Len(s) ->
                IF close > Len(s) THEN Error
                ELSE [ok |-> TRUE, operand |-> [kind |-> "value",
                                                value |-> SubSeq(s, open + 1, close - 1)]]
          [] open > Len(s) /\ dot <= Len(s) ->
                [ok |-> TRUE, operand |-> [kind |-> "qualified", rel |-> Name(SubSeq(s, 1, dot - 1)),
                                           name |-> Name(After(s, dot + 1))]]
          [] open > Len(s) /\ dot > Len(s) /\ Name(s) \in {"TRUE", "FALSE"} ->
                [ok |-> TRUE, operand |-> [kind |-> "value", value |-> s]]
          [] OTHER -> [ok |-> TRUE, operand |-> [kind |-> "attribute", name |-> Name(s)]]

\* Two marks of one comparator, or one.
Operators == {<<"<", "=">>, <<"<", ">">>, <<">", "=">>}
Operator(s) ==
    CASE s = <<>> -> Error
      [] s # <<>> /\ s[1] \in {"=", "~"} -> [ok |-> TRUE, op |-> <<s[1]>>]
      [] s # <<>> /\ Len(s) = 1 /\ s[1] \in {"<", ">"} -> [ok |-> TRUE, op |-> s]
      [] Len(s) > 1 /\ SubSeq(s, 1, 2) \in Operators -> [ok |-> TRUE, op |-> SubSeq(s, 1, 2)]
      [] OTHER -> Error

\* The three parts of a comparison.  The right side ends with a bracket or the
\* text: spaces behind it are a part of it.
get_first_expression(s) ==
    LET start == Past(s, 1, {" ", "("})
        left == Until(s, start, Comparators \cup {" "})
        bool == Past(s, left, {" "})
        boolend == Past(s, bool, Comparators)
        right == Past(s, boolend, {" "})
        x == Operand(SubSeq(s, start, left - 1))
        y == Operand(SubSeq(s, right, Until(s, right, {")"}) - 1))
        op == Operator(SubSeq(s, bool, boolend - 1))
    IN  IF start > Len(s) \/ boolend > Len(s) \/ ~x.ok \/ ~y.ok \/ ~op.ok THEN Error
        ELSE [ok |-> TRUE, op |-> op.op, left |-> x.operand, right |-> y.operand]

Links == {"and", "or", "xor"}

Taken(list, link, cut) ==
    [list |-> Append(list, [link |-> link, empty |-> cut.result = <<>>,
                            read |-> get_first_expression(cut.result)]),
     rest |-> find_start_of_data(cut.rest)]

\* The pairs of brackets of a qualification: what the comparison in each reads
\* as, and what links it to the one before.
Pieces(s) ==
    FoldLeft(LAMBDA out, x :
                 IF out.rest = <<>> THEN out
                 ELSE The({Taken(out.list, Name(link.token), cut_to_right_bracket(link.rest, TRUE))
                           : link \in {cut_token(out.rest)}}),
             Taken(<<>>, "first", cut_to_right_bracket(s, TRUE)), s).list

\* The comparisons of a qualification, each with its link, and whether reading
\* them is "ok", an "error", or "dies": what follows an unreadable first
\* comparison is linked to a comparison that is not there.  Reading ends with a
\* pair of brackets that is empty.
qualification(s) ==
    The({LET stop == SelectInSeq(pieces, LAMBDA p : p.empty) - 1
             upto == IF stop < 0 THEN Len(pieces) ELSE stop
             good == \A i \in 1..upto : /\ pieces[i].read.ok
                                        /\ i < Len(pieces) => pieces[i + 1].link \in Links
         IN  CASE good -> [outcome |-> "ok",
                           list |-> [i \in 1..upto |->
                                        [link |-> pieces[i].link, op |-> pieces[i].read.op,
                                         left |-> pieces[i].read.left, right |-> pieces[i].read.right]]]
               [] ~good /\ ~pieces[1].read.ok /\ Len(pieces) > 1 -> [outcome |-> "dies", list |-> <<>>]
               [] OTHER -> [outcome |-> "error", list |-> <<>>]
         : pieces \in {Pieces(s)}})
===============================================================================
