------------------------------- MODULE MCQuery -------------------------------
(* Relations of two attributes and queries of up to three operations for TLC. *)
(* The tuples (a, bc) and (ab, c) have one text; the attributes of d are too   *)
(* narrow for some of a's values; fid of f is the key by which g is found.     *)
EXTENDS Query

CONSTANTS a, b, c, d, e, f, g, h, dd, none, p1, p2,
          ax, ay, az, id, fid, ak, aw, name, num

Attrs(names, width) ==
    [i \in DOMAIN names |-> [name |-> names[i], width |-> width,
                             type |-> IF names[i] = num THEN "NUMBER" ELSE "STRING"]]
Two(n, names, width, tuples) == Relation(n, Attrs(names, width), tuples)

MCBaseRelations ==
    { Two(a, <<ax, ay>>, 2, << << <<"a">>, <<"b", "c">> >>, << <<"b">>, <<"b">> >> >>),
      Two(b, <<ay, az>>, 2, << << <<"a", "b">>, <<"c">> >>, << <<"b">>, <<"a">> >> >>),
      Two(c, <<ax, ay>>, 2, << << <<"b">>, <<"b">> >>, << <<"c">>, <<"a">> >> >>),
      Two(d, <<ax, ay>>, 1, << << <<"b">>, <<"a">> >> >>),
      Two(e, <<ax, ay>>, 2, <<>>),
      Two(f, <<id, fid>>, 2, << << <<"a">>, <<"b">> >>, << <<"c">>, <<"d">> >> >>),
      Two(g, <<ak, aw>>, 2, << << <<"b">>, <<"e">> >>, << <<"c">>, <<"b">> >> >>),
      Two(h, <<num, ay>>, 2, << << <<"9">>, <<"a">> >>, << <<"1", "0">>, <<"9">> >>, << <<"0">>, <<"b">> >> >>),
      Two(dd, <<name>>, 2, << << <<"n">> >> >>) }

MCNoWithin == {}
MCWithin == {<<id, fid>>}
MCRelship == {[foreign |-> f, primary |-> g, fkeys |-> <<fid>>, pkeys |-> <<ak>>]}

-------------------------------------------------------------------------------
\* Pieces of a query: a text with what it is to mean.
Piece(text, means) == [text |-> text, means |-> means]
Bracketed(s) == <<"(">> \o s \o <<")">>

Value(v) == Piece(<<"'">> \o v \o <<"'">>, [kind |-> "value", value |-> v])
Attr(n) == Piece(<<n>>, [kind |-> "attribute", name |-> n])
Of(r, n) == Piece(<<r, ".", n>>, [kind |-> "qualified", rel |-> r, name |-> n])
Is(left, op, right) ==
    Piece(left.text \o op \o right.text,
          << [link |-> "first", op |-> op, left |-> left.means, right |-> right.means] >>)
Spaced(left, op, right) ==
    Piece(<<" ">> \o left.text \o <<" ">> \o op \o <<" ">> \o right.text \o <<" ">>,
          Is(left, op, right).means)
\* Two comparisons and their link; what is linked again has its brackets.
Linked(x, link, y, first) ==
    Piece((IF first THEN Bracketed(x.text) ELSE x.text) \o <<" ", link, " ">> \o Bracketed(y.text),
          x.means \o << [y.means[1] EXCEPT !.link = link] >>)
Attributes(names) ==
    Piece(Tail(FlattenSeq([i \in DOMAIN names |->
                              (IF i = 1 THEN <<",">> ELSE <<",", " ">>) \o <<names[i]>>])), names)
Nothing == Piece(<<>>, <<>>)

\* A query is a piece whose meaning is a tree.
Under(turn, q) == [q1 \in {<<turn>> \o s : s \in DOMAIN q} |-> q[Tail(q1)]]
Op(op, arg, target) == Root :> [op |-> op, arg |-> arg, target |-> target]
Rel(n) == Piece(<<n>>, Op("relation", n, NULL))
Last_ == Piece(<<"@", "last">>, Op("relation", NULL, NULL))
Assign(target) == IF target = NULL THEN <<>> ELSE <<target, "=">>
Argued(arg) == IF arg.text = <<>> THEN <<>> ELSE <<" ">> \o Bracketed(arg.text)

One(target, op, arg, q) ==
    Piece(Assign(target) \o <<op, " ">> \o Bracketed(q.text) \o Argued(arg),
          Op(op, arg.means, target) @@ Under(0, q.means))
Both(target, op, arg, q, r) ==
    Piece(Assign(target) \o <<op>> \o Bracketed(q.text) \o <<" ">> \o Bracketed(r.text) \o Argued(arg),
          Op(op, arg.means, target) @@ Under(0, q.means) @@ Under(1, r.means))
\* The same with the operator between its operands, and without brackets.
Infix(target, op, q, r) ==
    [Both(target, op, Nothing, q, r) EXCEPT
        !.text = Assign(target) \o <<" ">> \o Bracketed(q.text) \o <<" ", op, " ">> \o Bracketed(r.text)]
Bare(target, op, q) == [One(target, op, Nothing, q) EXCEPT !.text = Assign(target) \o <<op, " ">> \o q.text]

Eq == <<"=">>
Ne == <<"<", ">">>
XIs(v) == Is(Attr(ax), Eq, Value(<<v>>))
YIsNotB == Is(Attr(ay), Ne, Value(<<"b">>))
Never == Linked(XIs("b"), "and", YIsNotB, TRUE)
Mixed == Linked(Linked(XIs("a"), "or", XIs("b"), TRUE), "and", YIsNotB, FALSE)
Number(op, v) == Is(Attr(num), op, Value(v))

\* Texts that are not what they seem: a space before the bracket is a part of
\* the operand; two conditions that cannot be read, and mean nothing.
SpacedIs == Spaced(Attr(ax), Eq, Attr(ay))
Meaningless == << [XIs("b").means[1] EXCEPT !.link = "xor"] >>
Unread == Piece(Bracketed(<<ax, "=", "'", "b">>) \o <<" ", "and", " ">> \o Bracketed(YIsNotB.text), Meaningless)
Unlinked == Piece(Bracketed(XIs("b").text) \o <<" ", "nor", " ">> \o Bracketed(YIsNotB.text), Meaningless)
Misread ==
    { [One(NULL, "select", SpacedIs, Rel(a)) EXCEPT
          !.means[Root].arg = << [SpacedIs.means[1] EXCEPT !.right.name = Fragment] >>],
      One(p2, "select", Unread, Rel(a)),
      One(p2, "select", Unlinked, Rel(a)),
      [One(NULL, "project", Attributes(<<ax, ay>>), Rel(a)) EXCEPT
          !.text = <<"project", "(", a, ")", "(", " ", ax, ",", " ", ay, " ", ")">>,
          !.means[Root].arg = <<ax, Fragment>>],
      \* The end of the command is read as the operand.
      [Bare(p1, "duplicate", Rel(a)) EXCEPT
          !.text = <<p1, " ", "=", " ", "duplicate", " ", a>>,
          !.means[<<0>>].arg = Fragment] }

Written_ ==
    { Rel(a), Bare(NULL, "print", Rel(none)), One(NULL, "print", Nothing, Rel(p1)),
      Bare(NULL, "print", Last_), One(NULL, "print", Nothing, Last_),
      One(p1, "duplicate", Nothing, Rel(a)), Bare(p2, "duplicate", Rel(p1)),
      One(p1, "duplicate", Nothing, Last_),
      One(p1, "select", XIs("b"), Rel(a)), One(p1, "select", Mixed, Rel(a)),
      One(p1, "select", Never, Rel(a)), One(NULL, "select", Nothing, Rel(a)),
      One(p1, "select", XIs("z"), Rel(e)),
      One(p2, "select", XIs("b"), Rel(p1)),
      One(p1, "select", Number(<<">">>, <<"9">>), Rel(h)),
      One(p1, "select", Linked(Number(<<"<", "=">>, <<"9">>), "or", Number(<<">", "=">>, <<"1", "0">>), TRUE), Rel(h)),
      One(p1, "select", Linked(Number(<<"<">>, <<"9">>), "or", Number(<<">", "=">>, <<"1", "0">>), TRUE),
          One(NULL, "select", Number(<<">">>, <<"1">>), Rel(h))),
      One(NULL, "select", Is(Attr(num), <<"<">>, Attr(ay)), Rel(h)),
      One(NULL, "select", Number(<<"<">>, <<>>), Rel(h)),
      One(NULL, "select", Linked(Number(<<">">>, <<"0">>), "or", Number(<<"<">>, <<>>), TRUE), Rel(h)),
      Both(NULL, "union", Nothing, Rel(a), Rel(h)),
      One(NULL, "select", Spaced(Value(<<"a">>), <<"<">>, Value(<<"b">>)), Rel(a)),
      One(NULL, "select", Is(Of(a, ax), Eq, Attr(ay)), Rel(a)),
      One(NULL, "select", Is(Of(none, ax), Eq, Attr(ay)), Rel(a)),
      One(p1, "project", Attributes(<<ay>>), One(NULL, "select", XIs("z"), Rel(e))),
      One(p1, "project", Attributes(<<ay, ax>>), One(p2, "select", XIs("b"), Rel(a))),
      One(NULL, "project", Attributes(<<ay, aw>>), Rel(a)),
      One(NULL, "project", Attributes(<<ay>>), Last_),
      Both(p1, "union", Nothing, Rel(a), Rel(c)), Both(p1, "union", Nothing, Rel(a), Rel(d)),
      Both(p1, "union", Nothing, Rel(a), Rel(none)), Infix(p1, "union", Rel(b), Rel(p1)),
      Both(NULL, "intersect", Nothing, Rel(a), Rel(b)),
      Infix(NULL, "intersect", Rel(a), One(NULL, "duplicate", Nothing, Rel(c))),
      Both(p1, "difference", Nothing, Rel(c), Rel(a)),
      Infix(p1, "difference", Infix(NULL, "union", Rel(a), Rel(c)),
                              Both(NULL, "intersect", Nothing, Rel(a), Rel(c))),
      Both(p1, "difference", Nothing, Rel(a), One(NULL, "project", Attributes(<<ax>>), Rel(a))),
      Both(p1, "product", Nothing, Rel(a), Rel(c)), Both(NULL, "product", Nothing, Rel(p1), Rel(c)),
      Both(p1, "join", Nothing, Rel(f), Rel(g)), Both(p1, "join", Nothing, Rel(g), Rel(f)),
      Both(NULL, "join", Nothing, Rel(a), Rel(c)),
      Both(p1, "join", Is(Of(a, ax), Eq, Of(b, az)), Rel(a), Rel(b)),
      Both(p1, "join", Is(Of(a, ax), Eq, Of(b, aw)), Rel(a), Rel(b)),
      One(NULL, "project", Attributes(<<id>>), Both(NULL, "join", Nothing, Rel(f), Rel(g))),
      Both(NULL, "union", Nothing, Rel(p1), Rel(p2)) }

MCQueries == {[text |-> q.text, tree |-> q.means] : q \in Written_ \cup Misread}
===============================================================================
