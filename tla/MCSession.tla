------------------------------- MODULE MCSession -------------------------------
\* An instance of Session for TLC: one database can be created, one script recorded,
\* and currentdb is at the beginning, at the end, or missing in the table of variables.
EXTENDS Session

Line(do, of) == [do |-> do, of |-> of]

MCTyped == {Line("use", "user"), Line("use", "x"), Line("use", "master"),
            Line("create", "x"), Line("source", "s"), Line("record", "s"),
            Line("set", "last"), Line("change", NULL), Line("make", NULL),
            Line("stop", NULL), Line("exit", NULL), Line("terminatenow", NULL)}

MCStartups == {NoFile, <<Line("use", "x"), Line("change", NULL)>>}

MCOpens == {<<>>, <<Line("record", "s")>>}

Place(name) == [name |-> name, value |-> "-"]

MCConfigs == {<<Place("last"), Place("currentdb"), Place("more")>>,
              <<Place("currentdb"), Place("last")>>}

===============================================================================
