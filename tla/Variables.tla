------------------------------- MODULE Variables -------------------------------
(***************************************************************************)
(* The table of variables (src/src/vars.c): what `set', the configuration   *)
(* file and the program itself write into it, and what it answers.  It is a *)
(* sequence; the C array counts from 0, so that its place i is i + 1 here.  *)
(* The status flags that some names stand for as well are left out.         *)
(***************************************************************************)
EXTENDS Integers, Sequences

CONSTANTS VARIABLE_NUMBER,   \* the places the table has
          NULL

ASSUME PlacesAssumption == VARIABLE_NUMBER \in Nat

Variable(name, value) == [name |-> name, value |-> value]

IsTable(v) == Len(v) <= VARIABLE_NUMBER /\ \A i \in DOMAIN v : DOMAIN v[i] = {"name", "value"}

\* The first of the places P of the table that has this name, if there is one.
FirstOf(v, P, name) ==
    LET named == {i \in P : v[i].name = name}
    IN  {i \in named : \A j \in named : i <= j}

resolve_variable(v, name) ==
    IF FirstOf(v, DOMAIN v, name) = {} THEN NULL
    ELSE v[CHOOSE i \in FirstOf(v, DOMAIN v, name) : TRUE].value

Assigned(v, places, value) ==
    [i \in DOMAIN v |-> IF i \in places THEN Variable(v[i].name, value) ELSE v[i]]

\* Mutant: the search stops in front of the last place.
set_variable_short(v, name, value) ==
    Assigned(v, FirstOf(v, 2 .. Len(v) - 1, name), value)

\* The search counts before it compares: it begins at the second place, and looks one
\* place past the last, which has no name.
set_variable(v, name, value) ==
    Assigned(v, FirstOf(v, 2 .. Len(v), name), value)

\* A variable more, while there is a place for it.
new_variable(v, name, value) ==
    IF Len(v) < VARIABLE_NUMBER THEN Append(v, Variable(name, value)) ELSE v

\* The table after each line of the configuration file; the second call is for the
\* status flags, and sets an earlier variable of the same name.
init_variables(config) ==
    LET after[n \in 0 .. Len(config)] ==
            IF n = 0 THEN <<>>
            ELSE LET name  == config[n].name
                     value == config[n].value
                 IN  set_variable(new_variable(after[n - 1], name, value), name, value)
    IN  after[Len(config)]

===============================================================================
