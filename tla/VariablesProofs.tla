---------------------------- MODULE VariablesProofs ----------------------------
(***************************************************************************)
(* What the operators of Variables do to a table of any length, with any    *)
(* names in it, and what the configuration file leaves there.               *)
(***************************************************************************)
EXTENDS Variables, SequenceTheorems, WellFoundedInduction, TLAPS

\* The entries of tables whose names are of the set S, and whose values of T.
Entry(S, T) == [name : S, value : T]

\* The names of a table are what they were, and every place that is not among the
\* ones assigned to.
LEMMA AssignedKeeps ==
    ASSUME NEW S, NEW T, NEW v \in Seq(Entry(S, T)), NEW places, NEW value \in T
    PROVE  LET w == Assigned(v, places, value)
           IN  /\ w \in Seq(Entry(S, T))
               /\ Len(w) = Len(v) /\ DOMAIN w = DOMAIN v
               /\ \A i \in DOMAIN v : w[i].name = v[i].name
               /\ \A i \in DOMAIN v : w[i].value = IF i \in places THEN value ELSE v[i].value
<1> DEFINE w == Assigned(v, places, value)
           E == Entry(S, T)
<1>1. \A e \in E : e.name \in S /\ e.value \in T
  BY DEF Entry
<1>2. \A n \in S : Variable(n, value) \in E /\ Variable(n, value).name = n
                   /\ Variable(n, value).value = value
  BY DEF Variable, Entry
<1>3. Len(v) \in Nat /\ DOMAIN v = 1 .. Len(v) /\ \A i \in 1 .. Len(v) : v[i] \in E
  BY DEF E
<1> HIDE DEF E
<1>4. w = [i \in 1 .. Len(v) |-> IF i \in places THEN Variable(v[i].name, value) ELSE v[i]]
  BY <1>3 DEF Assigned
<1> HIDE DEF w
<1>5. \A i \in 1 .. Len(v) : w[i] \in E
  BY <1>1, <1>2, <1>3, <1>4
<1>6. w \in [1 .. Len(v) -> E]
  BY <1>4, <1>5
<1>7. w \in Seq(E) /\ Len(w) = Len(v) /\ DOMAIN w = DOMAIN v
  BY <1>3, <1>6
<1>8. \A i \in DOMAIN v : w[i].name = v[i].name
  BY <1>1, <1>2, <1>3, <1>4
<1>9. \A i \in DOMAIN v : w[i].value = IF i \in places THEN value ELSE v[i].value
  BY <1>1, <1>2, <1>3, <1>4
<1> QED
  BY <1>7, <1>8, <1>9 DEF w, E

\* There is one first place of a name, if there is any.
LEMMA FirstIsOne ==
    ASSUME NEW v, NEW P \in SUBSET Nat, NEW name
    PROVE  /\ FirstOf(v, P, name) \subseteq {i \in P : v[i].name = name}
           /\ \A i, j \in FirstOf(v, P, name) : i = j
           /\ \A i \in FirstOf(v, P, name) : \A j \in P : v[j].name = name => i <= j
BY DEF FirstOf

\* set_variable keeps the names; a variable of another name keeps its value.
LEMMA SetKeeps ==
    ASSUME NEW S, NEW T, NEW v \in Seq(Entry(S, T)), NEW name, NEW value \in T
    PROVE  LET w == set_variable(v, name, value)
           IN  /\ w \in Seq(Entry(S, T))
               /\ Len(w) = Len(v) /\ DOMAIN w = DOMAIN v
               /\ \A i \in DOMAIN v : w[i].name = v[i].name
               /\ \A i \in DOMAIN v : v[i].name # name => w[i].value = v[i].value
               /\ \A i \in FirstOf(v, 2 .. Len(v), name) : w[i].value = value
<1> DEFINE w == set_variable(v, name, value)
           F == FirstOf(v, 2 .. Len(v), name)
<1>1. w = Assigned(v, F, value)
  BY DEF set_variable
<1>2. Len(v) \in Nat /\ DOMAIN v = 1 .. Len(v)
  OBVIOUS
<1>3. F \subseteq {i \in 2 .. Len(v) : v[i].name = name}
  <2>1. 2 .. Len(v) \in SUBSET Nat
    BY <1>2
  <2> QED BY <2>1, FirstIsOne
<1> HIDE DEF w, F
<1>4. /\ w \in Seq(Entry(S, T))
      /\ Len(w) = Len(v) /\ DOMAIN w = DOMAIN v
      /\ \A i \in DOMAIN v : w[i].name = v[i].name
      /\ \A i \in DOMAIN v : w[i].value = IF i \in F THEN value ELSE v[i].value
  BY <1>1, AssignedKeeps
<1>5. F \subseteq DOMAIN v
  BY <1>2, <1>3
<1> QED
  BY <1>3, <1>4, <1>5 DEF w, F

\* What resolve_variable answers is at the first place of the name.
LEMMA ResolvesFirst ==
    ASSUME NEW v, NEW name, DOMAIN v \subseteq Nat
    PROVE  \/ /\ FirstOf(v, DOMAIN v, name) = {}
              /\ resolve_variable(v, name) = NULL
           \/ \E i \in FirstOf(v, DOMAIN v, name) : resolve_variable(v, name) = v[i].value
<1>1. CASE FirstOf(v, DOMAIN v, name) = {}
  BY <1>1 DEF resolve_variable
<1>2. CASE FirstOf(v, DOMAIN v, name) # {}
  <2> DEFINE i == CHOOSE j \in FirstOf(v, DOMAIN v, name) : TRUE
  <2>1. i \in FirstOf(v, DOMAIN v, name)
    BY <1>2
  <2>2. resolve_variable(v, name) = v[i].value
    BY <1>2 DEF resolve_variable
  <2> QED BY <2>1, <2>2
<1> QED
  BY <1>1, <1>2

\* A variable that is not in the first place has the value it was set to.
LEMMA ResolvedSet ==
    ASSUME NEW S, NEW T, NEW v \in Seq(Entry(S, T)), NEW name, NEW value \in T,
           v # <<>>, v[1].name # name
    PROVE  resolve_variable(set_variable(v, name, value), name) \in {NULL, value}
<1> DEFINE w == set_variable(v, name, value)
<1>1. /\ DOMAIN w = DOMAIN v /\ DOMAIN v = 1 .. Len(v) /\ Len(v) \in Nat
      /\ \A i \in DOMAIN v : w[i].name = v[i].name
      /\ \A i \in FirstOf(v, 2 .. Len(v), name) : w[i].value = value
  BY SetKeeps
<1> HIDE DEF w
<1>2. ASSUME NEW i \in FirstOf(w, DOMAIN w, name) PROVE w[i].value = value
  <2>1. i \in DOMAIN v /\ v[i].name = name /\ \A j \in DOMAIN v : v[j].name = name => i <= j
    BY <1>1 DEF FirstOf
  <2>2. i \in 2 .. Len(v)
    BY <1>1, <2>1
  <2>3. i \in FirstOf(v, 2 .. Len(v), name)
    BY <1>1, <2>1, <2>2 DEF FirstOf
  <2> QED BY <1>1, <2>3
<1>3. DOMAIN w \subseteq Nat
  BY <1>1
<1> QED
  BY <1>2, <1>3, ResolvesFirst DEF w

\* Setting a variable changes no other.
LEMMA ResolvedOther ==
    ASSUME NEW S, NEW T, NEW v \in Seq(Entry(S, T)), NEW name, NEW value \in T,
           NEW other, other # name
    PROVE  resolve_variable(set_variable(v, name, value), other) = resolve_variable(v, other)
<1> DEFINE w == set_variable(v, name, value)
<1>1. /\ DOMAIN w = DOMAIN v /\ DOMAIN v = 1 .. Len(v) /\ Len(v) \in Nat
      /\ \A i \in DOMAIN v : w[i].name = v[i].name
      /\ \A i \in DOMAIN v : v[i].name # name => w[i].value = v[i].value
  BY SetKeeps
<1> HIDE DEF w
<1>2. FirstOf(w, DOMAIN w, other) = FirstOf(v, DOMAIN v, other)
  BY <1>1 DEF FirstOf
<1>3. DOMAIN w \subseteq Nat /\ DOMAIN v \subseteq Nat
  BY <1>1
<1>4. \A i \in FirstOf(v, DOMAIN v, other) : w[i].value = v[i].value
  BY <1>1, <1>3, FirstIsOne
<1>5. \A i, j \in FirstOf(v, DOMAIN v, other) : i = j
  BY <1>3, FirstIsOne
<1> QED
  BY <1>2, <1>3, <1>4, <1>5, ResolvesFirst DEF w

-------------------------------------------------------------------------------
\* The configuration file.

\* A set of natural numbers has a least one.
LEMMA SmallestOf ==
    ASSUME NEW T \in SUBSET Nat, T # {}
    PROVE  \E n \in T : \A m \in T : n <= m
<1>1. PICK n \in T : \A m \in T : ~(<<m, n>> \in OpToRel(<, Nat))
  BY NatLessThanWellFounded, WFMin
<1>2. \A m \in T : ~(m < n)
  BY <1>1 DEF OpToRel
<1> QED
  BY <1>2

\* The table after n lines, given what the tables after fewer lines are.
LineDef(config, g, n) ==
    IF n = 0 THEN <<>>
    ELSE set_variable(new_variable(g[n - 1], config[n].name, config[n].value),
                      config[n].name, config[n].value)

\* The recursion that reads the file has a solution, for files of any length.
LEMMA LinesAreRead ==
    ASSUME NEW config, NEW L \in Nat
    PROVE  \E f : f = [n \in 0 .. L |-> LineDef(config, f, n)]
<1> DEFINE Solved(n) == \E f : f = [m \in 0 .. n |-> LineDef(config, f, m)]
           T == {n \in Nat : ~Solved(n)}
<1>1. ASSUME T # {} PROVE FALSE
  <2>1. T \in SUBSET Nat
    OBVIOUS
  <2>2. PICK n \in T : \A m \in T : n <= m
    <3> HIDE DEF T
    <3> QED BY <1>1, <2>1, SmallestOf
  <2>3. n \in Nat /\ ~Solved(n)
    BY <2>2
  <2>4. CASE n = 0
    <3> DEFINE f == [m \in 0 .. 0 |-> <<>>]
    <3>1. \A m \in 0 .. 0 : m = 0
      OBVIOUS
    <3>2. f = [m \in 0 .. 0 |-> LineDef(config, f, m)]
      BY <3>1 DEF LineDef
    <3> QED BY <2>3, <2>4, <3>2
  <2>5. CASE n # 0
    <3>1. n - 1 \in Nat /\ n - 1 \notin T
      <4>1. n - 1 \in Nat /\ ~(n <= n - 1)
        BY <2>3, <2>5
      <4> HIDE DEF T
      <4> QED BY <2>2, <4>1
    <3>2. PICK g : g = [m \in 0 .. n - 1 |-> LineDef(config, g, m)]
      BY <3>1
    <3> DEFINE f == [m \in 0 .. n |-> IF m < n THEN g[m] ELSE LineDef(config, g, n)]
    <3>3. \A m \in 0 .. n : LineDef(config, f, m) = LineDef(config, g, m)
      <4> SUFFICES ASSUME NEW m \in 0 .. n
                   PROVE  LineDef(config, f, m) = LineDef(config, g, m)
        OBVIOUS
      <4>1. CASE m = 0
        BY <4>1 DEF LineDef
      <4>2. CASE m # 0
        <5>1. m - 1 \in 0 .. n /\ m - 1 < n
          BY <2>3, <4>2
        <5>2. f[m - 1] = g[m - 1]
          BY <5>1
        <5> HIDE DEF f
        <5> QED BY <4>2, <5>2 DEF LineDef
      <4> QED BY <4>1, <4>2
    <3>4. \A m \in 0 .. n : f[m] = LineDef(config, g, m)
      <4> SUFFICES ASSUME NEW m \in 0 .. n PROVE f[m] = LineDef(config, g, m)
        OBVIOUS
      <4>1. CASE m < n
        <5>1. m \in 0 .. n - 1
          BY <2>3, <4>1
        <5>2. f[m] = g[m]
          BY <4>1
        <5> HIDE DEF f
        <5> QED BY <3>2, <5>1, <5>2
      <4>2. CASE ~(m < n)
        <5>1. m = n
          BY <2>3, <4>2
        <5> QED BY <4>2, <5>1
      <4> QED BY <4>1, <4>2
    <3>5. f = [m \in 0 .. n |-> f[m]]
      OBVIOUS
    <3> HIDE DEF f
    <3>6. f = [m \in 0 .. n |-> LineDef(config, f, m)]
      BY <3>3, <3>4, <3>5
    <3> QED BY <2>3, <3>6
  <2> QED BY <2>4, <2>5
<1>2. Solved(L)
  BY <1>1
<1> QED
  BY <1>2

\* init_variables makes a table, whatever the configuration file says.
LEMMA InitMakesTable ==
    ASSUME NEW S, NEW T, NEW config \in Seq(Entry(S, T))
    PROVE  /\ init_variables(config) \in Seq(Entry(S, T))
           /\ Len(init_variables(config)) <= VARIABLE_NUMBER
<1> DEFINE L == Len(config)
           after == CHOOSE f : f = [n \in 0 .. L |-> LineDef(config, f, n)]
<1>1. L \in Nat /\ \A n \in 1 .. L : config[n] \in Entry(S, T)
  OBVIOUS
<1>2. after = [n \in 0 .. L |-> LineDef(config, after, n)]
  BY <1>1, LinesAreRead
<1>3. init_variables(config) = after[L]
  BY DEF init_variables, LineDef
<1> HIDE DEF L, after
<1> DEFINE Good(v) == v \in Seq(Entry(S, T)) /\ Len(v) <= VARIABLE_NUMBER
           Bad == {n \in 0 .. L : ~Good(after[n])}
<1>4. ASSUME NEW v, Good(v), NEW e \in Entry(S, T)
      PROVE  Good(set_variable(new_variable(v, e.name, e.value), e.name, e.value))
  <2>1. e.name \in S /\ e.value \in T /\ Variable(e.name, e.value) \in Entry(S, T)
    BY DEF Entry, Variable
  <2>2. Good(new_variable(v, e.name, e.value))
    BY <1>4, <2>1, PlacesAssumption DEF new_variable
  <2> QED BY <2>1, <2>2, SetKeeps
<1>5. Good(<<>>)
  BY PlacesAssumption
<1>6. ASSUME Bad # {} PROVE FALSE
  <2>1. PICK n \in Bad : \A m \in Bad : n <= m
    <3>1. Bad \in SUBSET Nat
      BY <1>1
    <3> HIDE DEF Bad
    <3> QED BY <1>6, <3>1, SmallestOf
  <2>2. n \in 0 .. L /\ ~Good(after[n])
    BY <2>1
  <2>3. CASE n = 0
    BY <1>2, <1>5, <2>2, <2>3 DEF LineDef
  <2>4. CASE n # 0
    <3>1. n - 1 \in 0 .. L /\ n - 1 < n /\ n \in 1 .. L
      BY <1>1, <2>2, <2>4
    <3>2. Good(after[n - 1])
      BY <2>1, <3>1
    <3>3. after[n] = set_variable(new_variable(after[n - 1], config[n].name, config[n].value),
                                  config[n].name, config[n].value)
      BY <1>2, <2>2, <2>4 DEF LineDef
    <3> HIDE DEF Good
    <3>4. Good(after[n])
      BY <1>1, <1>4, <3>1, <3>2, <3>3
    <3> QED BY <2>2, <3>4
  <2> QED BY <2>3, <2>4
<1>7. L \in 0 .. L
  BY <1>1
<1> QED
  BY <1>3, <1>6, <1>7

===============================================================================
