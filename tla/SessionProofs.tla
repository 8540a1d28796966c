----------------------------- MODULE SessionProofs -----------------------------
(***************************************************************************)
(* The safety properties of Session, for every set of databases, scripts,   *)
(* variables and commands, for both programs, for any number of sessions    *)
(* and for every way a session can end.                                     *)
(***************************************************************************)
EXTENDS Session, VariablesProofs

\* Handles, disks and tables of variables.
KnownHandle == {h \in Handle : h.updated => h.table \in Fit}
HandlesType == [Slots -> KnownHandle \cup {NULL}]
DisksType   == [Databases -> Database]
ScriptsType == [Databases -> [ScriptNames -> Seq(Commands) \cup {NoFile}]]
InputType   == [from : {"stdin", "script", "client", "gone"}, rest : Seq(Commands)]
RecordingType == [db : Databases, name : ScriptNames, lines : Seq(Commands)]

\* What a variable can be.  (That "set" is a string is more than the provers know.)
Values == STRING \cup {"set"}
VariablesType == Seq(Entry(STRING, Values))

\* TypeOK, with sequences for what is read from a script, recorded, and set.
SessionType ==
    /\ program \in {"leap", "leapd"}
    /\ phase \in Phases
    /\ dbtoopen \in Databases
    /\ handles \in HandlesType
    /\ disk \in DisksType
    /\ scripts \in ScriptsType
    /\ registry \in [databases : SUBSET Databases, logins : BOOLEAN]
    /\ input \in InputType
    /\ startscript \in 0 .. 1
    /\ recording = NULL \/ recording \in RecordingType
    /\ line \in Commands
    /\ variables \in VariablesType /\ Len(variables) <= VARIABLE_NUMBER
    /\ past \in History

\* The slot s has the database d open.
Holds(hs, s, d) == hs[s] # NULL /\ hs[s].db = d

\* An open database is as good as its handle is: what the hash files were not told of
\* the handle's table was, and the handle knows of the temporary relations.
HandleFits(h, k) ==
    /\ IF h.updated THEN h.table = "covers"
       ELSE k.index = "covers" /\ h.table \in {NoTable, "covers"}
    /\ k.temps => h.temps

\* What is open was there to be opened.  Only one slot has a database open, unless the
\* database is doubtful, and one that is closed is in order.
DiskFits(hs, dk, opened, doubtful) ==
    \A d \in Databases :
        /\ \A s \in Slots : Holds(hs, s, d) => d \in opened /\ dk[d].leaprel # "none"
        /\ d \notin doubtful =>
              /\ \A s, t \in Slots : Holds(hs, s, d) /\ Holds(hs, t, d) => s = t
              /\ \A s \in Slots : Holds(hs, s, d) => HandleFits(hs[s], dk[d])
              /\ (\A s \in Slots : ~Holds(hs, s, d)) =>
                    dk[d].index = "covers" /\ (d \in opened => ~dk[d].temps)

\* The database that is being created has an open handle that is not followed.
DiskOK == DiskFits(handles, disk, past.opened, past.doubtful \cup Creating)

\* Which databases are open, and with what command the program is.
Before   == {"down", "tempdb", "master", "current"}
Creation == {"create row", "create fill", "create close"}
Busy     == Creation \cup {"use close", "use open"}

PhaseOK ==
    /\ handles["tempdb"] = NULL <=> phase \in {"down", "tempdb"}
    /\ handles["master"] = NULL <=> phase \in {"down", "tempdb", "master", "close tempdb"}
    /\ phase \in Before \cup {"use open"} => handles["current"] = NULL
    /\ handles["current"] = NULL =>
          phase \in Before \cup {"use open", "close master", "close tempdb"}
    /\ handles["tempdb"] # NULL => handles["tempdb"].db = Tempdb
    /\ handles["master"] # NULL => handles["master"].db = Master
    /\ phase \in {"close master", "close tempdb"} /\ handles["current"] # NULL =>
          handles["current"].db \in past.doubtful
    /\ phase \in Busy => line.of \in Databases
    /\ phase \in Creation => line.of # Master

\* The databases of the registry are there, and so is the one a command is busy with;
\* one that is created where there was none is nowhere open.
KnownOK ==
    /\ \A d \in registry.databases : disk[d].leaprel # "none"
    /\ phase \in Busy => disk[line.of].leaprel # "none"
    /\ phase \in Creation /\ line.of \notin past.doubtful =>
          ~disk[line.of].temps /\ \A s \in Slots : ~Holds(handles, s, line.of)

\* currentdb was told of the current database, and nothing has changed it since.
Told == {"accept", "reading", "doing", "create check"} \cup Creation

ToldOK ==
    /\ phase \in Told
    /\ variables # <<>> /\ variables[1].name # "currentdb"
    => resolve_variable(variables, "currentdb") \in {NULL, current}

\* How often open.src of the current database has been begun.
CountOK == IF phase = "use tell" THEN past.early <=> startscript = 0
           ELSE past.ran = (IF past.early THEN 1 ELSE 0) + startscript

SessionInv == SessionType /\ DiskOK /\ PhaseOK /\ KnownOK /\ ToldOK /\ CountOK

-------------------------------------------------------------------------------
\* Handles and disks.

\* What is on disk of a database with another index, or other temporary relations.
Indexed(r, y)   == [r EXCEPT !.index = y]
Tempered(r, c)  == [r EXCEPT !.temps = c]

\* The fields of a record with another index.
LEMMA IndexedFields ==
    ASSUME NEW r \in Database, NEW y \in Fit
    PROVE  /\ Indexed(r, y) \in Database /\ Indexed(r, y).index = y
           /\ Indexed(r, y).temps = r.temps /\ Indexed(r, y).leaprel = r.leaprel
BY DEF Database, Indexed

\* The fields of a record with other temporary relations.
LEMMA TemperedFields ==
    ASSUME NEW r \in Database, NEW c \in BOOLEAN
    PROVE  /\ Tempered(r, c) \in Database /\ Tempered(r, c).temps = c
           /\ Tempered(r, c).index = r.index /\ Tempered(r, c).leaprel = r.leaprel
BY DEF Database, Tempered

\* NULL is no handle.
LEMMA NullIsNone == NULL \notin KnownHandle
BY NullAssumption DEF KnownHandle

\* A database that is closed is left in order, unless it is doubtful.
LEMMA DisposeFits ==
    ASSUME NEW hs \in HandlesType, NEW dk \in DisksType, NEW s \in Slots,
           NEW opened, NEW doubtful, DiskFits(hs, dk, opened, doubtful)
    PROVE  /\ Disposed(dk, hs[s]) \in DisksType
           /\ [hs EXCEPT ![s] = NULL] \in HandlesType
           /\ \A d \in Databases : Disposed(dk, hs[s])[d].leaprel = dk[d].leaprel
           /\ DiskFits([hs EXCEPT ![s] = NULL], Disposed(dk, hs[s]), opened, doubtful)
<1> DEFINE h == hs[s]
           k == Disposed(dk, h)
           g == [hs EXCEPT ![s] = NULL]
<1>1. /\ g \in HandlesType /\ g[s] = NULL /\ \A t \in Slots : t # s => g[t] = hs[t]
      /\ h \in KnownHandle \cup {NULL}
  BY DEF HandlesType
<1>2. CASE h = NULL
  <2>1. k = dk /\ \A t \in Slots : g[t] = hs[t]
    BY <1>1, <1>2 DEF Disposed
  <2>2. \A d \in Databases, t \in Slots : Holds(g, t, d) <=> Holds(hs, t, d)
    BY <2>1 DEF Holds
  <2> HIDE DEF g, k, h
  <2>3. DiskFits(g, k, opened, doubtful)
    BY <2>1, <2>2 DEF DiskFits
  <2> QED BY <1>1, <2>1, <2>3 DEF g, k, h
<1>3. CASE h # NULL
  <2> DEFINE d0 == h.db
             x == IF h.updated THEN h.table ELSE dk[d0].index
             b == dk[d0].temps /\ ~h.temps
  <2>1. h \in Handle /\ d0 \in Databases /\ dk[d0] \in Database /\ (h.updated => h.table \in Fit)
    BY <1>1, <1>3 DEF Handle, KnownHandle, DisksType
  <2>2. Holds(hs, s, d0)
    BY <1>3 DEF Holds
  <2>3. /\ d0 \in opened
        /\ d0 \notin doubtful => HandleFits(h, dk[d0]) /\ \A t \in Slots : Holds(hs, t, d0) => t = s
    BY <2>1, <2>2 DEF DiskFits
  <2>4. /\ k \in DisksType
        /\ \A d \in Databases : k[d].leaprel = dk[d].leaprel
        /\ \A d \in Databases : d # d0 => k[d] = dk[d]
        /\ d0 \notin doubtful => k[d0].index = "covers" /\ ~k[d0].temps
    <3>1. x \in Fit /\ b \in BOOLEAN
      <4>1. dk[d0].index \in Fit
        <5> HIDE DEF d0
        <5> QED BY <2>1 DEF Database
      <4> QED BY <2>1, <4>1
    <3>2. k = [dk EXCEPT ![d0] = Tempered(Indexed(dk[d0], x), b)]
      <4>1. k = [dk EXCEPT ![d0].index = IF h.updated THEN h.table ELSE @,
                           ![d0].temps = @ /\ ~h.temps]
        BY <1>3 DEF Disposed
      <4>2. d0 \in DOMAIN dk /\ dk \in [Databases -> Database]
        BY <2>1 DEF DisksType
      <4> HIDE DEF h
      <4> QED BY <2>1, <4>1, <4>2 DEF Database, Indexed, Tempered
    <3>3. /\ Indexed(dk[d0], x) \in Database /\ Indexed(dk[d0], x).index = x
          /\ Indexed(dk[d0], x).leaprel = dk[d0].leaprel
          /\ Tempered(Indexed(dk[d0], x), b) \in Database
          /\ Tempered(Indexed(dk[d0], x), b).index = x
          /\ Tempered(Indexed(dk[d0], x), b).temps = b
          /\ Tempered(Indexed(dk[d0], x), b).leaprel = dk[d0].leaprel
      <4> HIDE DEF x, b, d0, h
      <4> QED BY <2>1, <3>1, IndexedFields, TemperedFields
    <3>4. d0 \notin doubtful => x = "covers" /\ ~b
      BY <2>3 DEF HandleFits
    <3> HIDE DEF x, b, k, d0, h
    <3> QED BY <2>1, <3>2, <3>3, <3>4 DEF DisksType
  <2>5. \A d \in Databases, t \in Slots : Holds(g, t, d) <=> Holds(hs, t, d) /\ t # s
    BY <1>1, <1>3 DEF Holds
  <2>6. \A d \in Databases : d # d0 => ~Holds(hs, s, d)
    BY DEF Holds
  <2> HIDE DEF g, k, h, d0
  <2>7. DiskFits(g, k, opened, doubtful)
    <3> SUFFICES ASSUME NEW d \in Databases
                 PROVE  /\ \A t \in Slots : Holds(g, t, d) => d \in opened /\ k[d].leaprel # "none"
                        /\ d \notin doubtful =>
                              /\ \A t, u \in Slots : Holds(g, t, d) /\ Holds(g, u, d) => t = u
                              /\ \A t \in Slots : Holds(g, t, d) => HandleFits(g[t], k[d])
                              /\ (\A t \in Slots : ~Holds(g, t, d)) =>
                                    k[d].index = "covers" /\ (d \in opened => ~k[d].temps)
      BY DEF DiskFits
    <3>1. \A t \in Slots : Holds(g, t, d) => d \in opened /\ k[d].leaprel # "none"
      BY <2>4, <2>5 DEF DiskFits
    <3>2. CASE d = d0
      BY <2>3, <2>4, <2>5, <3>1, <3>2
    <3>3. CASE d # d0
      BY <1>1, <2>4, <2>5, <2>6, <3>1, <3>3 DEF DiskFits
    <3> QED BY <3>2, <3>3
  <2> QED BY <1>1, <2>4, <2>7 DEF g, k, h
<1> QED
  BY <1>2, <1>3

\* A relation is changed through a handle of hs, or a temporary one made (c): the
\* handle's table follows, and nothing else that is asked of the handles and the disk.
ChangeOf(hs, slot, c) ==
    LET h  == hs[slot]
        d0 == h.db
    IN  /\ handles' \in HandlesType /\ disk' \in DisksType
        /\ \A d \in Databases : d # d0 => disk'[d] = disk[d]
        /\ disk'[d0].leaprel = disk[d0].leaprel /\ (disk'[d0].temps => disk[d0].temps \/ c)
        /\ handles'[slot] # NULL /\ handles'[slot].db = d0 /\ handles'[slot].updated
        /\ handles'[slot].table = TableOf(h)
        /\ h.temps \/ c => handles'[slot].temps
        /\ \A s \in Slots : s # slot =>
              /\ handles'[s] = NULL <=> hs[s] = NULL
              /\ hs[s] # NULL => handles'[s].db = hs[s].db
              /\ hs[s] = NULL \/ hs[s].db # d0 => handles'[s] = hs[s]

\* A handle with another table, that is to be saved or not.
Tabled(h, y)  == [h EXCEPT !.table = y]
Noticed(h, y) == [h EXCEPT !.table = y, !.updated = TRUE]
Temped(h)     == [h EXCEPT !.temps = TRUE]

\* The fields of such a handle.
LEMMA HandleFields ==
    ASSUME NEW h \in KnownHandle, NEW y \in Fit
    PROVE  /\ Tabled(h, y) \in KnownHandle /\ Noticed(h, y) \in KnownHandle
           /\ Tabled(h, y).db = h.db /\ Noticed(h, y).db = h.db
           /\ Tabled(h, y).updated = h.updated
           /\ Noticed(h, y).updated /\ Noticed(h, y).table = y
           /\ Noticed(h, y).temps = h.temps
           /\ Tabled(h, y) # NULL /\ Noticed(h, y) # NULL
           /\ h.db \in Databases /\ h # NULL
BY NullAssumption DEF KnownHandle, Handle, Tabled, Noticed

\* A handle that has temporary relations is as it was besides.
LEMMA TempedFields ==
    ASSUME NEW h \in KnownHandle
    PROVE  /\ Temped(h) \in KnownHandle /\ Temped(h) # NULL
           /\ Temped(h).db = h.db /\ Temped(h).updated = h.updated
           /\ Temped(h).table = h.table /\ Temped(h).temps
BY NullAssumption DEF KnownHandle, Handle, Temped

\* The handles after a change.
LEMMA ChangedFields ==
    ASSUME disk \in DisksType, NEW hs \in HandlesType, NEW slot \in Slots, hs[slot] # NULL
    PROVE  LET gs == Changed(hs, slot)
           IN  /\ gs \in HandlesType
               /\ gs[slot] # NULL /\ gs[slot].db = hs[slot].db /\ gs[slot].updated
               /\ gs[slot].table = TableOf(hs[slot]) /\ gs[slot].temps = hs[slot].temps
               /\ \A s \in Slots : s # slot =>
                     /\ gs[s] = NULL <=> hs[s] = NULL
                     /\ hs[s] # NULL => gs[s].db = hs[s].db
                     /\ hs[s] = NULL \/ hs[s].db # hs[slot].db => gs[s] = hs[s]
<1> DEFINE h == hs[slot]
           y == TableOf(h)
           Other(s) == hs[s] # NULL /\ hs[s].db = h.db /\ hs[s].table # NoTable
           gs == Changed(hs, slot)
<1>1. \A s \in Slots : hs[s] \in KnownHandle \cup {NULL}
  BY DEF HandlesType
<1>2. h \in KnownHandle /\ h.db \in Databases
  BY <1>1, HandleFields DEF KnownHandle, Handle
<1>3. y \in Fit
  <2>1. disk[h.db].index \in Fit
    <3> HIDE DEF h
    <3> QED BY <1>2 DEF Database, DisksType
  <2>2. h.table \in Fit \cup {NoTable}
    BY <1>2 DEF KnownHandle, Handle
  <2> HIDE DEF h
  <2> QED BY <2>1, <2>2 DEF TableOf
<1>4. gs = [s \in Slots |-> IF s = slot THEN Noticed(h, y)
                           ELSE IF Other(s) THEN Tabled(hs[s], "lacks") ELSE hs[s]]
  BY DEF Changed, Missing, Noticed, Tabled
<1> HIDE DEF y, h, gs
<1>5. /\ Noticed(h, y) \in KnownHandle /\ Noticed(h, y).db = h.db /\ Noticed(h, y) # NULL
      /\ Noticed(h, y).updated /\ Noticed(h, y).table = y /\ Noticed(h, y).temps = h.temps
  BY <1>2, <1>3, HandleFields
<1>6. \A s \in Slots : hs[s] # NULL => /\ Tabled(hs[s], "lacks") \in KnownHandle
                                       /\ Tabled(hs[s], "lacks") # NULL
                                       /\ Tabled(hs[s], "lacks").db = hs[s].db
  BY <1>1, HandleFields DEF Fit
<1>7. gs \in HandlesType
  BY <1>1, <1>4, <1>5, <1>6 DEF HandlesType
<1>8. /\ gs[slot] = Noticed(h, y)
      /\ \A s \in Slots : s # slot => gs[s] = IF Other(s) THEN Tabled(hs[s], "lacks") ELSE hs[s]
  BY <1>4
<1>9. \A s \in Slots : s # slot =>
         /\ gs[s] = NULL <=> hs[s] = NULL
         /\ hs[s] # NULL => gs[s].db = hs[s].db
         /\ hs[s] = NULL \/ hs[s].db # h.db => gs[s] = hs[s]
  BY <1>6, <1>8
<1> QED
  BY <1>5, <1>7, <1>8, <1>9 DEF gs, y, h

\* What the action Change does.
LEMMA ChangeIs ==
    ASSUME handles \in HandlesType, disk \in DisksType, NEW slot \in Slots,
           handles[slot] # NULL, Change(slot)
    PROVE  ChangeOf(handles, slot, FALSE)
<1> DEFINE d0 == handles[slot].db
           r  == Indexed(disk[d0], "lacks")
<1>1. d0 \in Databases /\ disk[d0] \in Database
  BY DEF HandlesType, KnownHandle, Handle, DisksType
<1>2. /\ handles' = Changed(handles, slot)
      /\ disk' = [disk EXCEPT ![d0] = r]
  BY <1>1 DEF Change, Indexed, DisksType
<1>3. r \in Database /\ r.temps = disk[d0].temps /\ r.leaprel = disk[d0].leaprel
  <2> HIDE DEF d0
  <2> QED BY <1>1, IndexedFields DEF Fit
<1> HIDE DEF r
<1>4. /\ disk' \in DisksType /\ disk'[d0] = r
      /\ \A d \in Databases : d # d0 => disk'[d] = disk[d]
  BY <1>1, <1>2, <1>3 DEF DisksType
<1> QED
  BY <1>2, <1>3, <1>4, ChangedFields DEF ChangeOf

\* What the action Make does.
LEMMA MakeIs ==
    ASSUME disk \in DisksType, NEW hs \in HandlesType, NEW slot \in Slots,
           hs[slot] # NULL, Make(hs, slot)
    PROVE  ChangeOf(hs, slot, TRUE)
<1> DEFINE d0 == hs[slot].db
           r  == Tempered(Indexed(disk[d0], "lacks"), TRUE)
           gs == Changed(hs, slot)
<1>1. d0 \in Databases /\ disk[d0] \in Database
  BY DEF HandlesType, KnownHandle, Handle, DisksType
<1>2. disk' = [disk EXCEPT ![d0] = r]
  BY <1>1 DEF Make, Indexed, Tempered, DisksType, Database
<1>3. r \in Database /\ r.leaprel = disk[d0].leaprel
  <2> HIDE DEF d0
  <2>1. Indexed(disk[d0], "lacks") \in Database /\ Indexed(disk[d0], "lacks").leaprel = disk[d0].leaprel
    BY <1>1, IndexedFields DEF Fit
  <2> QED BY <1>1, <2>1, TemperedFields
<1> HIDE DEF r
<1>4. /\ disk' \in DisksType /\ disk'[d0] = r
      /\ \A d \in Databases : d # d0 => disk'[d] = disk[d]
  BY <1>1, <1>2, <1>3 DEF DisksType
<1>5. /\ gs \in HandlesType
      /\ gs[slot] # NULL /\ gs[slot].db = d0 /\ gs[slot].updated
      /\ gs[slot].table = TableOf(hs[slot])
      /\ \A s \in Slots : s # slot =>
            /\ gs[s] = NULL <=> hs[s] = NULL
            /\ hs[s] # NULL => gs[s].db = hs[s].db
            /\ hs[s] = NULL \/ hs[s].db # d0 => gs[s] = hs[s]
  BY ChangedFields
<1>6. handles' = [gs EXCEPT ![slot] = Temped(gs[slot])]
  BY <1>5 DEF Make, Temped, HandlesType
<1> HIDE DEF gs
<1>7. gs[slot] \in KnownHandle
  BY <1>5 DEF HandlesType
<1>8. /\ Temped(gs[slot]) \in KnownHandle /\ Temped(gs[slot]) # NULL
      /\ Temped(gs[slot]).db = d0 /\ Temped(gs[slot]).updated
      /\ Temped(gs[slot]).table = TableOf(hs[slot]) /\ Temped(gs[slot]).temps
  BY <1>5, <1>7, TempedFields
<1>9. /\ handles' \in HandlesType /\ handles'[slot] = Temped(gs[slot])
      /\ \A s \in Slots : s # slot => handles'[s] = gs[s]
  BY <1>5, <1>6, <1>8 DEF HandlesType
<1> QED
  BY <1>3, <1>4, <1>5, <1>8, <1>9 DEF ChangeOf

\* Changing a relation keeps handles and disks in step.
LEMMA ChangeFits ==
    ASSUME disk \in DisksType, NEW hs \in HandlesType, NEW slot \in Slots, NEW c \in BOOLEAN,
           hs[slot] # NULL, ChangeOf(hs, slot, c), NEW opened, NEW doubtful,
           DiskFits(hs, disk, opened, doubtful)
    PROVE  DiskFits(handles', disk', opened, doubtful)
<1> DEFINE h == hs[slot]
           d0 == h.db
<1>1. d0 \in Databases /\ h \in KnownHandle
  BY DEF HandlesType, KnownHandle, Handle
<1>2. /\ \A d \in Databases : d # d0 => disk'[d] = disk[d]
      /\ disk'[d0].leaprel = disk[d0].leaprel /\ (disk'[d0].temps => disk[d0].temps \/ c)
      /\ handles'[slot] # NULL /\ handles'[slot].db = d0 /\ handles'[slot].updated
      /\ handles'[slot].table = TableOf(h)
      /\ h.temps \/ c => handles'[slot].temps
      /\ \A s \in Slots : s # slot =>
            /\ handles'[s] = NULL <=> hs[s] = NULL
            /\ hs[s] # NULL => handles'[s].db = hs[s].db
            /\ hs[s] = NULL \/ hs[s].db # d0 => handles'[s] = hs[s]
  BY DEF ChangeOf
<1>3. \A s \in Slots, d \in Databases : Holds(handles', s, d) <=> Holds(hs, s, d)
  BY <1>2 DEF Holds
<1>4. Holds(hs, slot, d0) /\ \A d \in Databases : d # d0 => ~Holds(hs, slot, d)
  BY DEF Holds
<1>5. TableOf(h) = IF h.table = NoTable THEN disk[d0].index ELSE h.table
  BY DEF TableOf
<1> HIDE DEF h, d0
<1> SUFFICES ASSUME NEW d \in Databases
             PROVE  /\ \A t \in Slots : Holds(handles', t, d) =>
                          d \in opened /\ disk'[d].leaprel # "none"
                    /\ d \notin doubtful =>
                          /\ \A t, u \in Slots :
                                Holds(handles', t, d) /\ Holds(handles', u, d) => t = u
                          /\ \A t \in Slots :
                                Holds(handles', t, d) => HandleFits(handles'[t], disk'[d])
                          /\ (\A t \in Slots : ~Holds(handles', t, d)) =>
                                disk'[d].index = "covers" /\ (d \in opened => ~disk'[d].temps)
  BY DEF DiskFits
<1>6. \A t \in Slots : Holds(handles', t, d) => d \in opened /\ disk'[d].leaprel # "none"
  BY <1>2, <1>3 DEF DiskFits
<1>7. CASE d = d0
  <2>1. ASSUME d \notin doubtful PROVE HandleFits(handles'[slot], disk'[d])
    <3>1. HandleFits(h, disk[d0])
      BY <1>4, <1>7, <2>1 DEF DiskFits, h
    <3>2. TableOf(h) = "covers"
      BY <1>5, <3>1, NullAssumption DEF HandleFits, Fit
    <3>3. disk'[d0].temps => handles'[slot].temps
      BY <1>2, <3>1 DEF HandleFits
    <3> QED BY <1>2, <1>7, <3>2, <3>3 DEF HandleFits
  <2>2. d \notin doubtful => \A t \in Slots : Holds(hs, t, d) => t = slot
    BY <1>4, <1>7 DEF DiskFits
  <2> QED BY <1>3, <1>4, <1>6, <1>7, <2>1, <2>2
<1>8. CASE d # d0
  <2>1. \A t \in Slots : Holds(hs, t, d) => handles'[t] = hs[t]
    BY <1>2, <1>4, <1>8 DEF Holds
  <2>2. disk'[d] = disk[d]
    BY <1>2, <1>8
  <2> QED BY <1>3, <1>6, <2>1, <2>2 DEF DiskFits
<1> QED
  BY <1>7, <1>8

\* What the history says once a database has been opened.
LEMMA NotedFields ==
    ASSUME past \in History, NEW d \in Databases
    PROVE  /\ Noted(d) \in History
           /\ Noted(d).opened = past.opened \cup {d}
           /\ past.doubtful \subseteq Noted(d).doubtful
           /\ d \in past.opened /\ (\E s \in Slots : Holds(handles, s, d))
                 => d \in Noted(d).doubtful
           /\ Noted(d).ran = past.ran /\ Noted(d).early = past.early
<1>1. Noted(d).doubtful = IF d \in past.opened /\ \E s \in Slots : Holds(handles, s, d)
                          THEN past.doubtful \cup {d} ELSE past.doubtful
  BY DEF Noted, History, Holds
<1>2. Noted(d).opened = past.opened \cup {d}
  BY DEF Noted, History
<1>3. Noted(d).ran = past.ran /\ Noted(d).early = past.early
  BY DEF Noted, History
<1>4. Noted(d) \in History
  <2> DEFINE b == IF d \in past.opened /\ \E s \in Slots : handles[s] # NULL /\ handles[s].db = d
                  THEN past.doubtful \cup {d} ELSE past.doubtful
             o == past.opened \cup {d}
  <2>1. Noted(d) = [past EXCEPT !.opened = o, !.doubtful = b]
    BY DEF Noted
  <2>2. b \in SUBSET Databases /\ o \in SUBSET Databases
    BY DEF History
  <2> HIDE DEF b, o
  <2> QED BY <2>1, <2>2 DEF History
<1> QED
  BY <1>1, <1>2, <1>3, <1>4

\* A database is opened in a slot where none is: it is as good as its handle, or doubtful.
LEMMA OpenFits ==
    ASSUME handles \in HandlesType, disk \in DisksType, past \in History,
           DiskFits(handles, disk, past.opened, past.doubtful),
           NEW slot \in Slots, handles[slot] = NULL, NEW d \in Databases,
           disk[d].leaprel # "none"
    PROVE  LET g == [handles EXCEPT ![slot] = Opened(d)]
           IN  /\ g \in HandlesType
               /\ g[slot] # NULL /\ g[slot].db = d
               /\ \A s \in Slots : s # slot => g[s] = handles[s]
               /\ DiskFits(g, disk, Noted(d).opened, Noted(d).doubtful)
<1> DEFINE h == Opened(d)
           g == [handles EXCEPT ![slot] = h]
<1>1. disk[d] \in Database
  BY DEF DisksType
<1>2. /\ h \in KnownHandle /\ h # NULL
      /\ h.db = d /\ ~h.updated /\ h.table = NoTable /\ h.temps = disk[d].temps
  <2> DEFINE good == disk[d].leaprel = "good"
             temps == disk[d].temps
  <2>1. h = [db |-> d, loaded |-> good, table |-> NoTable, updated |-> FALSE, temps |-> temps]
    BY DEF Opened
  <2>2. temps \in BOOLEAN /\ good \in BOOLEAN
    BY <1>1 DEF Database
  <2>3. temps = disk[d].temps
    OBVIOUS
  <2> HIDE DEF good, temps, h
  <2>4. h \in KnownHandle
    BY <2>1, <2>2 DEF KnownHandle, Handle
  <2>5. h # NULL
    BY <2>4, NullIsNone
  <2> QED BY <2>1, <2>3, <2>4, <2>5
<1>4. /\ g \in HandlesType /\ g[slot] = h
      /\ \A s \in Slots : s # slot => g[s] = handles[s]
  BY <1>2 DEF HandlesType
<1> HIDE DEF h, g
<1>7. \A s \in Slots, e \in Databases :
         Holds(g, s, e) <=> IF s = slot THEN e = d ELSE Holds(handles, s, e)
  BY <1>2, <1>4 DEF Holds
<1>8. \A e \in Databases : ~Holds(handles, slot, e)
  BY DEF Holds
<1>10. DiskFits(g, disk, Noted(d).opened, Noted(d).doubtful)
  <2> DEFINE opened == Noted(d).opened
             doubtful == Noted(d).doubtful
  <2>1. /\ opened = past.opened \cup {d} /\ past.doubtful \subseteq doubtful
        /\ d \in past.opened /\ (\E s \in Slots : Holds(handles, s, d)) => d \in doubtful
    BY NotedFields
  <2> HIDE DEF opened, doubtful
  <2> SUFFICES ASSUME NEW e \in Databases
               PROVE  /\ \A t \in Slots : Holds(g, t, e) =>
                            e \in opened /\ disk[e].leaprel # "none"
                      /\ e \notin doubtful =>
                            /\ \A t, u \in Slots : Holds(g, t, e) /\ Holds(g, u, e) => t = u
                            /\ \A t \in Slots : Holds(g, t, e) => HandleFits(g[t], disk[e])
                            /\ (\A t \in Slots : ~Holds(g, t, e)) =>
                                  disk[e].index = "covers" /\ (e \in opened => ~disk[e].temps)
    BY DEF DiskFits, opened, doubtful
  <2>2. \A t \in Slots : Holds(g, t, e) => e \in opened /\ disk[e].leaprel # "none"
    BY <1>7, <2>1 DEF DiskFits
  <2>3. CASE e = d
    <3> SUFFICES ASSUME d \notin doubtful
                 PROVE  /\ \A t, u \in Slots : Holds(g, t, d) /\ Holds(g, u, d) => t = u
                        /\ \A t \in Slots : Holds(g, t, d) => HandleFits(g[t], disk[d])
                        /\ (\A t \in Slots : ~Holds(g, t, d)) =>
                                  disk[d].index = "covers" /\ (d \in opened => ~disk[d].temps)
      BY <2>2, <2>3
    <3>1. \A s \in Slots : ~Holds(handles, s, d)
      BY <2>1 DEF DiskFits
    <3>2. disk[d].index = "covers"
      BY <2>1, <3>1 DEF DiskFits
    <3>3. HandleFits(h, disk[d])
      BY <1>2, <3>2 DEF HandleFits
    <3>4. \A t \in Slots : Holds(g, t, d) <=> t = slot
      BY <1>7, <3>1
    <3> QED BY <1>4, <3>3, <3>4
  <2>4. CASE e # d
    <3>1. \A t \in Slots : Holds(g, t, e) <=> Holds(handles, t, e)
      BY <1>7, <1>8, <2>4
    <3>2. \A t \in Slots : Holds(g, t, e) => g[t] = handles[t]
      BY <1>4, <1>8, <3>1
    <3> QED BY <2>1, <2>2, <2>4, <3>1, <3>2 DEF DiskFits
  <2> QED BY <2>3, <2>4
<1> QED
  BY <1>2, <1>4, <1>10 DEF g, h

\* Opening a database makes a result, in it or in tempdb, and that keeps things in step.
LEMMA OpenMakes ==
    ASSUME handles \in HandlesType, disk \in DisksType, past \in History,
           DiskFits(handles, disk, past.opened, past.doubtful),
           NEW slot \in Slots, handles[slot] = NULL, NEW d \in Databases,
           disk[d].leaprel # "none", Open(slot, d),
           d # Tempdb => slot # "tempdb" /\ handles["tempdb"] # NULL /\ "tempdb" \in Slots
    PROVE  /\ handles' \in HandlesType /\ disk' \in DisksType
           /\ \A e \in Databases : disk'[e].leaprel = disk[e].leaprel
           /\ handles'[slot] # NULL /\ handles'[slot].db = d
           /\ \A s \in Slots : s # slot =>
                 /\ handles'[s] = NULL <=> handles[s] = NULL
                 /\ handles[s] # NULL => handles'[s].db = handles[s].db
           /\ DiskFits(handles', disk', Noted(d).opened, Noted(d).doubtful)
<1> DEFINE g == [handles EXCEPT ![slot] = Opened(d)]
           home == Home(g, slot)
<1>1. /\ g \in HandlesType
      /\ g[slot] # NULL /\ g[slot].db = d
      /\ \A s \in Slots : s # slot => g[s] = handles[s]
      /\ DiskFits(g, disk, Noted(d).opened, Noted(d).doubtful)
  BY OpenFits
<1>2. Make(g, home)
  BY DEF Open
<1> HIDE DEF g
<1>3. home \in Slots /\ g[home] # NULL
  BY <1>1 DEF Home
<1> HIDE DEF home
<1>4. ChangeOf(g, home, TRUE)
  BY <1>1, <1>2, <1>3, MakeIs
<1>5. DiskFits(handles', disk', Noted(d).opened, Noted(d).doubtful)
  BY <1>1, <1>3, <1>4, ChangeFits
<1>6. /\ handles' \in HandlesType /\ disk' \in DisksType
      /\ \A e \in Databases : disk'[e].leaprel = disk[e].leaprel
      /\ \A s \in Slots : /\ handles'[s] = NULL <=> g[s] = NULL
                          /\ g[s] # NULL => handles'[s].db = g[s].db
  BY <1>3, <1>4 DEF ChangeOf
<1> QED
  BY <1>1, <1>5, <1>6

-------------------------------------------------------------------------------
\* Commands, scripts and the history.

\* What a command is about.
LEMMA CommandKinds ==
    ASSUME NEW l \in Commands
    PROVE  /\ l.do \in {"use", "create"} => l.of \in Databases
           /\ l.do = "source" => l.of \in ScriptNames
           /\ l.do = "record" => l.of \in Recordable
           /\ l.do = "set" => l.of \in Settable
BY DEF Commands

\* The command without effect is one.
LEMMA NothingIsCommand == Nothing \in Commands /\ Nothing.do = "nothing"
BY DEF Nothing, Commands

\* A script that is written is a sequence of commands as before.
LEMMA ScriptWritten ==
    ASSUME NEW ss \in ScriptsType, NEW d \in Databases, NEW n \in ScriptNames,
           NEW ls \in Seq(Commands)
    PROVE  [ss EXCEPT ![d][n] = ls] \in ScriptsType
<1> DEFINE L == Seq(Commands) \cup {NoFile}
<1>1. ss \in [Databases -> [ScriptNames -> L]] /\ ls \in L
  BY DEF ScriptsType
<1> HIDE DEF L
<1>2. [ss[d] EXCEPT ![n] = ls] \in [ScriptNames -> L]
  BY <1>1
<1>3. [ss EXCEPT ![d] = [ss[d] EXCEPT ![n] = ls]] \in [Databases -> [ScriptNames -> L]]
  BY <1>1, <1>2
<1> QED
  BY <1>1, <1>3 DEF ScriptsType, L

\* What is read next comes from a file of commands, or from somebody.
LEMMA InputTyped ==
    ASSUME SessionType, NEW d \in Databases, NEW s \in ScriptNames
    PROVE  InputFrom(d, s) \in InputType
<1>1. scripts[d][s] \in Seq(Commands) \cup {NoFile} /\ input \in InputType
  BY DEF SessionType, ScriptsType
<1>2. <<>> \in Seq(Commands)
  OBVIOUS
<1> QED
  BY <1>1, <1>2 DEF InputFrom, InputType

\* An empty input is one.
LEMMA NoInputTyped == [from |-> "stdin", rest |-> <<>>] \in InputType
<1>1. <<>> \in Seq(Commands)
  OBVIOUS
<1> QED
  BY <1>1 DEF InputType

\* What is in order stays so if more is doubted.
LEMMA DiskWeaker ==
    ASSUME NEW hs, NEW dk, NEW opened, NEW doubtful, NEW unsure,
           DiskFits(hs, dk, opened, doubtful), doubtful \subseteq unsure
    PROVE  DiskFits(hs, dk, opened, unsure)
BY DEF DiskFits

\* No database is being created.
LEMMA DiskNow ==
    ASSUME DiskOK, phase # "create close"
    PROVE  DiskFits(handles, disk, past.opened, past.doubtful)
<1>1. past.doubtful \cup Creating = past.doubtful
  BY DEF Creating
<1> QED
  BY <1>1 DEF DiskOK

\* What DiskOK says in the next state, whether a database is being created or not.
LEMMA DiskNext ==
    ASSUME NEW unsure, DiskFits(handles', disk', past'.opened, unsure),
           unsure \subseteq (past.doubtful \cup Creating)'
    PROVE  DiskOK'
<1>1. DiskFits(handles', disk', past'.opened, (past.doubtful \cup Creating)')
  BY DiskWeaker
<1>2. DiskFits(handles', disk', past'.opened, (past.doubtful \cup Creating)') <=> DiskOK'
  BY DEF DiskOK, DiskFits, Holds, HandleFits
<1> QED
  BY <1>1, <1>2

\* The databases that are opened or doubtful are what they were.
LEMMA DiskSame ==
    ASSUME DiskOK, phase # "create close", UNCHANGED <<handles, disk>>,
           past'.opened = past.opened, past'.doubtful = past.doubtful
    PROVE  DiskOK'
<1>1. DiskFits(handles', disk', past'.opened, past.doubtful)
  BY DiskNow
<1> QED
  BY <1>1, DiskNext

\* What was there is there, and no command is busy with it any more.
LEMMA KnownSame ==
    ASSUME KnownOK, registry.databases \subseteq Databases,
           \A d \in Databases : disk[d].leaprel # "none" => disk'[d].leaprel # "none",
           registry'.databases = registry.databases, phase' \notin Busy
    PROVE  KnownOK'
BY DEF KnownOK, Busy

\* currentdb and what it tells of are what they were.
LEMMA ToldSame ==
    ASSUME ToldOK, phase \in Told, variables' = variables,
           handles'["current"].db = handles["current"].db
    PROVE  ToldOK'
BY DEF ToldOK, resolve_variable, FirstOf, current

\* Nothing has been begun.
LEMMA CountSame ==
    ASSUME CountOK, phase # "use tell", phase' # "use tell", startscript' = startscript,
           past'.ran = past.ran, past'.early = past.early
    PROVE  CountOK'
BY DEF CountOK

-------------------------------------------------------------------------------
\* However a process ends, the databases that are not doubtful are in order.
LEMMA EndedKeeps ==
    ASSUME SessionInv, NEW left \in {"closed", "signal", "refused", "died"},
           NEW lost \in SUBSET Databases, Ended(left, lost),
           disk' \in DisksType, scripts' \in ScriptsType,
           \A d \in Databases : disk[d].leaprel # "none" => disk'[d].leaprel # "none",
           \A d \in Databases : d \notin past.doubtful \cup lost =>
               /\ disk'[d].index = "covers"
               /\ left \in {"closed", "signal"} /\ d \in past.opened => ~disk'[d].temps
    PROVE  SessionInv'
<1> DEFINE opened == IF left \in {"closed", "signal"} THEN past.opened ELSE {}
           doubtful == past.doubtful \cup lost
<1>1. past' = [past EXCEPT !.left = left, !.doubtful = doubtful, !.ran = 0,
                           !.early = FALSE, !.opened = opened]
  BY DEF Ended
<1>2. past \in History /\ opened \in SUBSET Databases /\ doubtful \in SUBSET Databases
  BY DEF SessionInv, SessionType, History
<1>3. /\ past' \in History
      /\ past'.opened = opened /\ past'.doubtful = doubtful
      /\ past'.ran = 0 /\ past'.early = FALSE
  <2> HIDE DEF opened, doubtful
  <2>1. past' \in History
    <3>1. past' = [opened |-> opened, doubtful |-> doubtful, ran |-> 0, early |-> FALSE,
                   typed |-> past.typed, sessions |-> past.sessions, left |-> left]
      BY <1>1, <1>2 DEF History
    <3>2. past.typed \in 0 .. MaxTyped /\ past.sessions \in 0 .. MaxSessions /\ 0 \in 0 .. 2
      BY <1>2 DEF History
    <3> QED BY <1>2, <3>1, <3>2 DEF History
  <2>2. past'.opened = opened /\ past'.doubtful = doubtful
    BY <1>1, <1>2 DEF History
  <2>3. past'.ran = 0 /\ past'.early = FALSE
    BY <1>1, <1>2 DEF History
  <2> QED BY <2>1, <2>2, <2>3
<1>4. handles' = [s \in Slots |-> NULL]
  BY DEF Ended
<1>5. SessionType'
  <2>1. /\ handles' \in HandlesType /\ variables' \in VariablesType
        /\ Len(variables') <= VARIABLE_NUMBER
    BY <1>4, PlacesAssumption DEF HandlesType, VariablesType, Ended
  <2>2. input' \in InputType /\ line' \in Commands
    BY NoInputTyped, NothingIsCommand DEF Ended
  <2>3. phase' \in Phases /\ startscript' \in 0 .. 1 /\ recording' = NULL
    BY DEF Ended, Phases
  <2>4. /\ program' \in {"leap", "leapd"} /\ dbtoopen' \in Databases
        /\ registry' \in [databases : SUBSET Databases, logins : BOOLEAN]
    BY DEF Ended, fixed, SessionInv, SessionType
  <2> QED BY <1>3, <2>1, <2>2, <2>3, <2>4 DEF SessionType
<1>6. DiskOK'
  <2>1. \A s \in Slots, d \in Databases : ~Holds(handles', s, d)
    BY <1>4 DEF Holds
  <2>2. \A d \in Databases : d \notin doubtful =>
           disk'[d].index = "covers" /\ (d \in opened => ~disk'[d].temps)
    OBVIOUS
  <2> HIDE DEF opened, doubtful
  <2>3. DiskFits(handles', disk', opened, doubtful)
    BY <2>1, <2>2 DEF DiskFits
  <2> QED BY <1>3, <2>3, DiskNext
<1>7. PhaseOK'
  <2>1. phase' = "down" /\ \A s \in Slots : handles'[s] = NULL
    BY <1>4 DEF Ended
  <2> QED BY <2>1 DEF PhaseOK, Before, Busy, Creation, Slots
<1>8. ToldOK' /\ CountOK'
  <2>1. phase' = "down" /\ startscript' = 0
    BY DEF Ended
  <2> QED BY <1>3, <2>1 DEF ToldOK, CountOK, Told, Creation
<1>9. KnownOK'
  <2>1. registry' = registry /\ phase' \notin Busy
    BY DEF Ended, Busy, Creation
  <2> QED BY <2>1, KnownSame DEF SessionInv, SessionType
<1> QED
  BY <1>5, <1>6, <1>7, <1>8, <1>9 DEF SessionInv

\* What the tables of a process that dies, or refuses to start, knew better is lost, and
\* nothing else.
LEMMA LostKeeps ==
    ASSUME SessionInv, NEW left \in {"refused", "died"}, Ended(left, Lost),
           disk' = disk, scripts' = scripts
    PROVE  SessionInv'
<1>1. Lost \in SUBSET Databases
  <2>1. Creating \subseteq Databases
    BY DEF Creating, SessionInv, PhaseOK, Busy, Creation
  <2> QED BY <2>1 DEF SessionInv, SessionType, HandlesType, KnownHandle, Handle, Lost
<1>2. \A d \in Databases : d \notin past.doubtful \cup Lost => disk'[d].index = "covers"
  <2> SUFFICES ASSUME NEW d \in Databases, d \notin past.doubtful, d \notin Lost
               PROVE  disk[d].index = "covers"
    OBVIOUS
  <2>1. d \notin past.doubtful \cup Creating
    BY DEF Lost
  <2>2. \A s \in Slots : Holds(handles, s, d) => ~handles[s].updated
    BY DEF Holds, Lost
  <2>3. \A s \in Slots : Holds(handles, s, d) => HandleFits(handles[s], disk[d])
    BY <2>1 DEF SessionInv, DiskOK, DiskFits
  <2>4. (\A s \in Slots : ~Holds(handles, s, d)) => disk[d].index = "covers"
    BY <2>1 DEF SessionInv, DiskOK, DiskFits
  <2> QED BY <2>2, <2>3, <2>4 DEF HandleFits
<1>3. disk' \in DisksType /\ scripts' \in ScriptsType
  BY DEF SessionInv, SessionType
<1> QED
  BY <1>1, <1>2, <1>3, EndedKeeps

\* The process dies.
LEMMA DieKeeps == ASSUME SessionInv, Die PROVE SessionInv'
BY LostKeeps DEF Die

-------------------------------------------------------------------------------
\* The startup.

\* An installation is in order.
LEMMA InitKeeps == ASSUME Init PROVE SessionInv
<1>1. /\ phase = "down" /\ \A s \in Slots : handles[s] = NULL
      /\ handles \in HandlesType
  BY DEF Init, HandlesType
<1>2. /\ disk \in DisksType /\ \A d \in Databases : disk[d].index = "covers"
      /\ \A d \in Installed : d \in Databases => disk[d].leaprel # "none"
  <2>1. \A d \in Databases :
           [leaprel |-> IF d \in Installed THEN "good" ELSE "none",
            index |-> "covers", temps |-> FALSE] \in Database
    BY DEF Database, Fit
  <2> QED BY <2>1 DEF Init, DisksType
<1>3. scripts \in ScriptsType
  <2> DEFINE L == Seq(Commands) \cup {NoFile}
  <2>1. PICK startup \in Startups, open \in Opens :
              scripts = [d \in Databases |-> [s \in ScriptNames |->
                  CASE s = "startup" /\ d = Master -> startup
                    [] s = "open" /\ d = DefaultDb -> open
                    [] s = "open" /\ d \in Installed \ {DefaultDb} -> <<>>
                    [] OTHER -> NoFile]]
    BY DEF Init
  <2>2. startup \in L /\ open \in L /\ <<>> \in L /\ NoFile \in L
    BY CommandAssumption
  <2> HIDE DEF L
  <2>3. \A d \in Databases, s \in ScriptNames :
           (CASE s = "startup" /\ d = Master -> startup
              [] s = "open" /\ d = DefaultDb -> open
              [] s = "open" /\ d \in Installed \ {DefaultDb} -> <<>>
              [] OTHER -> NoFile) \in L
    BY <2>2
  <2>4. scripts \in [Databases -> [ScriptNames -> L]]
    BY <2>1, <2>3
  <2> QED BY <2>4 DEF ScriptsType, L
<1>4. /\ past \in History /\ past.opened = {} /\ past.ran = 0 /\ past.early = FALSE
      /\ startscript = 0
  BY BoundAssumption DEF Init, History
<1>5. SessionType
  <2>1. input \in InputType /\ line \in Commands
    BY NoInputTyped, NothingIsCommand DEF Init
  <2>2. variables \in VariablesType /\ Len(variables) <= VARIABLE_NUMBER
    BY PlacesAssumption DEF Init, VariablesType
  <2>3. /\ dbtoopen \in Databases
        /\ registry \in [databases : SUBSET Databases, logins : BOOLEAN]
    BY DatabaseAssumption DEF Init, Installed
  <2>4. program \in {"leap", "leapd"} /\ phase \in Phases /\ startscript \in 0 .. 1 /\ recording = NULL
    BY DEF Init, Phases
  <2> QED BY <1>1, <1>2, <1>3, <1>4, <2>1, <2>2, <2>3, <2>4 DEF SessionType
<1>6. DiskOK
  BY <1>1, <1>2, <1>4 DEF DiskOK, DiskFits, Holds
<1>7. PhaseOK
  BY <1>1 DEF PhaseOK, Before, Busy, Creation, Slots
<1>8. ToldOK /\ CountOK
  BY <1>1, <1>4 DEF ToldOK, CountOK, Told, Creation
<1>9. KnownOK
  <2>1. registry.databases = Installed /\ Installed \subseteq Databases
    BY DatabaseAssumption DEF Init, Installed
  <2> QED BY <1>1, <1>2, <2>1 DEF KnownOK, Busy, Creation
<1> QED
  BY <1>5, <1>6, <1>7, <1>8, <1>9 DEF SessionInv

\* Nothing is open when a session starts.
LEMMA StartKeeps ==
    ASSUME SessionInv, NEW p \in {"leap", "leapd"}, NEW d \in Asked, NEW config \in Configs,
           Start(p, d, config)
    PROVE  SessionInv'
<1>1. /\ phase = "down" /\ phase' = "tempdb" /\ UNCHANGED <<handles, disk>>
      /\ \A s \in Slots : handles[s] = NULL
  BY DEF Start, store, SessionInv, PhaseOK, Before, Slots
<1>2. /\ past' \in History
      /\ past'.opened = {} /\ past'.doubtful = past.doubtful
      /\ past'.ran = past.ran /\ past'.early = past.early
  <2>1. /\ past' = [past EXCEPT !.opened = {}, !.left = "closed", !.sessions = @ + 1]
        /\ past \in History /\ past.sessions < MaxSessions
    BY DEF Start, SessionInv, SessionType
  <2>2. past.sessions + 1 \in 0 .. MaxSessions
    BY <2>1, BoundAssumption DEF History
  <2>3. past' \in History
    <3>1. past' = [opened |-> {}, doubtful |-> past.doubtful, ran |-> past.ran,
                   early |-> past.early, typed |-> past.typed,
                   sessions |-> past.sessions + 1, left |-> "closed"]
      BY <2>1 DEF History
    <3> QED BY <2>1, <2>2, <3>1 DEF History
  <2> QED BY <2>1, <2>3 DEF History
<1>3. variables' \in VariablesType /\ Len(variables') <= VARIABLE_NUMBER
  <2>1. config \in Seq(Entry(STRING, Values)) /\ variables' = init_variables(config)
    <3>1. config \in Seq(Entry(STRING, STRING))
      BY CommandAssumption DEF Entry
    <3>2. \A e \in Entry(STRING, STRING) : e \in Entry(STRING, Values)
      BY DEF Entry, Values
    <3> QED BY <3>1, <3>2 DEF Start
  <2> QED BY <2>1, InitMakesTable DEF VariablesType
<1>4. SessionType'
  <2>1. /\ program' \in {"leap", "leapd"} /\ phase' \in Phases /\ dbtoopen' \in Databases
        /\ UNCHANGED <<handles, disk, scripts, registry, input, startscript, recording, line>>
    BY CommandAssumption DEF Start, Phases, store, reading
  <2> QED BY <1>2, <1>3, <2>1 DEF SessionType, SessionInv
<1>5. DiskOK'
  <2>1. \A e \in Databases : e \notin past.doubtful => disk[e].index = "covers"
    BY <1>1, DiskNow DEF SessionInv, DiskFits, Holds
  <2>2. DiskFits(handles, disk, {}, past.doubtful)
    BY <1>1, <2>1 DEF DiskFits, Holds
  <2>3. DiskFits(handles', disk', past'.opened, past'.doubtful)
    BY <1>1, <1>2, <2>2
  <2> QED BY <2>3, DiskNext
<1>6. PhaseOK'
  BY <1>1 DEF PhaseOK, Before, Busy, Creation, Slots
<1>7. ToldOK' /\ CountOK'
  <2>1. startscript' = startscript
    BY DEF Start, reading
  <2>2. CountOK'
    BY <1>1, <1>2, <2>1, CountSame DEF SessionInv
  <2> QED BY <1>1, <2>2 DEF ToldOK, Told, Creation
<1>8. KnownOK'
  <2>1. registry' = registry /\ disk' = disk /\ phase' \notin Busy
    BY <1>1 DEF Start, store, Busy, Creation
  <2> QED BY <2>1, KnownSame DEF SessionInv, SessionType
<1> QED
  BY <1>4, <1>5, <1>6, <1>7, <1>8 DEF SessionInv

\* The three databases are opened one after the other, or the program refuses to start.
LEMMA OpenNextKeeps ==
    ASSUME SessionInv, NEW slot \in Slots, NEW d \in Databases, NEW next,
           OpenNext(slot, d, next),
           \/ slot = "tempdb" /\ next = "master" /\ d = Tempdb
           \/ slot = "master" /\ next = "current" /\ d = Master
           \/ slot = "current" /\ next = "starting"
    PROVE  SessionInv'
<1>1. /\ phase = slot /\ phase \in Before /\ phase # "use tell"
      /\ phase # "create close"
  BY DEF OpenNext, Before
<1>2. SessionType /\ DiskOK /\ PhaseOK /\ KnownOK /\ CountOK
  BY DEF SessionInv
<1>3. /\ handles \in HandlesType /\ disk \in DisksType /\ past \in History
      /\ scripts \in ScriptsType
  BY <1>2 DEF SessionType
<1>4. handles[slot] = NULL
  BY <1>1, <1>2 DEF PhaseOK, Before, Slots
<1>5. CASE disk[d].leaprel = "none"
  <2>1. Ended("refused", Lost) /\ disk' = disk /\ scripts' = scripts
    BY <1>5 DEF OpenNext
  <2> QED BY <2>1, LostKeeps
<1>6. CASE disk[d].leaprel # "none"
  <2>1. /\ Open(slot, d) /\ past' = Noted(d) /\ phase' = next
        /\ UNCHANGED <<program, dbtoopen, scripts, registry, input, startscript,
                       recording, line, variables>>
    BY <1>6 DEF OpenNext, fixed, reading
  <2>2. d # Tempdb => slot # "tempdb" /\ handles["tempdb"] # NULL /\ "tempdb" \in Slots
    BY <1>1, <1>2 DEF PhaseOK, Before, Slots
  <2>3. /\ handles' \in HandlesType /\ disk' \in DisksType
        /\ \A e \in Databases : disk'[e].leaprel = disk[e].leaprel
        /\ handles'[slot] # NULL /\ handles'[slot].db = d
        /\ \A s \in Slots : s # slot =>
              /\ handles'[s] = NULL <=> handles[s] = NULL
              /\ handles[s] # NULL => handles'[s].db = handles[s].db
        /\ DiskFits(handles', disk', Noted(d).opened, Noted(d).doubtful)
    BY <1>1, <1>2, <1>3, <1>4, <1>6, <2>1, <2>2, DiskNow, OpenMakes
  <2>4. /\ Noted(d) \in History
        /\ Noted(d).ran = past.ran /\ Noted(d).early = past.early
    BY <1>3, NotedFields
  <2>5. /\ phase' \in Phases /\ phase' \notin Told /\ phase' # "use tell"
        /\ phase' \notin Busy
    BY <2>1 DEF Phases, Told, Busy, Creation
  <2>6. SessionType'
    BY <1>2, <2>1, <2>3, <2>4, <2>5 DEF SessionType
  <2>7. DiskOK'
    BY <2>1, <2>3, DiskNext
  <2>8. PhaseOK'
    <3>1. CASE slot = "tempdb"
      BY <1>1, <1>2, <2>1, <2>3, <3>1 DEF PhaseOK, Before, Busy, Creation, Slots
    <3>2. CASE slot = "master"
      BY <1>1, <1>2, <2>1, <2>3, <3>2 DEF PhaseOK, Before, Busy, Creation, Slots
    <3>3. CASE slot = "current"
      BY <1>1, <1>2, <2>1, <2>3, <3>3 DEF PhaseOK, Before, Busy, Creation, Slots
    <3> QED BY <3>1, <3>2, <3>3 DEF Slots
  <2>9. ToldOK' /\ CountOK'
    BY <1>1, <1>2, <2>1, <2>4, <2>5, CountSame DEF ToldOK
  <2>10. KnownOK'
    BY <1>2, <2>1, <2>3, <2>5, KnownSame DEF SessionType
  <2> QED BY <2>6, <2>7, <2>8, <2>9, <2>10 DEF SessionInv
<1> QED
  BY <1>5, <1>6

\* What stays true of the handles and of the disk when a relation is changed or made.
LEMMA ChangeKeeps ==
    ASSUME SessionInv, NEW slot \in Slots, handles[slot] # NULL, phase # "create close",
           Change(slot) \/ Make(handles, slot) \/ UNCHANGED <<disk, handles>>,
           past'.opened = past.opened, past'.doubtful = past.doubtful
    PROVE  /\ handles' \in HandlesType /\ disk' \in DisksType
           /\ \A d \in Databases : disk'[d].leaprel = disk[d].leaprel
           /\ \A d \in Databases : ~Holds(handles, slot, d) => disk'[d] = disk[d]
           /\ \A s \in Slots : handles'[s] = NULL <=> handles[s] = NULL
           /\ \A s \in Slots : handles[s] # NULL => handles'[s].db = handles[s].db
           /\ DiskOK'
<1>1. /\ handles \in HandlesType /\ disk \in DisksType /\ DiskOK
      /\ DiskFits(handles, disk, past.opened, past.doubtful)
  BY DiskNow DEF SessionInv, SessionType
<1>2. ASSUME NEW c \in BOOLEAN, ChangeOf(handles, slot, c)
      PROVE  /\ handles' \in HandlesType /\ disk' \in DisksType
             /\ \A d \in Databases : disk'[d].leaprel = disk[d].leaprel
             /\ \A d \in Databases : ~Holds(handles, slot, d) => disk'[d] = disk[d]
             /\ \A s \in Slots : handles'[s] = NULL <=> handles[s] = NULL
             /\ \A s \in Slots : handles[s] # NULL => handles'[s].db = handles[s].db
             /\ DiskOK'
  <2>1. DiskFits(handles', disk', past'.opened, past.doubtful)
    BY <1>1, <1>2, ChangeFits
  <2>2. DiskOK'
    BY <2>1, DiskNext
  <2> QED BY <1>2, <2>2 DEF ChangeOf, Holds
<1>3. CASE Change(slot)
  BY <1>1, <1>2, <1>3, ChangeIs
<1>4. CASE Make(handles, slot)
  BY <1>1, <1>2, <1>4, MakeIs
<1>5. CASE UNCHANGED <<disk, handles>>
  BY <1>1, <1>5, DiskSame
<1> QED
  BY <1>3, <1>4, <1>5

\* Setting a variable leaves a table of the same length.
LEMMA SetTyped ==
    ASSUME variables \in VariablesType, Len(variables) <= VARIABLE_NUMBER,
           NEW name, NEW value \in Values
    PROVE  /\ set_variable(variables, name, value) \in VariablesType
           /\ Len(set_variable(variables, name, value)) <= VARIABLE_NUMBER
           /\ set_variable(variables, name, value) # <<>> => variables # <<>>
           /\ variables # <<>> => set_variable(variables, name, value)[1].name = variables[1].name
<1> DEFINE w == set_variable(variables, name, value)
<1>1. variables \in Seq(Entry(STRING, Values))
  BY DEF VariablesType
<1>2. /\ w \in Seq(Entry(STRING, Values))
      /\ Len(w) = Len(variables) /\ DOMAIN w = DOMAIN variables
      /\ \A i \in DOMAIN variables : w[i].name = variables[i].name
  BY <1>1, SetKeeps
<1> HIDE DEF w
<1>3. variables # <<>> => 1 \in DOMAIN variables
  BY <1>1
<1>4. w # <<>> => variables # <<>>
  BY <1>1, <1>2
<1> QED
  BY <1>2, <1>3, <1>4 DEF w, VariablesType

\* Once it is told, currentdb is the current database.
LEMMA TellTold ==
    ASSUME variables \in VariablesType, Len(variables) <= VARIABLE_NUMBER,
           current \in Values,
           variables' = set_variable(variables, "currentdb", current),
           handles'["current"].db = handles["current"].db
    PROVE  /\ variables' \in VariablesType /\ Len(variables') <= VARIABLE_NUMBER
           /\ ToldOK'
<1>1. /\ variables' \in VariablesType /\ Len(variables') <= VARIABLE_NUMBER
      /\ variables' # <<>> => variables # <<>>
      /\ variables # <<>> => variables'[1].name = variables[1].name
  BY SetTyped
<1>2. variables # <<>> /\ variables[1].name # "currentdb" =>
         resolve_variable(variables', "currentdb") \in {NULL, current}
  BY ResolvedSet DEF VariablesType
<1>3. ToldOK'
  BY <1>1, <1>2 DEF ToldOK, resolve_variable, FirstOf, current
<1> QED
  BY <1>1, <1>3

\* The name of an open database.
LEMMA CurrentTyped ==
    ASSUME SessionInv, handles["current"] # NULL
    PROVE  current \in Databases /\ current \in Values
<1>1. handles["current"] \in KnownHandle
  BY DEF SessionInv, SessionType, HandlesType, Slots
<1> QED
  BY <1>1, CommandAssumption DEF KnownHandle, Handle, current, Values

\* Again goes on with a command.
LEMMA AgainTyped ==
    ASSUME line \in Commands, Again
    PROVE  /\ line' \in Commands /\ phase' = "reading" /\ phase' \in Phases
           /\ phase' \in Told /\ phase' \notin Busy
BY NothingIsCommand DEF Again, Phases, Told, Busy, Creation

\* The startup ends when the program is ready for commands.
LEMMA StartupKeeps == ASSUME SessionInv, Startup PROVE SessionInv'
<1>1. SessionType /\ DiskOK /\ PhaseOK /\ CountOK /\ phase = "starting"
  BY DEF SessionInv, Startup
<1>2. \A s \in Slots : handles[s] # NULL
  BY <1>1 DEF PhaseOK, Before, Slots
<1>3. /\ past' = past /\ startscript' = startscript
      /\ UNCHANGED <<program, dbtoopen, scripts, recording>>
      /\ variables' = set_variable(variables, "currentdb", current)
      /\ input' = InputFrom(Master, "startup")
  BY DEF Startup, fixed
<1>4. /\ phase' \in {"reading", "accept"} /\ line' \in Commands
      /\ registry' \in [databases : SUBSET Databases, logins : BOOLEAN]
      /\ registry'.databases = registry.databases
      /\ Change("master") \/ UNCHANGED <<disk, handles>>
  <2>1. CASE program = "leap"
    BY <1>1, <2>1, AgainTyped DEF Startup, SessionType
  <2>2. CASE program # "leap"
    <3>1. registry' = [registry EXCEPT !.logins = TRUE] /\ phase' = "accept" /\ line' = line
      BY <2>2 DEF Startup
    <3>2. Change("master") \/ UNCHANGED <<disk, handles>>
      BY <2>2 DEF Startup
    <3> QED BY <1>1, <3>1, <3>2 DEF SessionType
  <2> QED BY <2>1, <2>2
<1>5. /\ handles' \in HandlesType /\ disk' \in DisksType
      /\ \A d \in Databases : disk'[d].leaprel = disk[d].leaprel
      /\ \A s \in Slots : handles'[s] = NULL <=> handles[s] = NULL
      /\ \A s \in Slots : handles[s] # NULL => handles'[s].db = handles[s].db
      /\ DiskOK'
  BY <1>1, <1>2, <1>3, <1>4, ChangeKeeps DEF Slots
<1>6. "current" \in Slots
  BY DEF Slots
<1>7. /\ variables' \in VariablesType /\ Len(variables') <= VARIABLE_NUMBER
      /\ ToldOK'
  BY <1>1, <1>2, <1>3, <1>5, <1>6, CurrentTyped, TellTold DEF SessionType
<1>8. input' \in InputType
  BY <1>1, <1>3, DatabaseAssumption, InputTyped DEF ScriptNames
<1>9. SessionType'
  BY <1>1, <1>3, <1>4, <1>5, <1>7, <1>8 DEF SessionType, Phases
<1>10. PhaseOK'
  BY <1>1, <1>2, <1>4, <1>5 DEF PhaseOK, Before, Busy, Creation, Slots
<1>11. CountOK'
  BY <1>1, <1>3, <1>4, CountSame
<1>12. KnownOK'
  <2>1. phase' \notin Busy
    BY <1>4 DEF Busy, Creation
  <2> QED BY <1>1, <1>4, <1>5, <2>1, KnownSame DEF SessionInv, SessionType
<1> QED
  BY <1>5, <1>7, <1>9, <1>10, <1>11, <1>12 DEF SessionInv

-------------------------------------------------------------------------------
\* Steps that leave handles, disk and what is known of them alone.
LEMMA QuietKeeps ==
    ASSUME SessionInv, UNCHANGED <<handles, disk, registry>>, SessionType', CountOK',
           past'.opened = past.opened, past'.doubtful = past.doubtful,
           phase \in Told, phase \notin Creation, phase' \in {"accept", "reading", "doing"},
           ToldOK'
    PROVE  SessionInv'
<1>1. DiskOK'
  BY DiskSame DEF SessionInv, Creation
<1>2. PhaseOK'
  BY DEF SessionInv, PhaseOK, Before, Told, Busy, Creation, Slots
<1>3. KnownOK'
  BY KnownSame DEF SessionInv, SessionType, Busy, Creation
<1> QED
  BY <1>1, <1>2, <1>3 DEF SessionInv

\* A command more has been typed.
LEMMA CountedKeeps ==
    ASSUME past \in History, Counted
    PROVE  /\ past' \in History
           /\ past'.opened = past.opened /\ past'.doubtful = past.doubtful
           /\ past'.ran = past.ran /\ past'.early = past.early
<1>1. past' = [past EXCEPT !.typed = @ + 1] /\ past.typed < MaxTyped
  BY DEF Counted
<1>2. past.typed + 1 \in 0 .. MaxTyped
  BY <1>1, BoundAssumption DEF History
<1>3. past' = [opened |-> past.opened, doubtful |-> past.doubtful, ran |-> past.ran,
               early |-> past.early, typed |-> past.typed + 1,
               sessions |-> past.sessions, left |-> past.left]
  BY <1>1 DEF History
<1>4. past' \in History
  BY <1>2, <1>3 DEF History
<1> QED
  BY <1>3, <1>4

\* A script has been begun, unless that has happened twice.
LEMMA RanKeeps ==
    ASSUME past \in History, NEW n \in 0 .. 2, past' = [past EXCEPT !.ran = n]
    PROVE  /\ past' \in History
           /\ past'.opened = past.opened /\ past'.doubtful = past.doubtful
           /\ past'.ran = n /\ past'.early = past.early
<1>1. past' = [opened |-> past.opened, doubtful |-> past.doubtful, ran |-> n,
               early |-> past.early, typed |-> past.typed,
               sessions |-> past.sessions, left |-> past.left]
  BY DEF History
<1>2. past' \in History
  BY <1>1 DEF History
<1> QED
  BY <1>1, <1>2

\* A command that is read is executed next, or recorded.
LEMMA ReadTypes ==
    ASSUME SessionType, NEW l \in Commands, Read(l), phase = "reading"
    PROVE  /\ scripts' \in ScriptsType /\ line' \in Commands
           /\ recording' = NULL \/ recording' \in RecordingType
           /\ phase' \in {"reading", "doing"}
<1>1. /\ scripts \in ScriptsType /\ line \in Commands
      /\ recording = NULL \/ recording \in RecordingType
  BY DEF SessionType
<1>2. CASE recording # NULL /\ program = "leap"
  <2>1. /\ recording.db \in Databases /\ recording.name \in ScriptNames
        /\ recording.lines \in Seq(Commands)
    BY <1>1, <1>2 DEF RecordingType
  <2>2. phase' = "reading" /\ line' = line
    BY <1>2 DEF Read
  <2>3. CASE l.do = "stop"
    BY <1>1, <1>2, <2>1, <2>2, <2>3, ScriptWritten DEF Read, Recorded
  <2>4. CASE l.do # "stop"
    <3>1. scripts' = scripts /\ recording' = [recording EXCEPT !.lines = Append(@, l)]
      BY <1>2, <2>4 DEF Read
    <3>2. Append(recording.lines, l) \in Seq(Commands)
      BY <2>1
    <3>3. recording' \in RecordingType
      BY <1>1, <1>2, <3>1, <3>2 DEF RecordingType
    <3> QED BY <1>1, <2>2, <3>1, <3>3
  <2> QED BY <2>3, <2>4
<1>3. CASE ~(recording # NULL /\ program = "leap")
  BY <1>1, <1>3 DEF Read
<1> QED
  BY <1>2, <1>3

\* A command is typed.
LEMMA ReadTypedKeeps == ASSUME SessionInv, NEW l \in Typed, ReadTyped(l) PROVE SessionInv'
<1>1. SessionType /\ l \in Commands /\ Read(l) /\ Counted /\ phase = "reading"
  BY CommandAssumption DEF SessionInv, ReadTyped, AtPrompt
<1>2. UNCHANGED <<program, dbtoopen, handles, disk, registry, input, startscript, variables>>
  BY DEF ReadTyped, fixed
<1>3. /\ scripts' \in ScriptsType /\ line' \in Commands
      /\ recording' = NULL \/ recording' \in RecordingType
      /\ phase' \in {"reading", "doing"}
  BY <1>1, ReadTypes
<1>4. /\ past' \in History
      /\ past'.opened = past.opened /\ past'.doubtful = past.doubtful
      /\ past'.ran = past.ran /\ past'.early = past.early
  BY <1>1, CountedKeeps DEF SessionType
<1>5. SessionType'
  BY <1>1, <1>2, <1>3, <1>4 DEF SessionType, Phases
<1>6. ToldOK' /\ CountOK'
  BY <1>1, <1>2, <1>3, <1>4, ToldSame, CountSame DEF SessionInv, Told, Creation
<1> QED
  BY <1>1, <1>2, <1>3, <1>4, <1>5, <1>6, QuietKeeps DEF Told, Creation

\* The next line of a script.
LEMMA ReadScriptKeeps == ASSUME SessionInv, ReadScript PROVE SessionInv'
<1>1. /\ SessionType /\ phase = "reading" /\ input.rest # <<>> /\ Read(Head(input.rest))
      /\ input' = [input EXCEPT !.rest = Tail(@)]
  BY DEF SessionInv, ReadScript, InScript
<1>2. UNCHANGED <<program, dbtoopen, handles, disk, registry, startscript, variables, past>>
  BY DEF ReadScript, fixed
<1>3. Head(input.rest) \in Commands /\ input' \in InputType
  <2>1. input \in InputType /\ input.rest \in Seq(Commands)
    BY <1>1 DEF SessionType, InputType
  <2>2. Head(input.rest) \in Commands /\ Tail(input.rest) \in Seq(Commands)
    BY <1>1, <2>1
  <2> QED BY <1>1, <2>1, <2>2 DEF InputType
<1>4. /\ scripts' \in ScriptsType /\ line' \in Commands
      /\ recording' = NULL \/ recording' \in RecordingType
      /\ phase' \in {"reading", "doing"}
  BY <1>1, <1>3, ReadTypes
<1>5. SessionType'
  BY <1>1, <1>2, <1>3, <1>4 DEF SessionType, Phases
<1>6. ToldOK' /\ CountOK'
  BY <1>1, <1>2, <1>4, ToldSame, CountSame DEF SessionInv, Told, Creation
<1> QED
  BY <1>1, <1>2, <1>4, <1>5, <1>6, QuietKeeps DEF Told, Creation

\* After a script of the startup, open.src is begun once more.
LEMMA NextInputKeeps == ASSUME SessionInv, NextInput PROVE SessionInv'
<1>1. SessionType /\ PhaseOK /\ CountOK /\ phase = "reading" /\ phase' = "reading"
  BY DEF SessionInv, NextInput, InScript
<1>2. UNCHANGED <<program, dbtoopen, handles, disk, scripts, registry, recording, line, variables>>
  BY DEF NextInput, fixed, store
<1>3. current \in Databases
  BY <1>1, CurrentTyped DEF PhaseOK, Before
<1>4. /\ input' \in InputType /\ startscript' \in 0 .. 1
      /\ past' \in History
      /\ past'.opened = past.opened /\ past'.doubtful = past.doubtful
      /\ CountOK'
  <2>1. past \in History /\ past.early \in BOOLEAN /\ past.ran \in 0 .. 2
    BY <1>1 DEF SessionType, History
  <2>2. CASE startscript = 0
    <3>1. past.ran = IF past.early THEN 1 ELSE 0
      BY <1>1, <2>2 DEF CountOK
    <3>2. /\ input' = InputFrom(current, "open") /\ startscript' = 1
          /\ past' = [past EXCEPT !.ran = past.ran + 1]
      BY <2>1, <2>2, <3>1 DEF NextInput
    <3>3. past.ran + 1 \in 0 .. 2
      BY <3>1
    <3>4. /\ past' \in History
          /\ past'.opened = past.opened /\ past'.doubtful = past.doubtful
          /\ past'.ran = past.ran + 1 /\ past'.early = past.early
      BY <2>1, <3>2, <3>3, RanKeeps
    <3>5. CountOK'
      BY <1>1, <3>1, <3>2, <3>4 DEF CountOK
    <3>6. input' \in InputType
      BY <1>1, <1>3, <3>2, InputTyped DEF ScriptNames
    <3> QED BY <3>2, <3>4, <3>5, <3>6
  <2>3. CASE startscript # 0
    <3>1. /\ input' = [from |-> "stdin", rest |-> <<>>]
          /\ UNCHANGED <<startscript, past>>
      BY <2>3 DEF NextInput
    <3> QED BY <1>1, <2>1, <3>1, NoInputTyped, CountSame DEF SessionType
  <2> QED BY <2>2, <2>3
<1>5. SessionType'
  BY <1>1, <1>2, <1>4 DEF SessionType
<1>6. ToldOK'
  BY <1>1, <1>2, ToldSame DEF SessionInv, Told, Creation
<1> QED
  BY <1>1, <1>2, <1>4, <1>5, <1>6, QuietKeeps DEF Told, Creation

\* The client of leapd: it is let in, sends, hangs up, and what it sent last is done
\* again.
LEMMA DaemonKeeps ==
    ASSUME SessionInv, Accept \/ HangUp \/ ReadNothing
    PROVE  SessionInv'
<1>1. SessionType /\ phase \in {"accept", "reading"} /\ phase' \in {"reading", "doing"}
  BY DEF SessionInv, Accept, HangUp, ReadNothing
<1>2. UNCHANGED <<program, dbtoopen, handles, disk, scripts, registry, startscript,
                  recording, variables, past>>
  BY DEF Accept, HangUp, ReadNothing, fixed, store, reading
<1>3. input' \in InputType
  <2>1. \/ input' = [input EXCEPT !.from = "client"]
        \/ input' = [input EXCEPT !.from = "gone"]
        \/ input' = input
    BY DEF Accept, HangUp, ReadNothing, reading
  <2>2. input \in InputType
    BY <1>1 DEF SessionType
  <2> QED BY <2>1, <2>2 DEF InputType
<1>4. line' \in Commands
  BY <1>1, NothingIsCommand DEF Accept, HangUp, ReadNothing, SessionType
<1>5. SessionType'
  BY <1>1, <1>2, <1>3, <1>4 DEF SessionType, Phases
<1>6. ToldOK' /\ CountOK'
  BY <1>1, <1>2, ToldSame, CountSame DEF SessionInv, Told, Creation
<1> QED
  BY <1>1, <1>2, <1>5, <1>6, QuietKeeps DEF Told, Creation

\* What the client sends is done, recorded or not.
LEMMA ReadClientKeeps == ASSUME SessionInv, NEW l \in Typed, ReadClient(l) PROVE SessionInv'
<1>1. SessionType /\ l \in Commands /\ Counted /\ phase = "reading" /\ phase' = "doing" /\ line' = l
  BY CommandAssumption DEF SessionInv, ReadClient
<1>2. UNCHANGED <<program, dbtoopen, handles, disk, scripts, registry, input, startscript,
                  recording, variables>>
  BY DEF ReadClient, fixed, store, reading
<1>3. /\ past' \in History
      /\ past'.opened = past.opened /\ past'.doubtful = past.doubtful
      /\ past'.ran = past.ran /\ past'.early = past.early
  BY <1>1, CountedKeeps DEF SessionType
<1>4. SessionType'
  BY <1>1, <1>2, <1>3 DEF SessionType, Phases
<1>5. ToldOK' /\ CountOK'
  BY <1>1, <1>2, <1>3, ToldSame, CountSame DEF SessionInv, Told, Creation
<1> QED
  BY <1>1, <1>2, <1>3, <1>4, <1>5, QuietKeeps DEF Told, Creation

-------------------------------------------------------------------------------
\* The commands.

\* Commands that change neither a database nor a variable.
LEMMA DoPlainKeeps ==
    ASSUME SessionInv, DoNothing \/ DoSource \/ UseCurrent
    PROVE  SessionInv'
<1>1. SessionType /\ PhaseOK /\ phase = "doing" /\ Again
  BY DEF SessionInv, DoNothing, DoSource, UseCurrent, Doing
<1>2. UNCHANGED <<program, dbtoopen, handles, disk, scripts, registry, startscript,
                  recording, variables, past>>
  BY DEF DoNothing, DoSource, UseCurrent, fixed, store, reading
<1>3. current \in Databases
  BY <1>1, CurrentTyped DEF PhaseOK, Before
<1>4. input' \in InputType
  <2>1. CASE DoSource
    <3>1. line.of \in ScriptNames
      BY <1>1, <2>1, CommandKinds DEF DoSource, Doing, SessionType
    <3> QED BY <1>1, <1>3, <2>1, <3>1, InputTyped DEF DoSource
  <2>2. CASE ~DoSource
    BY <1>1, <2>2 DEF DoNothing, UseCurrent, reading, SessionType
  <2> QED BY <2>1, <2>2
<1>5. line' \in Commands /\ phase' = "reading"
  BY <1>1, AgainTyped DEF SessionType
<1>6. SessionType'
  BY <1>1, <1>2, <1>4, <1>5 DEF SessionType, Phases
<1>7. ToldOK' /\ CountOK'
  BY <1>1, <1>2, <1>5, ToldSame, CountSame DEF SessionInv, Told, Creation
<1> QED
  BY <1>1, <1>2, <1>5, <1>6, <1>7, QuietKeeps DEF Told, Creation

\* set: what it sets is not currentdb.
LEMMA DoSetKeeps == ASSUME SessionInv, DoSet PROVE SessionInv'
<1>1. SessionType /\ ToldOK /\ phase = "doing" /\ Again
  BY DEF SessionInv, DoSet, Doing
<1>2. UNCHANGED <<program, dbtoopen, handles, disk, scripts, registry, input, startscript,
                  recording, past>>
  BY DEF DoSet, fixed, store, reading
<1>3. /\ variables \in VariablesType /\ Len(variables) <= VARIABLE_NUMBER
      /\ variables' = set_variable(variables, line.of, "set")
  BY <1>1 DEF SessionType, DoSet
<1>4. line.of # "currentdb"
  BY <1>1, CommandKinds, CommandAssumption DEF DoSet, Doing, SessionType
<1>12. "set" \in Values
  BY DEF Values
<1>5. /\ variables' \in VariablesType /\ Len(variables') <= VARIABLE_NUMBER
      /\ variables' # <<>> => variables # <<>>
      /\ variables # <<>> => variables'[1].name = variables[1].name
  BY <1>3, <1>12, SetTyped
<1>6. resolve_variable(variables', "currentdb") = resolve_variable(variables, "currentdb")
  <2>1. variables \in Seq(Entry(STRING, Values))
    BY <1>3 DEF VariablesType
  <2> QED BY <1>3, <1>4, <1>12, <2>1, ResolvedOther
<1>7. ToldOK'
  BY <1>1, <1>2, <1>5, <1>6 DEF ToldOK, Told, Creation, resolve_variable, FirstOf, current
<1>8. line' \in Commands /\ phase' = "reading"
  BY <1>1, AgainTyped DEF SessionType
<1>9. SessionType'
  BY <1>1, <1>2, <1>5, <1>8 DEF SessionType, Phases
<1>10. CountOK'
  BY <1>1, <1>2, <1>8, CountSame DEF SessionInv
<1> QED
  BY <1>1, <1>2, <1>7, <1>8, <1>9, <1>10, QuietKeeps DEF Told, Creation

\* A command that changes a relation of an open database, or makes one, if that, and
\* goes on.
LEMMA ChangerKeeps ==
    ASSUME SessionInv, NEW slot \in Slots,
           Change(slot) \/ Make(handles, slot) \/ UNCHANGED <<disk, handles>>,
           UNCHANGED <<program, dbtoopen, input, startscript, variables, past>>,
           registry' \in [databases : SUBSET Databases, logins : BOOLEAN],
           \/ registry'.databases = registry.databases
           \/ phase = "create row" /\ registry'.databases = registry.databases \cup {line.of},
           scripts' \in ScriptsType, recording' = NULL \/ recording' \in RecordingType,
           line' \in Commands,
           \/ phase \in {"doing", "create check"} /\ phase' = "reading"
           \/ /\ phase = "doing" /\ phase' = "use close" /\ line' = line
              /\ line.of \in registry.databases
           \/ /\ phase = "create row" /\ phase' = "create fill" /\ line' = line
              /\ slot = "master" /\ line.of # Master
    PROVE  SessionInv'
<1>1. SessionType /\ PhaseOK /\ KnownOK
  BY DEF SessionInv
<1>2. \A s \in Slots : handles[s] # NULL
  BY <1>1 DEF PhaseOK, Before, Slots
<1>3. "current" \in Slots /\ "master" \in Slots
  BY DEF Slots
<1>4. past'.opened = past.opened /\ past'.doubtful = past.doubtful
  OBVIOUS
<1>5. /\ handles' \in HandlesType /\ disk' \in DisksType
      /\ \A d \in Databases : disk'[d].leaprel = disk[d].leaprel
      /\ \A d \in Databases : ~Holds(handles, slot, d) => disk'[d] = disk[d]
      /\ \A s \in Slots : handles'[s] = NULL <=> handles[s] = NULL
      /\ \A s \in Slots : handles[s] # NULL => handles'[s].db = handles[s].db
      /\ DiskOK'
  BY <1>2, <1>4, ChangeKeeps
<1>6. SessionType'
  BY <1>1, <1>5 DEF SessionType, Phases
<1>7. registry.databases \subseteq Databases
  BY <1>1 DEF SessionType
<1>8. PhaseOK'
  BY <1>1, <1>2, <1>5, <1>7 DEF PhaseOK, Before, Busy, Creation, Slots
<1>9. ToldOK'
  <2>1. CASE phase' = "use close"
    BY <2>1 DEF ToldOK, Told, Creation
  <2>2. CASE phase' # "use close"
    BY <1>2, <1>3, <1>5, <2>2, ToldSame DEF SessionInv, Told, Creation
  <2> QED BY <2>1, <2>2
<1>10. CountOK'
  BY CountSame DEF SessionInv
<1>11. KnownOK'
  <2>1. CASE phase' = "reading"
    BY <1>1, <1>5, <1>7, <2>1, KnownSame DEF Busy, Creation
  <2>2. CASE phase' = "use close"
    BY <1>1, <1>5, <1>7, <2>2 DEF KnownOK, Busy, Creation
  <2>3. CASE phase' = "create fill"
    <3>1. line.of \in Databases /\ disk[line.of].leaprel # "none" /\ phase \in Creation
      BY <1>1, <2>3 DEF PhaseOK, KnownOK, Busy, Creation
    <3>2. ~Holds(handles, slot, line.of)
      BY <1>1, <1>2, <1>3, <2>3 DEF PhaseOK, Holds
    <3>3. disk'[line.of] = disk[line.of]
      BY <1>5, <3>1, <3>2
    <3>4. \A s \in Slots : Holds(handles', s, line.of) <=> Holds(handles, s, line.of)
      BY <1>5 DEF Holds
    <3>5. \A d \in registry'.databases : disk'[d].leaprel # "none"
      BY <1>1, <1>5, <1>7, <3>1 DEF KnownOK
    <3>6. line.of \notin past.doubtful =>
             ~disk'[line.of].temps /\ \A s \in Slots : ~Holds(handles', s, line.of)
      BY <1>1, <3>1, <3>3, <3>4 DEF KnownOK
    <3>7. line'.of = line.of /\ past'.doubtful = past.doubtful
      BY <2>3
    <3>8. /\ disk'[line'.of].leaprel # "none"
          /\ line'.of \notin past'.doubtful =>
                ~disk'[line'.of].temps /\ \A s \in Slots : ~Holds(handles', s, line'.of)
      BY <1>5, <3>1, <3>6, <3>7
    <3> QED BY <3>5, <3>8 DEF KnownOK, Holds
  <2> QED BY <2>1, <2>2, <2>3
<1> QED
  BY <1>5, <1>6, <1>8, <1>9, <1>10, <1>11 DEF SessionInv

\* record: a row of leapscripts, and an empty file.
LEMMA DoRecordKeeps == ASSUME SessionInv, DoRecord PROVE SessionInv'
<1>1. SessionType /\ PhaseOK /\ phase = "doing" /\ Again
  BY DEF SessionInv, DoRecord, Doing
<1>2. UNCHANGED <<program, dbtoopen, registry, input, startscript, variables, past>>
  BY DEF DoRecord, fixed
<1>3. current \in Databases
  BY <1>1, CurrentTyped DEF PhaseOK, Before
<1>4. line.of \in ScriptNames
  BY <1>1, CommandKinds DEF DoRecord, Doing, SessionType, ScriptNames
<1>5. /\ scripts' \in ScriptsType
      /\ recording' = NULL \/ recording' \in RecordingType
      /\ Change("current") \/ UNCHANGED <<disk, handles>>
  <2>1. scripts \in ScriptsType /\ <<>> \in Seq(Commands)
    BY <1>1 DEF SessionType
  <2>2. CASE recording = NULL
    <3>1. /\ recording' = [db |-> current, name |-> line.of, lines |-> <<>>]
          /\ scripts' = [scripts EXCEPT ![current][line.of] = <<>>]
          /\ Change("current") \/ UNCHANGED <<disk, handles>>
      BY <2>2 DEF DoRecord
    <3>2. recording' \in RecordingType
      BY <1>3, <1>4, <2>1, <3>1 DEF RecordingType
    <3>3. scripts' \in ScriptsType
      BY <1>3, <1>4, <2>1, <3>1, ScriptWritten
    <3> QED BY <3>1, <3>2, <3>3
  <2>3. CASE recording # NULL
    BY <2>1, <2>3 DEF DoRecord
  <2> QED BY <2>2, <2>3
<1>6. line' \in Commands /\ phase' = "reading"
  BY <1>1, AgainTyped DEF SessionType
<1>7. registry' \in [databases : SUBSET Databases, logins : BOOLEAN] /\ "current" \in Slots
  BY <1>1, <1>2 DEF SessionType, Slots
<1> QED
  BY <1>1, <1>2, <1>5, <1>6, <1>7, ChangerKeeps

\* A command that changes a relation of the current database.
LEMMA DoChangeKeeps == ASSUME SessionInv, DoChange PROVE SessionInv'
<1>1. SessionType /\ phase = "doing" /\ Again /\ Change("current")
  BY DEF SessionInv, DoChange, Doing
<1>2. UNCHANGED <<program, dbtoopen, scripts, registry, input, startscript, recording,
                  variables, past>>
  BY DEF DoChange, fixed, reading
<1>3. line' \in Commands /\ phase' = "reading" /\ "current" \in Slots
  BY <1>1, AgainTyped DEF SessionType, Slots
<1> QED
  BY <1>1, <1>2, <1>3, ChangerKeeps DEF SessionType

\* A command that makes a temporary relation, in the current database or in tempdb.
LEMMA DoMakeKeeps == ASSUME SessionInv, DoMake PROVE SessionInv'
<1>1. /\ SessionType /\ phase = "doing" /\ Again
      /\ \E slot \in {"current", Home(handles, "current")} : Make(handles, slot)
  BY DEF SessionInv, DoMake, Doing
<1>2. UNCHANGED <<program, dbtoopen, scripts, registry, input, startscript, recording,
                  variables, past>>
  BY DEF DoMake, fixed, reading
<1>3. \E slot \in Slots : Make(handles, slot)
  BY <1>1 DEF Home, Slots
<1>4. line' \in Commands /\ phase' = "reading"
  BY <1>1, AgainTyped DEF SessionType
<1> QED
  BY <1>1, <1>2, <1>3, <1>4, ChangerKeeps DEF SessionType

\* use: the query of leapdata.
LEMMA UseAskKeeps == ASSUME SessionInv, UseAsk PROVE SessionInv'
<1>1. SessionType /\ phase = "doing" /\ Make(handles, Home(handles, "master"))
  BY DEF SessionInv, UseAsk, Doing
<1>2. UNCHANGED <<program, dbtoopen, scripts, registry, input, startscript, recording,
                  variables, past>>
  BY DEF UseAsk, fixed, reading
<1>3. Home(handles, "master") \in Slots
  BY DEF Home, Slots
<1>4. CASE line.of \in registry.databases
  <2>1. phase' = "use close" /\ line' = line
    BY <1>4 DEF UseAsk
  <2> QED BY <1>1, <1>2, <1>3, <1>4, <2>1, ChangerKeeps DEF SessionType
<1>5. CASE line.of \notin registry.databases
  <2>1. line' \in Commands /\ phase' = "reading"
    BY <1>1, <1>5, AgainTyped DEF UseAsk, SessionType
  <2> QED BY <1>1, <1>2, <1>3, <2>1, ChangerKeeps DEF SessionType
<1> QED
  BY <1>4, <1>5

\* create: the row of leapdata.
LEMMA CreateRowKeeps == ASSUME SessionInv, CreateRow PROVE SessionInv'
<1>1. /\ SessionType /\ PhaseOK /\ phase = "create row" /\ phase' = "create fill"
      /\ Change("master") /\ "master" \in Slots
  BY DEF SessionInv, CreateRow, Slots
<1>2. UNCHANGED <<program, dbtoopen, scripts, input, startscript, recording, line,
                  variables, past>>
  BY DEF CreateRow, fixed, reading
<1>3. line.of \in Databases /\ line.of # Master
  BY <1>1 DEF PhaseOK, Busy, Creation
<1>4. /\ registry' \in [databases : SUBSET Databases, logins : BOOLEAN]
      /\ registry'.databases = registry.databases \cup {line.of}
  <2>1. registry' = [registry EXCEPT !.databases = registry.databases \cup {line.of}]
    BY DEF CreateRow
  <2>2. registry.databases \cup {line.of} \in SUBSET Databases
    BY <1>1, <1>3 DEF SessionType
  <2> QED BY <1>1, <2>1, <2>2 DEF SessionType
<1> QED
  BY <1>1, <1>2, <1>3, <1>4, ChangerKeeps DEF SessionType

\* One database has changed on disk, and the handles of it with it.
LEMMA PutFits ==
    ASSUME NEW hs, NEW gs, NEW dk \in DisksType, NEW opened, NEW doubtful, NEW unsure,
           NEW d0 \in Databases, NEW r \in Database, r.leaprel # "none",
           DiskFits(hs, dk, opened, doubtful), doubtful \subseteq unsure \cup {d0},
           \A s \in Slots, d \in Databases : Holds(gs, s, d) <=> Holds(hs, s, d),
           \A s \in Slots : ~Holds(hs, s, d0) => gs[s] = hs[s],
           d0 \notin unsure =>
              /\ \A s \in Slots : ~Holds(hs, s, d0)
              /\ r.index = "covers" /\ ~r.temps
    PROVE  /\ [dk EXCEPT ![d0] = r] \in DisksType
           /\ DiskFits(gs, [dk EXCEPT ![d0] = r], opened, unsure)
<1> DEFINE k == [dk EXCEPT ![d0] = r]
<1>1. k \in DisksType /\ k[d0] = r /\ \A d \in Databases : d # d0 => k[d] = dk[d]
  BY DEF DisksType
<1> HIDE DEF k
<1>2. \A s \in Slots, d \in Databases : d # d0 /\ Holds(hs, s, d) => gs[s] = hs[s]
  BY DEF Holds
<1>3. DiskFits(gs, k, opened, unsure)
  <2> SUFFICES ASSUME NEW d \in Databases
               PROVE  /\ \A t \in Slots : Holds(gs, t, d) =>
                            d \in opened /\ k[d].leaprel # "none"
                      /\ d \notin unsure =>
                            /\ \A t, u \in Slots : Holds(gs, t, d) /\ Holds(gs, u, d) => t = u
                            /\ \A t \in Slots : Holds(gs, t, d) => HandleFits(gs[t], k[d])
                            /\ (\A t \in Slots : ~Holds(gs, t, d)) =>
                                  k[d].index = "covers" /\ (d \in opened => ~k[d].temps)
    BY DEF DiskFits
  <2>1. \A t \in Slots : Holds(gs, t, d) => d \in opened /\ k[d].leaprel # "none"
    BY <1>1 DEF DiskFits
  <2>2. CASE d = d0
    BY <1>1, <2>1, <2>2
  <2>3. CASE d # d0
    BY <1>1, <1>2, <2>1, <2>3 DEF DiskFits
  <2> QED BY <2>2, <2>3
<1> QED
  BY <1>1, <1>3 DEF k

\* create: the files.
LEMMA CreateFilesKeeps == ASSUME SessionInv, CreateFiles PROVE SessionInv'
<1> DEFINE d0 == line.of
           r == [leaprel |-> "empty", index |-> "covers", temps |-> FALSE]
           unsure == IF disk[d0].leaprel = "none" THEN past.doubtful
                     ELSE past.doubtful \cup {d0}
<1>1. /\ SessionType /\ DiskOK /\ PhaseOK /\ phase = "doing" /\ phase' = "create row"
      /\ d0 \in Databases /\ d0 # Master /\ disk \in DisksType /\ past \in History /\ KnownOK
  BY CommandKinds DEF SessionInv, SessionType, CreateFiles, Doing
<1>2. UNCHANGED <<program, dbtoopen, handles, registry, input, startscript, recording,
                  line, variables>>
  BY DEF CreateFiles, fixed, reading
<1>3. scripts' \in ScriptsType
  <2>1. <<>> \in Seq(Commands) /\ "open" \in ScriptNames
    BY DEF ScriptNames
  <2> QED BY <1>1, <2>1, ScriptWritten DEF CreateFiles, SessionType
<1>4. r \in Database /\ r.index = "covers" /\ ~r.temps /\ r.leaprel # "none"
  BY DEF Database, Fit
<1>5. disk' = [disk EXCEPT ![d0] = r] /\ past' = [past EXCEPT !.doubtful = unsure]
  BY DEF CreateFiles
<1> HIDE DEF d0, r
<1>6. /\ past' \in History
      /\ past'.opened = past.opened /\ past'.doubtful = unsure
      /\ past'.ran = past.ran /\ past'.early = past.early
  <2>1. unsure \in SUBSET Databases
    BY <1>1 DEF History
  <2> HIDE DEF unsure
  <2>2. past' = [opened |-> past.opened, doubtful |-> unsure, ran |-> past.ran,
                 early |-> past.early, typed |-> past.typed,
                 sessions |-> past.sessions, left |-> past.left]
    BY <1>1, <1>5 DEF History
  <2>3. past' \in History
    BY <1>1, <2>1, <2>2 DEF History
  <2> QED BY <2>2, <2>3
<1>7. DiskFits(handles, disk, past.opened, past.doubtful)
  BY <1>1, DiskNow
<1>8. d0 \notin unsure => \A s \in Slots : ~Holds(handles, s, d0)
  BY <1>1, <1>7 DEF DiskFits
<1>9. disk' \in DisksType /\ DiskOK'
  <2>1. past.doubtful \subseteq unsure \cup {d0}
    OBVIOUS
  <2>2. disk' \in DisksType /\ DiskFits(handles, disk', past.opened, unsure)
    <3> HIDE DEF unsure
    <3> QED BY <1>1, <1>4, <1>5, <1>7, <1>8, <2>1, PutFits
  <2> HIDE DEF unsure
  <2>3. DiskFits(handles', disk', past'.opened, unsure)
    BY <1>2, <1>6, <2>2
  <2> QED BY <1>6, <2>2, <2>3, DiskNext
<1>10. SessionType'
  BY <1>1, <1>2, <1>3, <1>6, <1>9 DEF SessionType, Phases
<1>11. PhaseOK'
  <2>1. past.doubtful \subseteq past'.doubtful
    BY <1>6
  <2> QED BY <1>1, <1>2, <2>1 DEF PhaseOK, Before, Busy, Creation, Slots, d0
<1>12. ToldOK' /\ CountOK'
  BY <1>1, <1>2, <1>6, ToldSame, CountSame DEF SessionInv, Told, Creation
<1>13. KnownOK'
  <2>1. disk'[d0] = r /\ \A d \in Databases : d # d0 => disk'[d] = disk[d]
    BY <1>1, <1>5 DEF DisksType
  <2>2. \A d \in registry'.databases : disk'[d].leaprel # "none"
    BY <1>1, <1>2, <1>4, <2>1 DEF KnownOK, SessionType
  <2>3. line'.of = d0 /\ past'.doubtful = unsure
    BY <1>2, <1>6 DEF d0
  <2>4. /\ disk'[line'.of].leaprel # "none"
        /\ line'.of \notin past'.doubtful =>
              ~disk'[line'.of].temps /\ \A s \in Slots : ~Holds(handles', s, line'.of)
    BY <1>2, <1>4, <1>8, <2>1, <2>3 DEF Holds
  <2> QED BY <2>2, <2>4 DEF KnownOK, Holds
<1> QED
  BY <1>9, <1>10, <1>11, <1>12, <1>13 DEF SessionInv

\* Another index and a complete leaprel are such, too.
LEMMA FilledFields ==
    ASSUME NEW r \in Database, NEW y \in Fit
    PROVE  LET q == [r EXCEPT !.leaprel = "good", !.index = y]
           IN  q \in Database /\ q.leaprel = "good" /\ q.index = y /\ q.temps = r.temps
BY DEF Database

\* create: the relations.
LEMMA CreateFillKeeps == ASSUME SessionInv, CreateFill PROVE SessionInv'
<1> DEFINE d0 == line.of
           r == [disk[d0] EXCEPT !.leaprel = "good", !.index = "lacks"]
           unsure == past.doubtful \cup {d0}
<1>1. /\ SessionType /\ DiskOK /\ PhaseOK /\ KnownOK
      /\ phase = "create fill" /\ phase' = "create close"
      /\ d0 \in Databases /\ d0 # Master /\ disk \in DisksType /\ handles \in HandlesType
  BY DEF SessionInv, SessionType, CreateFill, PhaseOK, Busy, Creation
<1>2. UNCHANGED <<program, dbtoopen, scripts, registry, input, startscript,
                  recording, line, variables, past>>
  BY DEF CreateFill, fixed, reading
<1>3. disk[d0] \in Database /\ "lacks" \in Fit
  BY <1>1 DEF DisksType, Fit
<1>4. r \in Database /\ r.leaprel = "good" /\ r.temps = disk[d0].temps
  <2> HIDE DEF d0
  <2> QED BY <1>3, FilledFields
<1>5. disk' = [disk EXCEPT ![d0] = r]
  BY <1>1, <1>3 DEF CreateFill, DisksType, Database
<1>6. /\ handles' \in HandlesType
      /\ \A s \in Slots : /\ handles'[s] = NULL <=> handles[s] = NULL
                          /\ handles[s] # NULL => handles'[s].db = handles[s].db
                          /\ ~Holds(handles, s, d0) => handles'[s] = handles[s]
  <2>1. handles' = [s \in Slots |-> IF handles[s] # NULL /\ handles[s].db = d0
                                       /\ handles[s].table # NoTable
                                    THEN Tabled(handles[s], "lacks") ELSE handles[s]]
    BY DEF CreateFill, Missing, Tabled
  <2>2. \A s \in Slots : handles[s] \in KnownHandle \cup {NULL}
    BY <1>1 DEF HandlesType
  <2>3. \A s \in Slots : handles[s] # NULL => /\ Tabled(handles[s], "lacks") \in KnownHandle
                                              /\ Tabled(handles[s], "lacks") # NULL
                                              /\ Tabled(handles[s], "lacks").db = handles[s].db
    BY <1>3, <2>2, HandleFields
  <2> HIDE DEF d0
  <2>4. handles' \in HandlesType
    BY <2>1, <2>2, <2>3 DEF HandlesType
  <2> QED BY <2>1, <2>3, <2>4 DEF Holds
<1> HIDE DEF d0, r
<1>7. \A s \in Slots, d \in Databases : Holds(handles', s, d) <=> Holds(handles, s, d)
  BY <1>6 DEF Holds
<1>8. disk' \in DisksType /\ DiskOK'
  <2>1. DiskFits(handles, disk, past.opened, past.doubtful)
    BY <1>1, DiskNow
  <2>2. d0 \in unsure /\ past.doubtful \subseteq unsure \cup {d0}
    OBVIOUS
  <2>3. unsure \subseteq (past.doubtful \cup Creating)'
    BY <1>1, <1>2 DEF Creating, d0
  <2> HIDE DEF unsure
  <2>4. disk' \in DisksType /\ DiskFits(handles', disk', past.opened, unsure)
    BY <1>1, <1>4, <1>5, <1>6, <1>7, <2>1, <2>2, PutFits
  <2>5. DiskFits(handles', disk', past'.opened, unsure)
    BY <1>2, <2>4
  <2> QED BY <2>3, <2>4, <2>5, DiskNext
<1>9. SessionType'
  BY <1>1, <1>2, <1>6, <1>8 DEF SessionType, Phases
<1>10. PhaseOK'
  BY <1>1, <1>2, <1>6 DEF PhaseOK, Before, Busy, Creation, Slots
<1>11. ToldOK' /\ CountOK'
  <2>1. handles["current"] # NULL /\ "current" \in Slots
    BY <1>1 DEF PhaseOK, Before, Slots
  <2> QED BY <1>1, <1>2, <1>6, <2>1, ToldSame, CountSame DEF SessionInv, Told, Creation
<1>12. KnownOK'
  <2>1. disk'[d0] = r /\ \A d \in Databases : d # d0 => disk'[d] = disk[d]
    BY <1>1, <1>5 DEF DisksType
  <2>2. \A d \in registry'.databases : disk'[d].leaprel # "none"
    BY <1>1, <1>2, <1>4, <2>1 DEF KnownOK, SessionType
  <2>3. line'.of = d0 /\ past'.doubtful = past.doubtful
    BY <1>2 DEF d0
  <2>4. d0 \notin past.doubtful => ~disk[d0].temps /\ \A s \in Slots : ~Holds(handles, s, d0)
    BY <1>1 DEF KnownOK, Creation, d0
  <2>5. /\ disk'[line'.of].leaprel # "none"
        /\ line'.of \notin past'.doubtful =>
              ~disk'[line'.of].temps /\ \A s \in Slots : ~Holds(handles', s, line'.of)
    BY <1>1, <1>4, <1>7, <2>1, <2>3, <2>4
  <2> QED BY <2>2, <2>5 DEF KnownOK, Holds
<1> QED
  BY <1>8, <1>9, <1>10, <1>11, <1>12 DEF SessionInv

\* create: the database is closed.
LEMMA CreateCloseKeeps == ASSUME SessionInv, CreateClose PROVE SessionInv'
<1> DEFINE d0 == line.of
           r == Indexed(disk[d0], "covers")
<1>1. /\ SessionType /\ DiskOK /\ PhaseOK /\ KnownOK
      /\ phase = "create close" /\ phase' = "create check"
      /\ d0 \in Databases /\ disk \in DisksType
  BY DEF SessionInv, SessionType, CreateClose, PhaseOK, Busy, Creation
<1>2. UNCHANGED <<program, dbtoopen, handles, scripts, registry, input, startscript,
                  recording, line, variables, past>>
  BY DEF CreateClose, fixed, reading
<1>3. disk[d0] \in Database /\ "covers" \in Fit
  BY <1>1 DEF DisksType, Fit
<1>4. /\ r \in Database /\ r.index = "covers" /\ r.leaprel = disk[d0].leaprel
      /\ r.temps = disk[d0].temps
  <2> HIDE DEF d0
  <2> QED BY <1>3, IndexedFields
<1>5. disk' = [disk EXCEPT ![d0] = r]
  BY <1>1, <1>3 DEF CreateClose, DisksType, Indexed
<1>6. /\ disk[d0].leaprel # "none"
      /\ d0 \notin past.doubtful => ~disk[d0].temps /\ \A s \in Slots : ~Holds(handles, s, d0)
  BY <1>1 DEF KnownOK, Busy, Creation
<1>7. DiskFits(handles, disk, past.opened, past.doubtful \cup {d0})
  BY <1>1 DEF DiskOK, Creating
<1> HIDE DEF d0, r
<1>8. disk' \in DisksType /\ DiskOK'
  <2>1. past.doubtful \cup {d0} \subseteq past.doubtful \cup {d0}
    OBVIOUS
  <2>2. disk' \in DisksType /\ DiskFits(handles, disk', past.opened, past.doubtful)
    BY <1>1, <1>4, <1>5, <1>6, <1>7, <2>1, PutFits
  <2>3. DiskFits(handles', disk', past'.opened, past.doubtful)
    BY <1>2, <2>2
  <2>4. past.doubtful \subseteq (past.doubtful \cup Creating)'
    BY <1>2
  <2> QED BY <2>2, <2>3, <2>4, DiskNext
<1>9. SessionType'
  BY <1>1, <1>2, <1>8 DEF SessionType, Phases
<1>10. PhaseOK'
  BY <1>1, <1>2 DEF PhaseOK, Before, Busy, Creation, Slots
<1>11. ToldOK' /\ CountOK'
  BY <1>1, <1>2, ToldSame, CountSame DEF SessionInv, Told, Creation
<1>12. KnownOK'
  <2>1. disk'[d0] = r /\ \A d \in Databases : d # d0 => disk'[d] = disk[d]
    BY <1>1, <1>5 DEF DisksType
  <2>2. \A d \in Databases : disk[d].leaprel # "none" => disk'[d].leaprel # "none"
    BY <1>4, <2>1
  <2> QED BY <1>1, <1>2, <2>2, KnownSame DEF SessionType, Busy, Creation
<1> QED
  BY <1>8, <1>9, <1>10, <1>11, <1>12 DEF SessionInv

\* create: the database is opened and closed again.
LEMMA CreateCheckKeeps == ASSUME SessionInv, CreateCheck PROVE SessionInv'
<1>1. /\ SessionType /\ phase = "create check" /\ Again /\ "tempdb" \in Slots
      /\ Make(handles, "tempdb") \/ UNCHANGED <<disk, handles>>
  BY DEF SessionInv, CreateCheck, Slots
<1>2. UNCHANGED <<program, dbtoopen, scripts, registry, input, startscript, recording,
                  variables, past>>
  BY DEF CreateCheck, fixed, reading
<1>3. line' \in Commands /\ phase' = "reading"
  BY <1>1, AgainTyped DEF SessionType
<1> QED
  BY <1>1, <1>2, <1>3, ChangerKeeps DEF SessionType

-------------------------------------------------------------------------------
\* use, and the end.

\* A database is closed.
LEMMA CloseKeeps ==
    ASSUME SessionInv, NEW slot \in Slots, disk' = Disposed(disk, handles[slot]),
           phase # "create close",
           handles' = [handles EXCEPT ![slot] = NULL], past' = past
    PROVE  /\ handles' \in HandlesType /\ disk' \in DisksType /\ DiskOK'
           /\ \A d \in Databases : disk'[d].leaprel = disk[d].leaprel
           /\ handles'[slot] = NULL /\ \A s \in Slots : s # slot => handles'[s] = handles[s]
<1>1. /\ handles \in HandlesType /\ disk \in DisksType
      /\ DiskFits(handles, disk, past.opened, past.doubtful)
  BY DiskNow DEF SessionInv, SessionType
<1>2. /\ handles' \in HandlesType /\ disk' \in DisksType
      /\ \A d \in Databases : disk'[d].leaprel = disk[d].leaprel
      /\ DiskFits(handles', disk', past'.opened, past.doubtful)
  BY <1>1, DisposeFits
<1>3. DiskOK'
  BY <1>2, DiskNext
<1> QED
  BY <1>1, <1>2, <1>3 DEF HandlesType

\* use: the old database is closed.
LEMMA UseDisposeKeeps == ASSUME SessionInv, UseDispose PROVE SessionInv'
<1>1. /\ SessionType /\ PhaseOK /\ KnownOK /\ CloseCurrent("use open")
      /\ phase = "use close" /\ line.of \in Databases
  BY DEF SessionInv, UseDispose, PhaseOK, Busy
<1>2. /\ disk' = Disposed(disk, handles["current"]) /\ phase' = "use open"
      /\ handles' = [handles EXCEPT !["current"] = NULL]
      /\ UNCHANGED <<program, dbtoopen, scripts, registry, input, startscript, recording,
                     line, variables, past>>
  BY <1>1 DEF CloseCurrent, fixed, reading
<1>3. /\ handles' \in HandlesType /\ disk' \in DisksType /\ DiskOK'
      /\ \A d \in Databases : disk'[d].leaprel = disk[d].leaprel
      /\ handles'["current"] = NULL
      /\ \A s \in Slots : s # "current" => handles'[s] = handles[s]
  BY <1>1, <1>2, CloseKeeps DEF Slots
<1>4. SessionType'
  BY <1>1, <1>2, <1>3 DEF SessionType, Phases
<1>5. PhaseOK'
  BY <1>1, <1>2, <1>3 DEF PhaseOK, Before, Busy, Creation, Slots
<1>6. ToldOK' /\ CountOK'
  BY <1>1, <1>2, CountSame DEF SessionInv, ToldOK, Told, Creation
<1>7. KnownOK'
  BY <1>1, <1>2, <1>3 DEF SessionType, KnownOK, Busy, Creation
<1> QED
  BY <1>3, <1>4, <1>5, <1>6, <1>7 DEF SessionInv

\* use: the new one is opened.
LEMMA UseOpenKeeps == ASSUME SessionInv, UseOpen PROVE SessionInv'
<1> DEFINE d == line.of
<1>1. /\ SessionType /\ DiskOK /\ PhaseOK /\ KnownOK
      /\ phase = "use open" /\ phase' = "use tell"
      /\ handles \in HandlesType /\ disk \in DisksType /\ past \in History
      /\ d \in Databases /\ handles["current"] = NULL /\ "current" \in Slots
      /\ disk[d].leaprel # "none"
  BY DEF SessionInv, SessionType, UseOpen, PhaseOK, KnownOK, Busy, Slots
<1>2. /\ Open("current", d)
      /\ past' = [Noted(d) EXCEPT !.ran = 0, !.early = startscript = 0]
      /\ UNCHANGED <<program, dbtoopen, scripts, registry, input, startscript, recording,
                     line, variables>>
  BY DEF UseOpen, fixed, reading
<1>3. /\ handles' \in HandlesType /\ disk' \in DisksType
      /\ \A e \in Databases : disk'[e].leaprel = disk[e].leaprel
      /\ handles'["current"] # NULL /\ handles'["current"].db = d
      /\ \A s \in Slots : s # "current" =>
            /\ handles'[s] = NULL <=> handles[s] = NULL
            /\ handles[s] # NULL => handles'[s].db = handles[s].db
      /\ DiskFits(handles', disk', Noted(d).opened, Noted(d).doubtful)
  <2>1. "tempdb" \in Slots /\ handles["tempdb"] # NULL
    BY <1>1 DEF PhaseOK, Slots
  <2>2. DiskFits(handles, disk, past.opened, past.doubtful)
    BY <1>1, DiskNow
  <2> HIDE DEF d
  <2> QED BY <1>1, <1>2, <2>1, <2>2, OpenMakes
<1>4. Noted(d) \in History
  BY <1>1, NotedFields
<1>5. /\ past' \in History
      /\ past'.opened = Noted(d).opened /\ past'.doubtful = Noted(d).doubtful
      /\ past'.ran = 0 /\ (past'.early <=> startscript = 0)
  <2> DEFINE n == Noted(d)
             b == startscript = 0
  <2>1. b \in BOOLEAN /\ (b <=> startscript = 0)
    OBVIOUS
  <2>2. past' = [n EXCEPT !.ran = 0, !.early = b] /\ n \in History
    BY <1>2, <1>4
  <2> HIDE DEF n, b
  <2>3. past' = [opened |-> n.opened, doubtful |-> n.doubtful, ran |-> 0,
                 early |-> b, typed |-> n.typed, sessions |-> n.sessions, left |-> n.left]
    BY <2>2 DEF History
  <2>4. past' \in History
    <3>1. 0 \in 0 .. 2
      OBVIOUS
    <3> QED BY <2>1, <2>2, <2>3, <3>1 DEF History
  <2>5. past'.opened = n.opened /\ past'.doubtful = n.doubtful /\ past'.ran = 0 /\ past'.early = b
    BY <2>3
  <2> QED BY <2>1, <2>4, <2>5 DEF n
<1> HIDE DEF d
<1>6. SessionType'
  BY <1>1, <1>2, <1>3, <1>5 DEF SessionType, Phases
<1>7. DiskOK'
  BY <1>3, <1>5, DiskNext
<1>8. PhaseOK'
  BY <1>1, <1>2, <1>3 DEF PhaseOK, Before, Busy, Creation, Slots
<1>9. ToldOK' /\ CountOK'
  BY <1>1, <1>2, <1>5 DEF ToldOK, Told, Creation, CountOK
<1>10. KnownOK'
  BY <1>1, <1>2, <1>3, KnownSame DEF SessionType, Busy, Creation
<1> QED
  BY <1>6, <1>7, <1>8, <1>9, <1>10 DEF SessionInv

\* use: the variable is set, and open.src begun.
LEMMA UseTellKeeps == ASSUME SessionInv, UseTell PROVE SessionInv'
<1>1. /\ SessionType /\ DiskOK /\ PhaseOK /\ KnownOK /\ CountOK
      /\ phase = "use tell" /\ Again
      /\ past \in History /\ startscript \in 0 .. 1
  BY DEF SessionInv, SessionType, UseTell
<1>2. /\ variables' = set_variable(variables, "currentdb", current)
      /\ input' = InputFrom(current, "open") /\ past' = [past EXCEPT !.ran = 1]
      /\ UNCHANGED <<program, dbtoopen, handles, disk, scripts, registry, startscript, recording>>
  BY DEF UseTell, fixed, store
<1>3. current \in Databases /\ current \in Values
  BY <1>1, CurrentTyped DEF PhaseOK, Before
<1>4. /\ variables' \in VariablesType /\ Len(variables') <= VARIABLE_NUMBER
      /\ ToldOK'
  BY <1>1, <1>2, <1>3, TellTold DEF SessionType
<1>5. input' \in InputType
  BY <1>1, <1>2, <1>3, InputTyped DEF ScriptNames
<1>6. /\ past' \in History
      /\ past'.opened = past.opened /\ past'.doubtful = past.doubtful
      /\ past'.ran = 1 /\ past'.early = past.early
  <2>1. 1 \in 0 .. 2
    OBVIOUS
  <2> QED BY <1>1, <1>2, <2>1, RanKeeps
<1>7. line' \in Commands /\ phase' = "reading"
  BY <1>1, AgainTyped DEF SessionType
<1>8. SessionType'
  BY <1>1, <1>2, <1>4, <1>5, <1>6, <1>7 DEF SessionType, Phases
<1>9. DiskOK' /\ PhaseOK'
  BY <1>1, <1>2, <1>6, <1>7, DiskSame DEF PhaseOK, Before, Busy, Creation, Slots
<1>11. KnownOK'
  BY <1>1, <1>2, <1>7, KnownSame DEF SessionType, Busy, Creation
<1>10. CountOK'
  <2>1. past.early <=> startscript = 0
    BY <1>1 DEF CountOK
  <2>2. 1 = (IF past.early THEN 1 ELSE 0) + startscript
    <3>1. CASE startscript = 0
      BY <2>1, <3>1
    <3>2. CASE startscript = 1
      BY <2>1, <3>2
    <3>3. startscript = 0 \/ startscript = 1
      <4>1. startscript \in 0 .. 1
        BY <1>1
      <4> QED BY <4>1
    <3> QED BY <3>1, <3>2, <3>3
  <2>3. past'.ran = (IF past'.early THEN 1 ELSE 0) + startscript'
    BY <1>2, <1>6, <2>2
  <2> QED BY <1>7, <2>3 DEF CountOK
<1> QED
  BY <1>4, <1>8, <1>9, <1>10, <1>11 DEF SessionInv

\* exit, and leap's own databases, which are closed later: then both slots have it.
LEMMA LeavingKeeps == ASSUME SessionInv, DoExit \/ CloseSkipped PROVE SessionInv'
<1>1. /\ SessionType /\ DiskOK /\ PhaseOK /\ KnownOK
      /\ \/ phase = "doing" /\ phase' \in {"accept", "close current"}
         \/ CloseSkipped /\ phase = "close current" /\ phase' = "close master"
  BY DEF SessionInv, DoExit, CloseSkipped, Doing
<1>2. UNCHANGED <<program, dbtoopen, handles, disk, scripts, registry, input, startscript,
                  recording, line, variables, past>>
  BY DEF DoExit, CloseSkipped, fixed, store, reading
<1>3. SessionType' /\ DiskOK'
  BY <1>1, <1>2, DiskSame DEF SessionType, Phases
<1>4. CloseSkipped => current \in past.doubtful
  <2> SUFFICES ASSUME CloseSkipped PROVE current \in past.doubtful
    OBVIOUS
  <2>1. phase = "close current" /\ current \in {Master, Tempdb}
    BY DEF CloseSkipped
  <2>2. \A s \in Slots : handles[s] # NULL
    BY <1>1, <2>1 DEF PhaseOK, Before, Slots
  <2>3. current \in Databases
    BY <2>1, DatabaseAssumption
  <2>4. \E s \in Slots : s # "current" /\ Holds(handles, s, current)
    BY <1>1, <2>1, <2>2 DEF PhaseOK, Holds, Slots
  <2>5. "current" \in Slots /\ Holds(handles, "current", current)
    BY <2>2 DEF Slots, Holds, current
  <2>6. DiskFits(handles, disk, past.opened, past.doubtful)
    BY <1>1, <2>1, DiskNow
  <2> QED BY <2>3, <2>4, <2>5, <2>6 DEF DiskFits
<1>5. PhaseOK'
  BY <1>1, <1>2, <1>4 DEF PhaseOK, Before, Busy, Creation, Slots, current
<1>7. KnownOK'
  BY <1>1, <1>2, KnownSame DEF SessionType, Busy, Creation
<1>6. ToldOK' /\ CountOK'
  <2>1. CountOK'
    BY <1>1, <1>2, CountSame DEF SessionInv
  <2>2. CASE phase' = "accept"
    BY <1>1, <1>2, <2>1, <2>2, ToldSame DEF SessionInv, Told, Creation
  <2>3. CASE phase' # "accept"
    BY <1>1, <2>1, <2>3 DEF ToldOK, Told, Creation
  <2> QED BY <2>2, <2>3
<1> QED
  BY <1>3, <1>5, <1>6, <1>7 DEF SessionInv

\* The current database is closed, and then master.
LEMMA ClosingKeeps == ASSUME SessionInv, CloseDatabase \/ CloseMaster PROVE SessionInv'
<1>1. SessionType /\ PhaseOK /\ KnownOK
  BY DEF SessionInv
<1>2. PICK slot \in Slots :
         /\ \/ slot = "current" /\ phase = "close current" /\ phase' = "close master"
            \/ slot = "master" /\ phase = "close master" /\ phase' = "close tempdb"
         /\ disk' = Disposed(disk, handles[slot])
         /\ handles' = [handles EXCEPT ![slot] = NULL]
         /\ UNCHANGED <<program, dbtoopen, scripts, registry, input, startscript, recording,
                        line, variables, past>>
  BY DEF CloseDatabase, CloseMaster, CloseCurrent, fixed, reading, Slots
<1>3. /\ handles' \in HandlesType /\ disk' \in DisksType /\ DiskOK'
      /\ \A d \in Databases : disk'[d].leaprel = disk[d].leaprel
      /\ handles'[slot] = NULL
      /\ \A s \in Slots : s # slot => handles'[s] = handles[s]
  BY <1>2, CloseKeeps
<1>4. SessionType'
  BY <1>1, <1>2, <1>3 DEF SessionType, Phases
<1>5. PhaseOK'
  BY <1>1, <1>2, <1>3 DEF PhaseOK, Before, Busy, Creation, Slots
<1>6. ToldOK' /\ CountOK'
  BY <1>1, <1>2, CountSame DEF SessionInv, ToldOK, Told, Creation
<1>7. KnownOK'
  BY <1>1, <1>2, <1>3, KnownSame DEF SessionType, Busy, Creation
<1> QED
  BY <1>3, <1>4, <1>5, <1>6, <1>7 DEF SessionInv

\* tempdb is closed, and the program ends.
LEMMA CloseTempdbKeeps == ASSUME SessionInv, CloseTempdb PROVE SessionInv'
<1> DEFINE g == [handles EXCEPT !["tempdb"] = NULL]
           k == Disposed(disk, handles["tempdb"])
<1>1. /\ SessionType /\ PhaseOK /\ phase = "close tempdb" /\ Ended("closed", {})
      /\ disk' = k /\ scripts' = scripts
      /\ handles \in HandlesType /\ disk \in DisksType /\ "tempdb" \in Slots
      /\ DiskFits(handles, disk, past.opened, past.doubtful)
  BY DiskNow DEF SessionInv, SessionType, CloseTempdb, Slots
<1>2. /\ k \in DisksType /\ DiskFits(g, k, past.opened, past.doubtful)
      /\ \A d \in Databases : k[d].leaprel = disk[d].leaprel
  BY <1>1, DisposeFits
<1>3. g["tempdb"] = NULL /\ g["master"] = NULL /\ g["current"] = handles["current"]
  BY <1>1 DEF PhaseOK, HandlesType, Slots
<1> HIDE DEF g, k
<1>4. \A d \in Databases : d \notin past.doubtful => \A s \in Slots : ~Holds(g, s, d)
  BY <1>1, <1>3 DEF PhaseOK, Holds, Slots
<1>5. \A d \in Databases : d \notin past.doubtful =>
         k[d].index = "covers" /\ (d \in past.opened => ~k[d].temps)
  BY <1>2, <1>4 DEF DiskFits
<1>6. scripts' \in ScriptsType
  BY <1>1 DEF SessionType
<1> QED
  BY <1>1, <1>2, <1>5, <1>6, EndedKeeps

\* A signal closes whatever is open.
LEMMA SignalKeeps == ASSUME SessionInv, Signal PROVE SessionInv'
<1> DEFINE g1 == [handles EXCEPT !["current"] = NULL]
           g2 == [g1 EXCEPT !["master"] = NULL]
           g3 == [g2 EXCEPT !["tempdb"] = NULL]
           k1 == Disposed(disk, handles["current"])
           k2 == Disposed(k1, g1["master"])
           k3 == Disposed(k2, g2["tempdb"])
           unsure == past.doubtful \cup Creating
<1>1. /\ SessionType /\ Ended("signal", Creating)
      /\ handles \in HandlesType /\ disk \in DisksType
      /\ DiskFits(handles, disk, past.opened, unsure)
      /\ Creating \in SUBSET Databases
  BY DEF SessionInv, SessionType, DiskOK, Signal, PhaseOK, Busy, Creation, Creating
<1> HIDE DEF unsure
<1>2. "current" \in Slots /\ "master" \in Slots /\ "tempdb" \in Slots
  BY DEF Slots
<1>3. /\ k1 \in DisksType /\ g1 \in HandlesType /\ DiskFits(g1, k1, past.opened, unsure)
      /\ \A d \in Databases : k1[d].leaprel = disk[d].leaprel
  BY <1>1, <1>2, DisposeFits
<1>4. /\ k2 \in DisksType /\ g2 \in HandlesType /\ DiskFits(g2, k2, past.opened, unsure)
      /\ \A d \in Databases : k2[d].leaprel = k1[d].leaprel
  <2> HIDE DEF g1, k1
  <2> QED BY <1>2, <1>3, DisposeFits
<1>5. /\ k3 \in DisksType /\ g3 \in HandlesType /\ DiskFits(g3, k3, past.opened, unsure)
      /\ \A d \in Databases : k3[d].leaprel = k2[d].leaprel
  <2> HIDE DEF g2, k2
  <2> QED BY <1>2, <1>4, DisposeFits
<1>6. g1["master"] = handles["master"] /\ g2["tempdb"] = handles["tempdb"]
  BY <1>1, <1>2 DEF HandlesType
<1>7. disk' = k3
  BY <1>6 DEF Signal
<1>8. \A s \in Slots : g3[s] = NULL
  BY <1>1 DEF HandlesType, Slots
<1> HIDE DEF g1, g2, g3, k1, k2, k3
<1>9. \A d \in Databases : d \notin unsure =>
         k3[d].index = "covers" /\ (d \in past.opened => ~k3[d].temps)
  BY <1>5, <1>8 DEF DiskFits, Holds
<1>10. scripts' \in ScriptsType
  <2>1. scripts \in ScriptsType /\ (recording = NULL \/ recording \in RecordingType)
    BY <1>1 DEF SessionType
  <2>2. CASE recording = NULL
    BY <2>1, <2>2 DEF Signal
  <2>3. CASE recording # NULL
    <3>1. /\ recording.db \in Databases /\ recording.name \in ScriptNames
          /\ recording.lines \in Seq(Commands)
      BY <2>1, <2>3 DEF RecordingType
    <3> QED BY <2>1, <2>3, <3>1, ScriptWritten DEF Signal, Recorded
  <2> QED BY <2>2, <2>3
<1>11. \A d \in Databases : disk[d].leaprel # "none" => disk'[d].leaprel # "none"
  BY <1>3, <1>4, <1>5, <1>7
<1> QED
  BY <1>1, <1>5, <1>7, <1>9, <1>10, <1>11, EndedKeeps DEF unsure

-------------------------------------------------------------------------------
\* The invariant, and what it implies.

\* Every step keeps the invariant.
LEMMA StepKeeps == SessionInv /\ [Next]_vars => SessionInv'
<1> SUFFICES ASSUME SessionInv, [Next]_vars PROVE SessionInv'
  OBVIOUS
<1>1. ASSUME NEW p \in {"leap", "leapd"}, NEW d \in Asked, NEW c \in Configs, Start(p, d, c)
      PROVE  SessionInv'
  BY <1>1, StartKeeps
<1>2. ASSUME NEW l \in Typed, ReadTyped(l) \/ ReadClient(l) PROVE SessionInv'
  BY <1>2, ReadTypedKeeps, ReadClientKeeps
<1>3. CASE InputEndsRecording \/ RecordingDies \/ BrokenPipe \/ Crash
  <2>1. Die
    BY <1>3 DEF InputEndsRecording, RecordingDies, BrokenPipe, Crash
  <2> QED BY <2>1, DieKeeps
<1>4. CASE OpenTempdb \/ OpenMaster \/ OpenCurrent
  <2>1. dbtoopen \in Databases /\ Tempdb \in Databases /\ Master \in Databases
    BY DatabaseAssumption DEF SessionInv, SessionType
  <2>2. CASE OpenTempdb
    BY <2>1, <2>2, OpenNextKeeps DEF OpenTempdb, Slots
  <2>3. CASE OpenMaster
    BY <2>1, <2>3, OpenNextKeeps DEF OpenMaster, Slots
  <2>4. CASE OpenCurrent
    BY <2>1, <2>4, OpenNextKeeps DEF OpenCurrent, Slots
  <2> QED BY <1>4, <2>2, <2>3, <2>4
<1>5. CASE Startup
  BY <1>5, StartupKeeps
<1>6. CASE ReadScript \/ NextInput
  BY <1>6, ReadScriptKeeps, NextInputKeeps
<1>7. CASE DoNothing \/ DoSource \/ UseCurrent
  BY <1>7, DoPlainKeeps
<1>8. CASE DoSet \/ DoRecord \/ DoChange \/ DoMake
  BY <1>8, DoSetKeeps, DoRecordKeeps, DoChangeKeeps, DoMakeKeeps
<1>9. CASE UseAsk \/ UseDispose \/ UseOpen \/ UseTell
  BY <1>9, UseAskKeeps, UseDisposeKeeps, UseOpenKeeps, UseTellKeeps
<1>10. CASE CreateFiles \/ CreateRow \/ CreateFill \/ CreateClose \/ CreateCheck
  BY <1>10, CreateFilesKeeps, CreateRowKeeps, CreateFillKeeps, CreateCloseKeeps,
     CreateCheckKeeps
<1>11. CASE DoExit \/ CloseSkipped
  BY <1>11, LeavingKeeps
<1>12. CASE CloseDatabase \/ CloseMaster \/ CloseTempdb
  BY <1>12, ClosingKeeps, CloseTempdbKeeps
<1>13. CASE Accept \/ HangUp \/ ReadNothing
  BY <1>13, DaemonKeeps
<1>14. CASE Signal
  BY <1>14, SignalKeeps
<1>15. CASE UNCHANGED vars
  <2>1. UNCHANGED <<program, phase, dbtoopen, handles, disk, scripts, registry, input,
                    startscript, recording, line, variables, past>>
    BY <1>15 DEF vars
  <2>2. SessionType' /\ PhaseOK' /\ KnownOK'
    BY <2>1 DEF SessionInv, SessionType, PhaseOK, KnownOK, Holds
  <2>3. DiskOK'
    <3>1. DiskFits(handles', disk', past'.opened, past.doubtful \cup Creating)
      BY <2>1 DEF SessionInv, DiskOK
    <3> QED BY <2>1, <3>1, DiskNext DEF Creating
  <2>4. ToldOK' /\ CountOK'
    BY <2>1 DEF SessionInv, ToldOK, CountOK, resolve_variable, FirstOf, current
  <2> QED BY <2>2, <2>3, <2>4 DEF SessionInv
<1> QED
  BY <1>1, <1>2, <1>3, <1>4, <1>5, <1>6, <1>7, <1>8, <1>9, <1>10, <1>11, <1>12, <1>13,
     <1>14, <1>15 DEF Next, Own, Daemon

\* The parts of SessionInv hold in every state of every session, whoever types what and
\* whenever the process is signalled or dies.
THEOREM SessionInvariant == Spec => []SessionInv
<1>1. Init => SessionInv
  BY InitKeeps
<1>2. SessionInv /\ [Next]_vars => SessionInv'
  BY StepKeeps
<1> QED
  BY <1>1, <1>2, PTL DEF Spec

\* The state is of the types that the code's variables have.
THEOREM SessionTyped == Spec => []TypeOK
<1>1. SessionInv => TypeOK
  <2> SUFFICES ASSUME SessionType PROVE TypeOK
    BY DEF SessionInv
  <2>1. \A s \in Seq(Commands) : IsScript(s)
    BY DEF IsScript
  <2>2. handles \in [Slots -> Handle \cup {NULL}]
    BY DEF SessionType, HandlesType, KnownHandle
  <2>3. \A d \in Databases, s \in ScriptNames : scripts[d][s] # NoFile => IsScript(scripts[d][s])
    BY <2>1 DEF SessionType, ScriptsType
  <2>4. input.from \in {"stdin", "script", "client", "gone"} /\ IsScript(input.rest)
    BY <2>1 DEF SessionType, InputType
  <2>5. recording = NULL \/ (recording.db \in Databases /\ IsScript(recording.lines))
    BY <2>1 DEF SessionType, RecordingType
  <2>6. IsTable(variables)
    <3>1. variables \in Seq(Entry(STRING, Values)) /\ Len(variables) <= VARIABLE_NUMBER
      BY DEF SessionType, VariablesType
    <3>2. \A e \in Entry(STRING, Values) : DOMAIN e = {"name", "value"}
      BY DEF Entry
    <3> QED BY <3>1, <3>2 DEF IsTable
  <2> QED BY <2>2, <2>3, <2>4, <2>5, <2>6 DEF TypeOK, SessionType, DisksType
<1> QED
  BY <1>1, SessionInvariant, PTL

\* Closing, by a command or a signal, leaves the databases in order.
THEOREM OrderlyClose == Spec => []ClosedInOrder
<1>1. SessionInv => ClosedInOrder
  <2> SUFFICES ASSUME SessionInv, phase = "down", NEW d \in Databases \ past.doubtful
               PROVE  /\ disk[d].index = "covers"
                      /\ d \in past.opened => ~disk[d].temps
    BY DEF ClosedInOrder
  <2>1. \A s \in Slots : ~Holds(handles, s, d)
    BY DEF SessionInv, PhaseOK, Before, Slots, Holds
  <2> QED BY <2>1, DiskNow DEF SessionInv, DiskFits
<1> QED
  BY <1>1, SessionInvariant, PTL

\* currentdb says what database is current, at every prompt.
THEOREM CurrentdbIsTold == Spec => []CurrentdbTold
<1>1. SessionInv => CurrentdbTold
  BY DEF SessionInv, ToldOK, Told, Creation, CurrentdbTold
<1> QED
  BY <1>1, SessionInvariant, PTL

\* open.src of the current database has been begun once when the terminal is asked.
THEOREM OpenScriptBegun == Spec => []OpenScriptOnce
<1>1. SessionInv => OpenScriptOnce
  BY DEF SessionInv, CountOK, OpenScriptOnce, AtPrompt
<1> QED
  BY <1>1, SessionInvariant, PTL

===============================================================================
