------------------------------- MODULE Catalogue -------------------------------
(***************************************************************************)
(* The catalogue of a LEAP database (src/src/relation.c): the list of its   *)
(* relations in memory, their files and hash files on disk, and their rows  *)
(* in leaprel, from the opening of the database to its closing, through as  *)
(* many sessions as there are.  There is no transaction: creating,          *)
(* removing, renaming and changing a relation, and closing the database,    *)
(* write these copies one after the other, and a step here is one of those  *)
(* writes, so that the process can die, or be told to terminate, between    *)
(* any two.  relations_open is what a later session makes of the rest.      *)
(*                                                                          *)
(* Temporary relations of queries (zz...) live in another database and are  *)
(* left out, as are the rows of leapattributes, which no operation reads    *)
(* but `describe'.  The tuples of a relation are a version number; a hash   *)
(* table is the number of the version it indexes.                           *)
(***************************************************************************)
EXTENDS Dictionary, SequencesExt

CONSTANTS LeapRel,   \* the name of leaprel itself
          Rank,      \* strcmp order of the names
          Temp,      \* the name "_temp" under which rl_compact makes a copy
          NoFile, NoName,
          NoTable,   \* a hash table that has not been read from its file yet
          MaxMade,   \* bound: the versions of relations that are ever made
          MaxFaults  \* bound: whether the process dies, is told to terminate, or both

ASSUME NameAssumption == LeapRel \notin Names /\ NoName \notin Names /\ Temp \in Names
ASSUME RankAssumption == Rank \in [Names \cup {LeapRel} -> Int]
ASSUME MadeAssumption == MaxMade \in Nat /\ MaxFaults \in Nat

VARIABLES list,     \* the relations in memory, from first_relation on
          files,    \* the relation files
          hashes,   \* the hash files
          leaprel,  \* the data dictionary
          op,       \* what the process is doing, and with which relation
          walk,     \* the place of relations_dispose_all in the list
          pending,  \* the names relations_open has yet to read
          made,     \* the versions made so far
          kept,     \* history: the permanent relations the last session left
          renamed,  \* history: the names relations were given or had before
          mishaps   \* history: what has happened that nobody asks for

disk == <<files, hashes, leaprel>>
vars == <<list, files, hashes, leaprel, op, walk, pending, made, kept, renamed, mishaps>>

\* The rows of a relation whose number of attributes is known.
Described == [r \in Row |-> [r EXCEPT !.attributes = 1]]

Versions == 0 .. MaxMade      \* 0: a table of no version in particular

Stale == 0

\* What a relation file can be: created and not written to; its header without
\* attributes; with attributes, and a header or a mark that does not fit them;
\* complete.
Stages == {"empty", "header", "blank", "whole"}

Files == [stage : Stages, title : Names, temp : BOOLEAN, version : Versions \ {0}]

ASSUME MarkAssumption == NoFile \notin Files /\ NoTable \notin Versions

Handle == [name : Names \cup {LeapRel}, temp : 0 .. 2, updated : BOOLEAN,
           table : Versions \cup {NoTable}]

Phases == {"closed", "opening", "idle", "row", "link", "attributes", "header",
           "rows", "file", "hash", "moving", "renaming", "retitling", "changing",
           "saving", "disposing"}

TypeOK == /\ \A i \in DOMAIN list : list[i] \in Handle
          /\ files \in [Names -> Files \cup {NoFile}]
          /\ hashes \in [Names -> Versions \cup {NoFile}]
          /\ IsDictionary(leaprel)
          /\ op \in [at : Phases, rel : Names \cup {NoName},
                     to : Names \cup {NoName}, temp : BOOLEAN, compact : BOOLEAN]
          /\ walk \in Nat \ {0}
          /\ pending \subseteq Names
          /\ made \in Versions
          /\ kept \in [all : SUBSET Names, named : SUBSET Names]
          /\ renamed \subseteq Names
          /\ mishaps \subseteq {"crash", "signal", "wreck", "reuse"}

-------------------------------------------------------------------------------
\* Names, handles and the list.

Named(n) == {i \in DOMAIN list : list[i].name = n}

\* relation_find: the first of that name.
Found(n) == CHOOSE i \in Named(n) : \A j \in Named(n) : i <= j

ListNames == {list[i].name : i \in DOMAIN list} \ {LeapRel}

\* The place where relation_insert puts a name into a list: in front of the first
\* that is not smaller.
PlaceOf(l, n) ==
    LET later == {i \in DOMAIN l : Rank[l[i].name] >= Rank[n]}
    IN  IF later = {} THEN Len(l) + 1 ELSE CHOOSE i \in later : \A j \in later : i <= j

relation_insert(l, h) == InsertAt(l, PlaceOf(l, h.name), h)

\* Does the handle stand for a permanent relation?  C's FALSE is 0, its TRUE is 1.
\* Mutant: TRUE is all ones.
FlagAllOnes(temp) == IF temp THEN -1 ELSE 0
Flag(temp) == IF temp THEN 1 ELSE 0

\* The table a handle has once it was needed.
TableOf(h) == IF h.table # NoTable THEN h.table
              ELSE IF hashes[h.name] = NoFile THEN Stale ELSE hashes[h.name]

Doing(at, n) == [at |-> at, rel |-> n, to |-> NoName, temp |-> FALSE,
                 compact |-> FALSE]

Resting(at) == Doing(at, NoName)

\* The operation goes on, or the last of its steps was made.
Onward(at) == op' = [op EXCEPT !.at = at]
Finished == op' = Resting("idle")

Idle == op.at = "idle"

-------------------------------------------------------------------------------
\* The end of the process, and what it should leave.

\* The permanent relations a session leaves, but for those it is working on: all
\* of them, and those leaprel has a row of.
Left(R) == LET whole == {n \in ListNames \ {op.rel, op.to} :
                            /\ list[Found(n)].temp = 0
                            /\ files[n] # NoFile /\ files[n].stage = "whole"}
           IN  [all |-> whole,
               named |-> (whole \cap NamesIn(R)) \ NamesIn(Phantoms(leaprel))]

\* The process dies; the rows R are lost with it.
Die(R) == /\ list' = <<>>
          /\ leaprel' = Unloaded([leaprel EXCEPT !.rows = @ \ R, !.front = @ \ R])
          /\ op' = Resting("closed")
          /\ walk' = 1
          /\ pending' = {}
          /\ mishaps' = mishaps \cup {"crash"}
          /\ UNCHANGED <<files, hashes, made, renamed>>

-------------------------------------------------------------------------------
\* relation_create, and what create_user_relation or an operator does next.

\* The file is opened for writing; its header waits in a buffer.  A hash file that a
\* forgotten relation of that name has left is not looked for.
CreateFile(n, temp) ==
    /\ Named(n) = {} /\ made < MaxMade
    /\ files' = [files EXCEPT ![n] = [stage |-> "empty", title |-> n, temp |-> temp,
                                      version |-> made + 1]]
    /\ made' = made + 1
    /\ mishaps' = IF hashes[n] = NoFile THEN mishaps ELSE mishaps \cup {"reuse"}
    /\ UNCHANGED <<list, hashes, leaprel, walk, pending, kept, renamed>>

relation_create(n, temp) ==
    /\ Idle /\ n # Temp
    /\ CreateFile(n, temp)
    /\ op' = Doing("row", n)

CreateRow ==
    /\ op.at = "row"
    /\ leaprel' = Added(leaprel, [name       |-> op.rel,
                                  temp       |-> files[op.rel].temp,
                                  attributes |-> 0,
                                  updated    |-> FALSE])
    /\ Onward("link")
    /\ UNCHANGED <<list, files, hashes, walk, pending, made, kept, renamed, mishaps>>

\* fclose writes the header; the relation enters the list with an empty table.
CreateLink ==
    /\ op.at = "link"
    /\ files' = [files EXCEPT ![op.rel].stage = "header"]
    /\ list' = relation_insert(list, [name    |-> op.rel,
                                      temp    |-> Flag(files[op.rel].temp),
                                      updated |-> FALSE,
                                      table   |-> files[op.rel].version])
    /\ Onward("attributes")
    /\ UNCHANGED <<hashes, leaprel, walk, pending, made, kept, renamed, mishaps>>

\* The attributes are written, and their rows added to leapattributes.
CreateAttributes ==
    /\ op.at = "attributes"
    /\ files' = [files EXCEPT ![op.rel].stage = "blank"]
    /\ leaprel' = Touched(leaprel)
    /\ Onward("header")
    /\ UNCHANGED <<list, hashes, walk, pending, made, kept, renamed, mishaps>>

\* relation_update_header and relation_create_write_eoh_marker.  An operator
\* writes the tuples of its result as well.  rl_compact, which has made its copy,
\* takes the original out of the list.
CreateHeader(filled) ==
    /\ op.at = "header"
    /\ files' = [files EXCEPT ![op.rel].stage = "whole"]
    /\ leaprel' = Updated(leaprel, RowsOf(leaprel, op.rel), Described)
    /\ LET described == [list EXCEPT ![Found(op.rel)].updated = filled]
       IN  IF op.compact
           THEN /\ list' = RemoveAt(described, Found(op.to))
                /\ op' = [op EXCEPT !.at = "rows", !.rel = op.to, !.to = op.rel,
                                    !.temp = files[op.to].temp]
           ELSE list' = described /\ Finished
    /\ UNCHANGED <<hashes, walk, pending, made, kept, renamed, mishaps>>

\* An operator without its operand leaves the relation at that: a wreck.
CreateAbandoned ==
    /\ op.at = "attributes" /\ ~op.compact
    /\ Finished
    /\ mishaps' = mishaps \cup {"wreck"}
    /\ UNCHANGED <<list, disk, walk, pending, made, kept, renamed>>

\* A data type that is not supported: create_user_relation removes the relation.
\* Mutant: it returns an error, and leaves the relation.
CreateGivenUp ==
    /\ op.at \in {"attributes", "header"} /\ ~op.compact
    /\ Finished
    /\ UNCHANGED <<list, disk, walk, pending, made, kept, renamed, mishaps>>

CreateRefused ==
    /\ op.at \in {"attributes", "header"} /\ ~op.compact
    /\ list' = RemoveAt(list, Found(op.rel))
    /\ Onward("rows")
    /\ UNCHANGED <<disk, walk, pending, made, kept, renamed, mishaps>>

-------------------------------------------------------------------------------
\* relation_remove: out of the list, out of leaprel, off the disk.

relation_remove(n) ==
    /\ Idle /\ Named(n) # {}
    /\ list' = RemoveAt(list, Found(n))
    /\ op' = Doing("rows", n)
    /\ UNCHANGED <<disk, walk, pending, made, kept, renamed, mishaps>>

\* Mutant: the `delete' is not executed.
RemoveNoRows ==
    /\ op.at = "rows"
    /\ Onward("file")
    /\ UNCHANGED <<list, disk, walk, pending, made, kept, renamed, mishaps>>

RemoveRows ==
    /\ op.at = "rows"
    /\ leaprel' = Erased(leaprel, RowsOf(leaprel, op.rel))
    /\ Onward("file")
    /\ UNCHANGED <<list, files, hashes, walk, pending, made, kept, renamed, mishaps>>

\* delete_relation, which removes the relation file first and the hash file last.
RemoveFile ==
    /\ op.at = "file"
    /\ files' = [files EXCEPT ![op.rel] = NoFile]
    /\ Onward("hash")
    /\ UNCHANGED <<list, hashes, leaprel, walk, pending, made, kept, renamed, mishaps>>

RemoveHash ==
    /\ op.at = "hash"
    /\ hashes' = [hashes EXCEPT ![op.rel] = NoFile]
    /\ IF op.compact THEN op' = [op EXCEPT !.at = "moving", !.rel = op.to, !.to = op.rel]
       ELSE Finished
    /\ UNCHANGED <<list, files, leaprel, walk, pending, made, kept, renamed, mishaps>>

-------------------------------------------------------------------------------
\* relation_rename, of a relation.  Nobody asks whether the new name is taken,
\* and leaprel and the name in the header stay as they are.

MoveFile(n, m) ==
    /\ files' = [files EXCEPT ![m] = files[n], ![n] = NoFile]
    /\ UNCHANGED <<list, hashes, leaprel, walk, pending, made, kept, mishaps>>

relation_rename(n, m) ==
    /\ Idle /\ Named(n) # {} /\ n # m
    /\ files[n] # NoFile
    /\ MoveFile(n, m)
    /\ renamed' = renamed \cup {n, m}
    /\ op' = [Doing("renaming", n) EXCEPT !.to = m]

RenameHash ==
    /\ op.at = "renaming"
    /\ hashes' = IF hashes[op.rel] = NoFile THEN hashes
                 ELSE [hashes EXCEPT ![op.to] = hashes[op.rel], ![op.rel] = NoFile]
    /\ list' = [list EXCEPT ![Found(op.rel)].name = op.to]
    /\ IF op.compact THEN Onward("retitling") ELSE Finished
    /\ UNCHANGED <<files, leaprel, walk, pending, made, kept, renamed, mishaps>>

\* rl_compact: the copy `_temp' is made, the original removed, the copy renamed,
\* and its header given the name and the status of the original.
rl_compact(n, temp) ==
    /\ Idle /\ Named(n) # {}
    /\ files[n] # NoFile /\ files[n].stage = "whole"
    /\ CreateFile(Temp, temp)
    /\ op' = [Doing("row", Temp) EXCEPT !.to = n, !.compact = TRUE]

\* If there is a `_temp' already, no copy is made, and rl_compact ends a redirection
\* of the data dictionary that nobody has begun: fclose(NULL).
CompactDies(n) ==
    /\ Idle /\ Named(n) # {} /\ Named(Temp) # {}
    /\ Die({})
    /\ kept' = [all |-> {}, named |-> Left(leaprel.rows).named]

CompactMove ==
    /\ op.at = "moving"
    /\ MoveFile(op.rel, op.to)
    /\ renamed' = renamed \cup {op.rel, op.to}
    /\ Onward("renaming")

CompactTitle ==
    /\ op.at = "retitling"
    /\ files' = [files EXCEPT ![op.to].title = op.to, ![op.to].temp = op.temp]
    /\ list' = [list EXCEPT ![Found(op.to)].temp = Flag(op.temp)]
    /\ leaprel' = Updated(leaprel, RowsOf(leaprel, op.to), Described)
    /\ Finished
    /\ UNCHANGED <<hashes, walk, pending, made, kept, renamed, mishaps>>

-------------------------------------------------------------------------------
\* relation_change: the header is read, and written with the other status; then
\* the handle; then the row of the name in the header.

\* Mutant: the handle keeps its status.
ChangeFileOnly(n) ==
    /\ Idle /\ Named(n) # {}
    /\ files[n] # NoFile /\ files[n].stage # "empty"
    /\ files' = [files EXCEPT ![n].temp = ~@]
    /\ op' = [Doing("changing", files[n].title) EXCEPT !.temp = ~files[n].temp]
    /\ UNCHANGED <<list, hashes, leaprel, walk, pending, made, kept, renamed, mishaps>>

relation_change(n) ==
    /\ Idle /\ Named(n) # {}
    /\ files[n] # NoFile /\ files[n].stage # "empty"
    /\ LET f == files[n]
       IN  /\ files' = [files EXCEPT ![n].temp = ~f.temp]
           /\ leaprel' = Updated(leaprel, RowsOf(leaprel, f.title), Described)
           /\ op' = [Doing("changing", f.title) EXCEPT !.temp = ~f.temp]
    /\ list' = [list EXCEPT ![Found(n)].temp = Flag(@ = 0)]
    /\ UNCHANGED <<hashes, walk, pending, made, kept, renamed, mishaps>>

ChangeRow ==
    /\ op.at = "changing"
    /\ leaprel' = Updated(leaprel, RowsOf(leaprel, op.rel),
                          [r \in Row |-> [r EXCEPT !.temp = op.temp]])
    /\ Finished
    /\ UNCHANGED <<list, files, hashes, walk, pending, made, kept, renamed, mishaps>>

\* add (n) (...): a new version of the tuples, which the table follows if it was
\* that of the old one; insert then sets UPDATED in the row.
insert(n) ==
    /\ Idle /\ Named(n) # {} /\ made < MaxMade
    /\ files[n] # NoFile /\ files[n].stage = "whole"
    /\ LET i == Found(n)
           new == IF TableOf(list[i]) = files[n].version THEN made + 1 ELSE Stale
       IN  list' = [list EXCEPT ![i].updated = TRUE, ![i].table = new]
    /\ files' = [files EXCEPT ![n].version = made + 1]
    /\ made' = made + 1
    /\ leaprel' = Updated(leaprel, RowsOf(leaprel, n),
                          [r \in Row |-> [r EXCEPT !.updated = TRUE]])
    /\ UNCHANGED <<hashes, op, walk, pending, kept, renamed, mishaps>>

-------------------------------------------------------------------------------
\* The end of a session, and the beginning of the next.

\* relations_dispose_all begins by resetting UPDATED in every row; from then on
\* the operation that was going on, if any, is not taken up again.
Dispose ==
    /\ kept' = Left(leaprel.rows)
    /\ leaprel' = Updated(leaprel, {r \in leaprel.rows : r.updated},
                          [r \in Row |-> [r EXCEPT !.updated = FALSE]])
    /\ op' = Resting("saving")
    /\ walk' = 1
    /\ pending' = {}
    /\ UNCHANGED <<list, files, hashes, made, renamed>>

Close == Idle /\ Dispose /\ UNCHANGED mishaps

\* Each kind of fault strikes once at most, and no more than MaxFaults of them.
Faults == mishaps \cap {"crash", "signal"}
MayFail(fault) == fault \notin Faults /\ Cardinality(Faults) < MaxFaults

\* signal_handler closes the database from wherever the program is.
Signal == /\ MayFail("signal")
          /\ op.at \notin {"closed", "idle", "saving", "disposing"}
          /\ Dispose
          /\ mishaps' = mishaps \cup {"signal"}

\* The first walk along the list: a table is saved if it has changed, and the
\* rows of a temporary relation are deleted.
\* Mutant: the table is saved whether or not the relation was updated.
SaveAll(h) ==
    IF h.name = LeapRel
    THEN leaprel' = SavedIfChanged(leaprel) /\ UNCHANGED hashes
    ELSE IF h.temp = 0
    THEN /\ hashes' = [hashes EXCEPT ![h.name] = IF h.table = NoTable THEN Stale
                                                 ELSE h.table]
         /\ UNCHANGED leaprel
    ELSE leaprel' = Erased(leaprel, RowsOf(leaprel, h.name)) /\ UNCHANGED hashes

Save(h) ==
    IF h.name = LeapRel
    THEN leaprel' = SavedIfChanged(leaprel) /\ UNCHANGED hashes
    ELSE IF h.temp = 0
    THEN /\ hashes' = IF h.updated THEN [hashes EXCEPT ![h.name] = h.table] ELSE hashes
         /\ UNCHANGED leaprel
    ELSE leaprel' = Erased(leaprel, RowsOf(leaprel, h.name)) /\ UNCHANGED hashes

SaveNext == /\ op.at = "saving" /\ walk <= Len(list)
            /\ Save(list[walk])
            /\ walk' = walk + 1
            /\ UNCHANGED <<list, files, op, pending, made, kept, renamed, mishaps>>

SaveDone == /\ op.at = "saving" /\ walk > Len(list)
            /\ walk' = 1
            /\ op' = Resting("disposing")
            /\ UNCHANGED <<list, disk, pending, made, kept, renamed, mishaps>>

\* The second walk: relation_dispose, which deletes the files of the temporary.
DisposeNext ==
    /\ op.at = "disposing" /\ walk <= Len(list)
    /\ LET h == list[walk]
       IN  IF h.temp = 1
           THEN /\ files' = [files EXCEPT ![h.name] = NoFile]
                /\ hashes' = [hashes EXCEPT ![h.name] = NoFile]
           ELSE UNCHANGED <<files, hashes>>
    /\ walk' = walk + 1
    /\ UNCHANGED <<list, leaprel, op, pending, made, kept, renamed, mishaps>>

DisposeDone == /\ op.at = "disposing" /\ walk > Len(list)
               /\ list' = <<>>
               /\ leaprel' = Unloaded(leaprel)
               /\ walk' = 1
               /\ op' = Resting("closed")
               /\ UNCHANGED <<files, hashes, pending, made, kept, renamed, mishaps>>

\* A row that `update' has deleted and not yet appended is lost with the process.
BeingUpdated == CASE op.at = "idle" -> {r \in leaprel.rows : r.name \in ListNames}
                  [] op.at = "header" \/ op.at = "changing" -> RowsOf(leaprel, op.rel)
                  [] OTHER -> {}

Crash == /\ op.at # "closed" /\ MayFail("crash")
         /\ \E R \in {{}} \cup {{r} : r \in BeingUpdated} :
               /\ Die(R)
               /\ kept' = IF op.at \in {"opening", "saving", "disposing"} THEN kept
                          ELSE [all |-> {}, named |-> Left(leaprel.rows \ R).named]

\* relations_ddopen reads leaprel, and the names in it.
Open == /\ op.at = "closed"
        /\ \E garbage \in BOOLEAN : leaprel' = Reloaded(leaprel, garbage)
        /\ list' = <<[name |-> LeapRel, temp |-> 0, updated |-> FALSE, table |-> NoTable]>>
        /\ pending' = NamesIn(leaprel.rows)
        /\ op' = Resting("opening")
        /\ UNCHANGED <<files, hashes, walk, made, kept, renamed, mishaps>>

\* The table of a wreck cannot be built: its header speaks of an attribute that is
\* not there.
Deadly(n) == files[n] # NoFile /\ files[n].stage = "header" /\ hashes[n] = NoFile

\* relation_new_read.  The status of a relation without a header is whatever the
\* memory holds.
OpenRelation(n) ==
    /\ op.at = "opening" /\ n \in pending
    /\ files[n] # NoFile /\ ~Deadly(n)
    /\ \E t \in IF files[n].stage = "empty" THEN 0 .. 2 ELSE {Flag(files[n].temp)} :
          list' = relation_insert(list,
                     [name |-> n, temp |-> t, updated |-> FALSE,
                      table |-> IF hashes[n] # NoFile THEN NoTable
                                ELSE files[n].version])
    /\ pending' = pending \ {n}
    /\ UNCHANGED <<disk, op, walk, made, kept, renamed, mishaps>>

\* A row without a file: `no longer exists on disk'.
\* Mutant: the row is left.
OpenSkipped(n) ==
    /\ op.at = "opening" /\ n \in pending
    /\ files[n] = NoFile
    /\ pending' = pending \ {n}
    /\ UNCHANGED <<list, disk, op, walk, made, kept, renamed, mishaps>>

\* Mutant: it is the hash file that is looked for.
OpenHashless(n) ==
    /\ op.at = "opening" /\ n \in pending
    /\ hashes[n] = NoFile
    /\ leaprel' = Erased(leaprel, RowsOf(leaprel, n))
    /\ pending' = pending \ {n}
    /\ UNCHANGED <<list, files, hashes, op, walk, made, kept, renamed, mishaps>>

OpenMissing(n) ==
    /\ op.at = "opening" /\ n \in pending
    /\ files[n] = NoFile
    /\ leaprel' = Erased(leaprel, RowsOf(leaprel, n))
    /\ pending' = pending \ {n}
    /\ UNCHANGED <<list, files, hashes, op, walk, made, kept, renamed, mishaps>>

OpenWreck(n) ==
    /\ op.at = "opening" /\ n \in pending
    /\ Deadly(n)
    /\ Die({})
    /\ UNCHANGED kept

OpenDone == /\ op.at = "opening" /\ pending = {}
            /\ Finished
            /\ UNCHANGED <<list, disk, walk, pending, made, kept, renamed, mishaps>>

-------------------------------------------------------------------------------
\* A new database has no relations but those of the data dictionary; the first
\* slot of leaprel is a deleted one by then.
Init == /\ list = <<>>
        /\ files = [n \in Names |-> NoFile]
        /\ hashes = [n \in Names |-> NoFile]
        /\ leaprel = [rows |-> {}, front |-> {}, gap |-> FALSE, read |-> FALSE,
                      table |-> {}, saved |-> {}, changed |-> FALSE]
        /\ op = Resting("closed")
        /\ walk = 1
        /\ pending = {}
        /\ made = 0
        /\ kept = [all |-> {}, named |-> {}]
        /\ renamed = {}
        /\ mishaps = {}

Creation == \/ \E n \in Names, temp \in BOOLEAN : relation_create(n, temp)
            \/ CreateRow
            \/ CreateLink
            \/ CreateAttributes
            \/ \E filled \in BOOLEAN : CreateHeader(filled)
            \/ CreateAbandoned
            \/ CreateRefused

Removal == \/ \E n \in Names : relation_remove(n)
           \/ RemoveRows
           \/ RemoveFile
           \/ RemoveHash

Renaming == \/ \E n, m \in Names \ {Temp} : relation_rename(n, m)
            \/ RenameHash

Compaction == \/ \E n \in Names \ {Temp}, temp \in BOOLEAN : rl_compact(n, temp)
              \/ \E n \in Names : CompactDies(n)
              \/ CompactMove
              \/ CompactTitle

Changing == \/ \E n \in Names : relation_change(n)
            \/ ChangeRow
            \/ \E n \in Names : insert(n)

Closing == Close \/ Signal \/ SaveNext \/ SaveDone \/ DisposeNext \/ DisposeDone

Opening == \/ Open
           \/ \E n \in Names : OpenRelation(n) \/ OpenMissing(n) \/ OpenWreck(n)
           \/ OpenDone

Next == Creation \/ Removal \/ Renaming \/ Compaction \/ Changing \/ Closing
        \/ Opening \/ Crash

Spec == Init /\ [][Next]_vars

-------------------------------------------------------------------------------
\* What the catalogue is for: a later session finds the relations again.

Whole(n) == files[n] # NoFile /\ files[n].stage = "whole"

\* A relation in memory, permanent, complete, and under the name it was made with.
Standing(n) == /\ Named(n) # {} /\ list[Found(n)].temp = 0
               /\ Whole(n) /\ files[n].title = n

Opened == op.at = "opening" /\ op'.at = "idle"

\* Every permanent relation has its row in leaprel whenever the program waits for a
\* command, although appends are written over the first slot: the row of a relation
\* that was made properly has been moved out of it by then.  Excepted are names that
\* were renamed, and rows the table knows and the file has not.
Catalogued == Idle => \A n \in ListNames \ (renamed \cup NamesIn(Phantoms(leaprel))) :
                          Standing(n) => n \in NamesIn(leaprel.rows)

\* No row outlives its relation, whatever a removal, a refused creation, a crash or
\* a closing in the middle of an operation have left.
NoStrayRows == Idle => NamesIn(leaprel.rows) \subseteq ListNames \cup renamed

\* Once a database has been opened the rows are those of the relations in memory, and
\* each of these has its file, whatever the session before has left on disk.
OpeningRepairs ==
    [][Opened => /\ NamesIn(leaprel'.rows) = ListNames'
                 /\ \A n \in ListNames' : files'[n] # NoFile]_vars

\* Between two sessions, none of which was interrupted or made a relation anew that
\* leaprel had forgotten, a hash file has its relation, and indexes the tuples that are
\* in it: the next session trusts it unseen.
HashesFit == op.at = "closed" /\ Faults = {} /\ "reuse" \notin mishaps =>
                 \A n \in Names \ renamed : hashes[n] # NoFile =>
                     files[n] # NoFile /\ files[n].version = hashes[n]

\* Closing, even out of a signal handler or cut short by a crash, and opening again
\* lose no permanent relation that leaprel has a row of, unless its table remembered
\* a row of that relation that the file had not.  (A process that dies within an update
\* of leaprel, be it the one that closing begins with, may have deleted a row and not
\* appended its image: leaprel has no row of that relation then.)
PermanentStays == [][Opened => kept.named \ renamed \subseteq ListNames']_vars

\* A database that was closed undisturbed keeps no temporary relation on disk.
NothingTemporaryStays ==
    op.at = "closed" /\ Faults = {} =>
        \A n \in Names \ renamed : files[n] # NoFile => ~files[n].temp

\* The database fails to open only if an operation was interrupted, or an operator
\* left its result half made.
OpeningDiesOfWrecks ==
    [][(\E n \in Names : OpenWreck(n)) => mishaps \cap {"crash", "signal", "wreck"} # {}]_vars

\* What the help says: `Permanent relations remain on the disk between runs, whereas
\* temporary relations are removed when LEAP is shutdown'.
PermanentRemains == [][Opened /\ Faults = {} => kept.all \subseteq ListNames']_vars
===============================================================================
