------------------------------ MODULE Dictionary ------------------------------
(***************************************************************************)
(* leaprel, the relation of the data dictionary that names the relations of *)
(* a database, as the commands `add', `delete' and `update' leave it that   *)
(* the operators of LEAP send it (ddmaintenance and vprocess_query; insert, *)
(* rl_erase and rl_update of src/src/rtional.c on the file operations of    *)
(* src/src/tuples.c).                                                       *)
(*                                                                          *)
(* The order of the rows in the file matters in one place only: an `add'    *)
(* that follows a deletion is written over the first slot, because          *)
(* tuple_append's seek fails (TupleStore has the details).  `front' is the  *)
(* live row in that slot.  The hash table of leaprel is taken to forget     *)
(* nothing (HashLedger says when it does): it is a set of rows, in memory   *)
(* and in the hash file, and may know rows the file does not have.          *)
(***************************************************************************)
EXTENDS Integers, FiniteSets

CONSTANT Names    \* the names a user's relation can have

\* A row of leaprel: what it says of a relation.
Row == [name : Names, temp : BOOLEAN, attributes : 0 .. 1, updated : BOOLEAN]

\* leaprel: its rows, the row in the first slot, whether a tuple was deleted
\* since the last append, whether the table has been read from its file, the table in
\* memory, the one on disk, and whether the table was touched.
IsDictionary(d) ==
    /\ DOMAIN d = {"rows", "front", "gap", "read", "table", "saved", "changed"}
    /\ d.rows \subseteq Row
    /\ d.front \subseteq d.rows
    /\ d.gap \in BOOLEAN
    /\ d.read \in BOOLEAN
    /\ d.table \subseteq Row
    /\ d.saved \subseteq Row
    /\ d.changed \in BOOLEAN

RowsOf(d, n) == {r \in d.rows : r.name = n}

NamesIn(R) == {r.name : r \in R}

\* What the table knows, read from the hash file if that was not done yet.
Known(d) == IF d.read THEN d.table ELSE d.saved

\* Rows the table knows and the file does not have: it will refuse them.
Phantoms(d) == Known(d) \ d.rows

\* The row an `add' replaces: the one in the first slot after a deletion.
Covered(d) == IF d.gap THEN d.front ELSE {}

\* add (leaprel) (...).
Added(d, r) ==
    LET new == r \notin Known(d)
    IN  [d EXCEPT !.rows    = IF new THEN (@ \ Covered(d)) \cup {r} ELSE @,
                  !.front   = IF new /\ d.gap THEN {r} ELSE @,
                  !.gap     = FALSE,
                  !.read    = TRUE,
                  !.table   = Known(d) \cup {r},
                  !.changed = TRUE]

\* delete (leaprel) (...): the rows of the set R go.
Erased(d, R) ==
    IF R = {} THEN d
    ELSE [d EXCEPT !.rows    = @ \ R,
                   !.front   = @ \ R,
                   !.gap     = TRUE,
                   !.read    = TRUE,
                   !.table   = Known(d) \ R,
                   !.changed = TRUE]

\* Mutant: `update' changes the tuple where it is.
UpdatedInPlace(d, R, to) ==
    IF R = {} THEN d
    ELSE LET new == {to[r] : r \in R}
         IN  [d EXCEPT !.rows    = (@ \ R) \cup new,
                       !.front   = IF @ \cap R = {} THEN @ ELSE {to[r] : r \in @},
                       !.read    = TRUE,
                       !.table   = (Known(d) \ R) \cup new,
                       !.changed = TRUE]

\* update (leaprel) (...) (...): each row of R is deleted and what `to' makes of it
\* appended behind the last tuple, if the table does not know that row already.
Updated(d, R, to) ==
    IF R = {} THEN d
    ELSE LET others == Known(d) \ R
             new    == {to[r] : r \in R}
         IN  [d EXCEPT !.rows    = (@ \ R) \cup (new \ others),
                       !.front   = @ \ R,
                       !.gap     = TRUE,
                       !.read    = TRUE,
                       !.table   = others \cup new,
                       !.changed = TRUE]

\* What `add (leapattributes) (...)' does to leaprel: insert moves the row of
\* leapattributes, which is not among those followed here.
Touched(d) == [d EXCEPT !.gap = TRUE, !.read = TRUE, !.table = Known(d),
                         !.changed = TRUE]

\* hashing_save of leaprel's table, when the walk of relations_dispose_all meets it.
SavedIfChanged(d) == [d EXCEPT !.saved = IF d.changed THEN d.table ELSE @]

\* The process ends: the table goes.
Unloaded(d) == [d EXCEPT !.read = FALSE, !.table = {}, !.changed = FALSE]

\* relation_new_read of leaprel, whose hash file always exists: last_deleted is
\* left as malloc'ed memory has it.
Reloaded(d, garbage) == [Unloaded(d) EXCEPT !.gap = garbage]

===============================================================================
