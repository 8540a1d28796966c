# LEAP: a formal model

LEAP (src/src, C) is a relational database management system that runs as a
single process: a prompt, a script or a socket supplies queries, one at a time,
and each is parsed, executed against files, and answered.  There is no log and no
locking.  What keeps a database right is therefore the agreement of several
copies of the same facts, which every operator updates one after the other:

  * the **relation file** (`name.rel`): a header and fixed-size tuples, each with
    a status byte; deletion overwrites the byte;
  * the **hash table** of the relation in memory, which holds the text of each of
    its tuples and decides whether a tuple is new;
  * the **hash file** (`name.hsh`), the table's saved form, trusted when it exists;
  * the **data dictionary**: the relations `leaprel`, `leapattributes`, ..., kept
    by queries that the operators themselves issue.

## Inventory

| component | source | state | operations | what makes it right | modelled in |
|---|---|---|---|---|---|
| hash tables | hashing.c | 53 chains of nodes with `next` and `previous`; the hash file | create, insert, retrieve, delete, save, load, terminate, build | a key is found iff it was inserted and not deleted; no freed node is followed | `HashBucket`, `HashTable`, `HashLedger`, `ChainHeap` |
| tuples | tuples.c | the relation file with its header; `last_deleted`, `updated`; a file handle per scan | prepare, readfirst, readnext, write, append, appendandreturn, delete, atend; writing and reading the header | a relation is a set; the table knows exactly its tuples; a scan ends; what is in a file fits its header | `TupleStore`; headers in `Algebra` |
| operators that change a relation | rtional.c | a scan in progress | insert, rl_erase, rl_update, rl_compact | the new relation is the one the algebra prescribes, also when it changes the file it reads | `TupleStore` |
| operators that make a relation | rtional.c | source scans and a new relation | rl_select, rl_project, rl_union, rl_intersect, rl_difference, rl_product, rl_naturaljoin, rl_duplicate, create_user_relation | result equals the set-theoretic definition | `Algebra`; create_user_relation in `Catalogue` |
| catalogue | relation.c | sorted list of relations per database; rows of leaprel; files | create, find, open, rename, change, remove, compact, dispose | list, dictionary and files name the same relations, now and in the next session | `Catalogue`, `Dictionary` |
| databases | dbase.c, database.c | current, master and temporary database; their registry | db_init, change_db, opening and closing | closing saves what changed; the current database is the one that was asked for | `Session` |
| conditions | cond.c | a chain of comparisons with pointers into tuples | build_condition, match_tuples, evaluate | the value of the qualification for the tuple just read | `Text`, `Algebra` |
| parser, executor | parser.c, p_stack.c, util.c | the text, a tree, a stack of nodes | process_query, parse, execute | the tree is the query's; operands are evaluated before operators | `Text`, `Query` |
| variables | vars.c | 25 names and values | set, resolve, new, init | a name resolves to the value last set | `Variables`, `Session` |
| front ends | leap.c, leapd.c | input stream, script being recorded, client | do_leap, do_daemon, signal_handler | scripts run as often as they should and the prompt comes back; every way out closes the databases | `Session` |
| attributes | attribs.c | descriptions of attributes | build, print | | not modelled |
| utilities | util.c, errors.c, help.c | | cutting texts, printing, recording scripts | | cutting in `Text`, recording in `Session` |

Components call each other directly: the executor calls the operators, the
operators read and write tuples, `tuple_write` and `tuple_delete` call the hash
table, and insert, update, create, rename and remove issue queries of their own
(`ddmaintenance`) that re-enter the parser.  What is hard: the order of calls on
the hash table (its pointers are not all maintained); scans that change what they
read; a process that dies, or is told to terminate, between two of the writes an
operator makes; saved tables trusted by the next process; operators abandoned half
way; text that is cut, one bracket at a time, out of text that was cut before; a
database that is closed before it is known whether the next can be opened.

## Modules

| module | models | built on |
|---|---|---|
| `HashBucket` | one chain of a hash table: what insert, retrieve, delete, save and load make of it | |
| `HashTable` | the table, the hash file and every sequence of calls | `HashBucket` |
| `HashLedger` | `HashTable` with a record of what it was told, and the properties | `HashTable` |
| `ChainHeap` | a chain as nodes at addresses, and the refinement to `HashTable` | `HashTable` (INSTANCE) |
| `RelationSet` | what a relation promises those who use it: a set of rows, changed by whole operators | |
| `TupleStore` | one permanent relation: file, table, hash file, scans, reopening, crashes; and the refinement to `RelationSet` | `HashTable`, `RelationSet` (INSTANCE) |
| `Dictionary` | leaprel under the commands the operators send it, as functions | |
| `Catalogue` | the relations of a database: list, files, hash files and leaprel, over sessions and interruptions | `Dictionary` |
| `Variables` | the table of variables, as functions | |
| `Session` | leap and leapd from startup to closing: databases, scripts, clients, signals, crashes | `Variables` |
| `Text` | how the text of a query, a list or a condition is cut and read, as functions | |
| `Algebra` | the operators that make new relations, and conditions, as functions of their operands | `Text` |
| `Query` | a query from its text to its answer: parse tree, stack, results, `last` | `Algebra` |
| `HashTableProofs` | lemmas: what one chain and a whole table become by each call | `HashTable` |
| `HashLedgerProofs`, `TupleStoreProofs` | theorems about every run of these modules | `HashTableProofs` |
| `ChainHeapProofs` | lemmas about walks and splices, and theorems about every run of `ChainHeap` | `ChainHeap` |
| `VariablesProofs`, `SessionProofs` | lemmas about the table of variables, and theorems about every run of `Session` | the modules named |
| `CatalogueProofs` | lemmas about lists and the commands of `Dictionary`, and theorems about every run of `Catalogue` | `Catalogue` |
| `QueryProofs` | lemmas about places and trees, and theorems about every run of `Query` | `Query` |
| `MC*` | instances for TLC | |

The three views of the hash table are connected by refinement and extension, and
`TupleStore` uses the table as it is. `Catalogue`, `Session` and `Query` each abstract the
layer below: a relation's tuples are a version in `Catalogue`, a database is in or out of
order in `Session`, and the data dictionary's own queries are an effect on `last` in `Query`.

### HashBucket, HashTable and HashLedger

A chain is kept in `strcmp` order, so the keys in it determine its forward
order.  The `previous` pointers they do not determine: `hashing_insert` sets
those of the new node, but leaves that of the node that now follows it
(hashing.c:186-198) as it was, and `hashing_delete` believes them.  A bucket is
therefore a function from keys to `[previous, copies]`.  `hashing_delete` is the
three branches of the code at once: the node named by `previous` (or the bucket)
is made to point past the deleted one, everything between leaves the chain, and
the follower's `previous` becomes the deleted node's.  `copies` is there because
inserting the key of the head links a second node (hashing.c:186).  `previous`
may be `Stale`: its node was freed or has been unlinked.  Deleting such a key
writes through that pointer; the table becomes `Wild`, and the model then follows
only the end of the process.

The actions of `HashTable` are the calls.  `HashLedger` adds to each what an exact
table would hold (`owed`) and two flags: `pristine`, nothing was deleted since the
table was made or loaded, and `tidy`, every insertion since was at the end of its
chain.  These are the two situations in which the table is exact.  The checked
properties say what holds in them, and what holds outside: no phantom key, no
loss behind the deleted key or in another bucket.  That loading a saved table restores
exact pointers is how `hashing_load` is defined, and no property says it again; that
the reinsertion of the file's nodes comes to this is what `ChainHeap` checks.

### ChainHeap

The same calls on nodes at addresses with `next` and `previous`, written as
hashing.c writes them: the walk, the four cases of insertion, the three of
deletion, the file in chain order and its reinsertion on loading.  `Refines`
states that under the mapping `AsBucket` every step is a step of `HashTable`, so
the function representation loses nothing.  An address is reused only when no
pointer holds it; a pointer to freed memory is `Wild` when used either way.  The walk is
defined by the number of nodes it may still meet, which is all there are, so that it has a
value in any heap.

### TupleStore

`slots` is the relation file after its header.  Tuples are model values; `stored`
says what reading one back gives (a number typed as 07 is read as 7; a string is
cut to its width) and `text` is `tuple_to_string`, the key, which is taken before
that conversion.  `table` is `NoTable` when a hash file exists and has not been
read yet (relation_new_read does not read it).  A scan is one step per tuple:
`rl_erase` with `EraseNext`/`EraseDone`, `rl_update` with its deletion and its append
as separate steps because each is flushed to disk separately, `rl_compact` with
`rl_duplicate`'s loop.  `Open` gives `last_deleted` an arbitrary value, since
relation_new_read leaves malloc'ed memory there; of its values the model keeps
the two kinds that differ (0, and one that makes `fseek` fail).

`hashing_save` empties the file, or makes it, and its entries reach the disk when the
buffer lets them, bucket by bucket and each chain from its head: `Close`, and `Built`
for a system relation, begin the saving, `SaveNode` lets one more node through, and
`SaveDone` is `fclose`.  The next session trusts what is there, be it empty
(relation.c:689-701).  Of an entry that is cut off `hashing_load` inserts nothing, so that a
file that ends within an entry is one that ends before it.

`Crash` may happen whenever the relation is open.  `damage` is a history variable
that records events after which the code's own index is unreliable (a crash after a change
with a hash file on disk, or at any time while the hash file is saved, the first one
included; a chain that lost keys, a text that is not the text read back,
an insertion over a live tuple), so that the properties can say precisely when
the relation is still a set and the index still exact.  `rl_compact` clears it: a
compacted relation is right again whatever came before, which
`CompactKeepsTuples` checks.

`ImplementsSet` states that `TupleStore` implements `RelationSet`, in which an operator
begins and ends and nothing of it is seen in between: while one runs, the rows are those
it began with (`SetRows`), each slot the scan passes is a stutter or costs the trust in
the index, and the end gives the result as a whole.  A process that dies in an operator
leaves something between the old rows and the new.  How much, the abstract actions say:
an erasure has deleted some of the tuples it was to delete and no other; an update has
lost at most the images of the one tuple it had in hand, because the deletion and the
append are two writes; a compaction has changed nothing.  `trusted` is the absence of
`damage`.  Without it an insertion may be refused or go over another row, and images of
an update may be missing, but no operator touches a row it was not told to; compaction
brings the trust back.  A malformed set string is found only after the first tuple was
deleted (`FailUpdate`).

The commands an operator sends to the data dictionary act on another relation,
`leaprel`, and are not part of this module; `System = TRUE` instantiates the module
for such a relation.

### Dictionary and Catalogue

`Dictionary` gives `add`, `delete` and `update` on leaprel. It is a set of rows, except
for one row that matters: the one in the first slot, over which the append after a
deletion is written (`tuple_append`, see TupleStore). An `update` deletes the row and
appends the new one at the end, which is what keeps `front` mostly harmless.

A step of `Catalogue` is one write: `relation_create` opens the file (`CreateFile`), adds
the row (`CreateRow`), closes the file and links the relation (`CreateLink`); then its
caller writes attributes, header and mark. `relation_remove`, `relation_rename`,
`relation_change`, `rl_compact` and `relations_dispose_all` are divided the same way, and
`Crash` and `Signal` may come between any two steps. A signal runs the closing walk
from wherever the operation was. The stage of a file says how much of it was written.
`Open` and the steps after it are relations_open: a row without a file is deleted, a
relation without a hash file has its table built, and if that relation is a wreck the
process dies. `kept` remembers what the last session left; `renamed` and `mishaps`
mark where the code promises nothing.  One of the mishaps needs no interruption: a
relation whose row was lost leaves its files, and when a relation of its name is made
anew (`"reuse"`) the old hash file is not removed, so the next session trusts it.
`HashesFit` excludes it, and with that holds for three versions too, with no fault.

### Variables and Session

`Variables` is the table with the search as it is written: it begins at the second
place and looks one place past the end.

`Session` has the three handles `current`, `master` and `tempdb`, the three databases
they were opened from, and one action for each thing the loops of leap.c and leapd.c do:
open, read a line (from a script, a terminal or a client), execute it, close. `use` is
four actions (`UseAsk`, `UseDispose`, `UseOpen`, `UseTell`), `create` five. `Read` is process_query's
recording branch: while leap records, a line goes to the script and is not executed.
leapd shares the commands and differs where the code does (`Accept`, `ReadClient`,
`HangUp`; it does not read scripts, and `exit` is the end of its client).

Of a database's contents it follows only whether its hash files, and each handle's own
tables, were told of every tuple in the relation files, and whether leaprel names
temporary relations.  `Make` is what every result does: its rows in leaprel and leapattributes
change permanent relations of the database it is made in, which for results without a
name is tempdb (`Home`).  Queries have results also when nobody typed them: reading leaprel in
order to open a database (`Open`), and the two queries by which `use` asks leapdata (`UseAsk`).
`create` opens a database of its own, which has no handle here: `CreateFill` executes what
was redirected, `CreateClose` closes it, and `CreateCheck` opens and closes it once more. A
process that ends in between leaves it behind (`Creating`).  An index that `"covers"` may
have more keys than there are tuples: the closing walk saves leaprel's table before it
deletes rows of temporary relations further on (relation.c:1022-1037).  What follows from
such keys is `Catalogue`'s, where `TableOf` and the rows are followed one by one; and so is
the command that renames a relation.

### Text

A text is a sequence of symbols: marks of one character, words, and the letters of
quoted values. The operators are the functions that cut it: `cut_to_right_bracket`
with its table of brackets, `cut_token`, `get_first_expression` for one comparison,
`qualification` for the chain of build_condition, `attribute_list` for the two ways in
which rl_project reads its list. Their quirks are kept: a token keeps the separators in front of it; a text that is cut
off behind separators keeps the end of the token; a space in front of a closing bracket is part
of the operand; a comparison that cannot be read, followed by another, ends the
process. `Fragment` is a word that is the rest of one.

### Algebra

A relation is its file: the header as `relation_create_write_header`,
`relation_create_write_attribute`, `relation_update_header` and
`relation_create_write_eoh_marker` leave it, and the tuples. `tuple_prepare` reads it
back. relation_create's header promises one attribute; an operator that gives up
before it writes any leaves a *wreck*, a registered relation whose reading ends the
process.

One operator per function of rtional.c, from the operands to what the function
leaves behind: the relation it created, if any, whether it returned it, and whether
the process survived. These differ. `create_duplicate_rtn_relation` creates the
file before it looks at the other relation, so an operator without an operand
leaves a wreck; `rl_select` returns NULL for an empty relation or a bad condition, and
`rl_project` for an unknown attribute, each with a relation created. Nothing
interleaves with an operator, so each is one step; the loops are folds and filters
over the tuples in file order.

Values are sequences of letters, because three conversions matter: a tuple is known
by its values run together (`tuple_to_string`), a string is cut to its attribute's
width and a number converted when written, and these decide what a set operator
answers. Conditions are sequences of comparisons evaluated from left to right, over
strings and numbers; with an empty value in the place of a number, and with attributes
of different types, the evaluation ends. `strstr` on names, by which
`relation_create_both` leaves out keys, is the constant relation `within` on names.

### Query

`parse` and `execute` are loops over a tree with explicit flags, parent pointers and a
stack, and the model keeps all of these: one `Parse` step is one round of the first
loop (read the node's text, grow it, choose where to go), one `Execute` step one round
of the second (down to the left-most node, its operation, the result to the parent,
pop, turn right). A node is a place, a sequence of turns, with the text it was cut.
Children that were executed leave the tree, as they are freed. An operator's own
queries on the data dictionary are not stepped through; of their effects the model
keeps that they overwrite `last`, with the name `Internal`, whose tuples are not
followed. Random names are new names.

A query of an instance is a text together with the tree it is to mean, written down
independently of the parser; `ReadAsWritten` compares the two. `ideal` is a history
variable: the meaning of each node in textbook algebra, on sets of tuples, as long as
the query is well formed and its tuples can be told apart (`Distinguished`, `Fits`).
`AnswerIsAlgebra` compares it, at the end, with what the program answers. `Means` is a
reference definition of conditions that is not the program's fold.

## Runs

| run | question | size |
|---|---|---|
| `hash_ledger` | what may a table lose, and what does it keep? | 4 keys, 3 of which collide, 2 buckets, each key inserted up to twice over; 130 thousand states |
| `chain_heap` | is the abstract chain the real one? | 3 keys, 4 nodes; 61 thousand states |
| `tuple_store` | do file, table and hash file agree, are the operators exact, and is the relation a set to its users? | 3 tuples, one typed in two ways, 3 slots; 5.3 million states |
| `tuple_store_live` | does every scan and saving end, and is the index of a dictionary relation, saved when it is opened, complete? | 2 tuples, 2 slots, a system relation; 38 thousand states |
| `catalogue` | do list, files, hash files and leaprel agree, and what does opening repair? | the names `_temp`, a and m, two versions, one fault; 2.1 million states |
| `session` | does every way out leave the databases in order, do scripts run once, does the prompt come back? | 3 databases and one to create, 3 lines typed, 2 sessions; 1.1 million states |
| `query` | is a query read as it was written, executed node by node, once, and does it answer what the algebra says? | 51 queries, asked two in a row, on 9 relations; 10.9 thousand states |
| `hash_forgets`, `insert_overwrites`, `selects_nothing`, `join_labels`, `permanent_remains` | does the code do what its comments, help and guide say? | violated, see Findings |

### Bounds

**Hash tables.** What goes wrong in a chain involves a deleted node, a node in
front of it that its `previous` pointer misses, a node the pointer names instead,
and a node behind: four keys, three in one bucket.  A table of two buckets shows
that nothing leaks to another bucket.  A second copy can only be that of a head,
and `MaxOwed = 2` admits it; three would repeat it.

**Tuples.** Three slots let an update append to a file that still holds an unread, a
deleted and a kept tuple.  `MaxSlots` bounds the file; the guard `Free` refuses an
operation that might need more room.  A hash file
has up to three nodes in one bucket and one in the other, and can end after any of them.  Different
tuples have different texts in the instances; that two may have the same, when an
insertion is refused without need and a compaction keeps one row of two, is left to
the proofs.

**Catalogue.** The list is sorted by name and the closing walk goes along it, so what
counts is whether a relation stands in front of leaprel or behind it: a and m.
`_temp` is the name rl_compact uses for its copy.  A change of a relation makes a new
version (`MaxMade = 2`), which is enough for a hash file of an older one.
`MaxFaults = 1`: one process dies or is told to stop between two writes; the sessions
in front of it and behind it are unbounded, so that repairs, and what goes wrong
because of them, are met.

**Sessions.** `MaxTyped = 3` lines in a session suffice for changing to a database,
changing something there, and leaving; scripts come on top.  Two sessions
(`MaxSessions`) let the second meet what the first left, in files and in a recorded
script of one line (`MaxRecorded`).  The table of variables has two or three entries
in place of 25 (`VARIABLE_NUMBER`), with `currentdb` first, in the middle, at the end
and missing.

**Queries.** The walk over the tree distinguishes a node with one operand, with two, and
a leaf, each on the left or the right of another: trees of three operations have them
all.  Two queries (`MaxQueries`) let the second read what the first left: its answer by
name or as `@last`, a wreck, or a relation it created and did not answer.  The relations
include two tuples with one text, (a, bc) and (ab, c), values too wide for another
relation's attributes, numbers, an empty relation, and a relationship.  The texts have
nested brackets, linked conditions, spaces where they make a difference, operands
without brackets, and conditions that cannot be read.  The main run takes `within` to be
empty; `join_labels` gives it a pair.  The limit of 64 attributes is not reached, nor is
the end of the table of brackets.

`CHECK_DEADLOCK FALSE` stands in the configurations of `Query` and `Session` only: when the
queries that may be asked, or the sessions, are used up, nothing follows.

Properties violated by slips: next to the definitions stand operators commented
as `Mutant`.  They are plausible slips of the definition they precede, used to
confirm that each property notices one.

### Fairness

Three runs assume any, and only that the program's own steps go on.  LEAP is one thread
that waits for nothing but its input.

  * `tuple_store_live`: weak fairness of `ScanStep`, that a running operator takes its
    next step.  Nobody is made to open a relation or to issue a command, and the
    process may still die.
  * `query`: the rounds of `Parse` and `Execute`, which are loops of the same thread, go
    on; nobody is made to ask.
  * `session`: weak fairness of `Own`, the program's steps.  Typing, connecting, hanging
    up, signals, crashes and starting the program again are not in it.  Scripts may
    source one another, or change to databases whose scripts do, for ever; `PromptReturns`
    is therefore stated for scripts that are `Straight`.

## Findings

  * `hash_forgets` (hashing.c:195, :287).  Insert b, insert a, delete b: `b->previous`
    is still NULL although a now precedes it, so `hashing_delete` takes b for the
    head and drops a.  a is then not found, and the same tuple is accepted twice.
    With three keys the deletion can instead write through freed memory.
  * `insert_overwrites` (tuples.c:2086).  `fseek(f, 0, last_deleted)` has its arguments
    exchanged.  After a deletion the next insertion goes over the first tuple.
    Observed with the built program in the same order of commands.
  * `selects_nothing` (rtional.c:1523).  A selection from an empty relation returns no
    relation, against the guide's closure; the operation above it runs without an
    operand.  `q7=project (select (e) (x="z")) (x)` then leaves a wreck named q7, and
    the next query on q7 ends the process (observed).
  * `join_labels` (rtional.c:1217).  `strstr` finds the attribute id in the key fid: the
    header keeps fid and loses id, the tuples keep id's value and lose fid's (observed).
  * `permanent_remains` (relation.c:1163; help/helppgs:376-378).  Renaming moves the
    files and the name in memory, but not the row in leaprel.  The next session finds no
    file for the row, deletes it, and does not load the relation (observed).

### Seen without a run of their own

Met in the models or in the code, and observed with the built program where it says so
(what follows a mark `observed` at the head of a paragraph was, except where it says not).

Hash tables and operators: the key of the head of a chain is linked again when it is
inserted again (hashing.c:186), although the comment says it is disposed of; the flag by
which build_hash_table asks for its table to be saved is cleared by its caller
(relation.c:714); intersection answers a tuple that only one operand has when the other
has one of the same text (rtional.c:864); union compatibility counts attributes and
compares neither names nor types (rtional.c:685), where the guide asks for their names,
so that a union of strings with numbers can hold a tuple twice (observed); a product of a
product repeats attribute names; a join with a bad condition answers an empty relation
and a selection answers none; `@last` names leaprel after a query that creates a relation
and answers none (observed).

Catalogue (observed): a compaction leaves the row `_temp` in leaprel, and the relation is
gone after a restart; a compaction while a relation `_temp` exists ends the process; a
temporary relation deleted at closing, after leaprel's table was saved, leaves its row
in that table, so that a later relation of the name is lost; a wreck made permanent ends
each process that opens the database; renaming to an existing name overwrites its file; a
process killed after it added a tuple, followed by an orderly session that adds another,
loses the row of the relation.  In the code only: result relations named at random stay
as files when temporary relations are off.

Sessions: `create` of an existing database empties its dictionary; the end of
the input while a script is recorded ends the process by a fault (observed); with an unknown database
after `-database` leap leaves without closing the others (observed); a database whose leaprel is
empty opens without its dictionary relations; leaving leap with master current skips the
closing (leap.c:354), so that hash files become stale and a relation is lost two sessions
later (observed); leapd announces startup.src and never reads it, and repeats the last command of a
client that hung up.

Texts (observed): `( ax = ay )`, which the guide writes, fails for the space in front of
the bracket; `x = print aa` reads relation t, for the space behind the sign;
`select (aa) ((ax='b) and (ay='c'))` ends the process; `select (r) (c1) and (c2)` uses
only c1; `project (aa) ( ax, ay)` answers only ax and `project (aa) (ax ,ay)` an empty
result; xor is accepted and does nothing.

## Proofs

`HashTableProofs` first proves what each operation does to one chain, for every set of
natural numbers as keys: `InsertLinks`, `InsertLinksBack`, `InsertAtEnd`,
`DeleteLinks`, `DeleteExactly`, `LoadLinks`.  It rests on a few lemmas about
greatest elements (`LeastNatural` from the well-foundedness of `<`, `MaxBelow`).

`HashLedgerProofs` proves the five properties that `hash_ledger` checks (`TypeCorrect`,
`NoPhantom`, `NoneForgotten`, `TidySafe`, `LossInFront`), and that the head
of a chain has no predecessor (`FirstInFront`), for every set of keys, every number of
buckets, every hash function and every bound.  The inductive invariant `LedgerInv` adds
to the type and the stated properties:

  * `PointersBack`: a `previous` that is not stale names a node in front, and the
    first node has none.  Without it nothing bounds what a deletion unlinks, and
    `FirstHasNoPrevious` is not inductive: deleting the head makes the follower's
    pointer the head's.
  * `TidyIsExact`: in a tidy table `previous` is the predecessor and the account is
    the number of nodes.  `TidyIsSafe` and half of `NothingForgotten` need both.
  * `PristineIsWhole`: the other half.

Each of `OpenedStep`, `InsertStep` and `DeleteStep` shows that an action keeps the
invariant; `LedgerInvInductive` combines them, and the theorems follow.  The
assumptions are those of the modules: keys are numbers in `strcmp` order, `hash` is a
function to buckets, and the marks NULL, Stale, NoTable, Wild and NoFile are no keys,
nodes or tables.

### ChainHeap

`ChainHeapProofs` proves both properties that `chain_heap` checks, for any keys and any
finite memory: that the nodes are walked in order (`ChainStaysInOrder`), and that
the pointer code implements `HashTable` (`ChainIsTable`).  With the second, what is proved
of keys and links holds of nodes and addresses.  The inductive invariant `HeapInv`
(`ChainHeapInvariant`) says of the nodes of the walk that

  * `Joined`, `Ascending`: they are joined from the head to NULL, each met once, and their
    keys ascend;
  * `LooksBack`: a `previous` that names one of them names one in front, and that is the
    rearmost of its key.  A deletion makes `previous->next` point past the deleted node;
    without this it could close the chain to a ring, or cut between two nodes of one
    key, which a bucket of `HashTable` cannot express;
  * the first has no `previous`, and what is on disk is in order and fits into memory.

`WalksAreDefined` and `LoadsAreDefined` show that the two recursions, along the chain and
through the file, have solutions (a least length without one cannot exist), and `WalkIs`
that a sequence of joined nodes is the walk.  For insertion, `InsertSplices` shows where the
node comes to stand: behind all smaller keys and in front of all others, or nowhere when its
key is in the chain but not at the head. `SplicedChain` then shows that the chain
remains one, and `SplicedBucket` that it is the bucket of `hashing_insert`.  For deletion `DeleteIs`
reduces the three cases of the code to one, the nodes after a place `j` up to a place `i` are
cut out; `CutChain` and `CutBucket` are its two halves, and `LeakDangles` the case that
`HashTable` calls undefined: a `previous` that names a node cut out before, so that the
pointer in front still leads to the node that is freed.  `SaveMaps` and `LoadMaps` do the file, the latter by
the least place of the file at which the heap and the bucket would differ.  The assumptions
are that memory is finite, that keys are numbers in `strcmp` order, and that the marks are
none of the things they are told apart from.

### TupleStore

`HashTableProofs` also lifts the lemmas on chains to the table and its file (`InsertedKeys`,
`DeletedKeys`, `LoadedLinked`, `SavedKeys`, ...), so that nothing above it opens a bucket.
`TupleStoreProofs` then proves every property `tuple_store` checks, the three action
properties and the refinement included, and `EraseIsExact`, for any tuples, readings, texts, conditions, assignments and hash
function. `StoreInv` is the type, the stated invariants, and

  * `LinksOK`: no `previous` leads forward, in the relation's table and in that of its
    copy, which is what the lemmas on the table ask for;
  * `ControlOK`: which operation leaves which variables at rest; in particular a table
    that is not read yet has a hash file, and a `Wild` one has been changed and is
    recorded as damage;
  * `IndexOK`: while the index is `Sound` each key has one node, so that deleting a tuple
    deletes its key; and a hash file that would be trusted again holds what the table
    holds.  `IndexCovers` and `IndexExact` speak of the table and need both;
  * `EraseOK`, `UpdateOK`: what the slots that the scan has passed hold, and that an update
    with a tuple in its hands stands on the slot it took it from;
  * `UpdateMeans`: nothing is in the file but tuples of the old relation still to be read or
    not chosen, and images of those that were; and while nothing is damaged every tuple of
    the old relation is still to be read, or its image is stored or pending. This is where
    an update that appends to the file it reads could go wrong, and `UpdateExact` is its
    last instance;
  * `CompactOK`: the copy holds the texts read so far, once each, also when the relation
    itself holds a text twice.

`AssignmentAssumption` says that the values of an update are constants: applied to its own
result an update changes nothing. Without it `UpdateExact` is false, since the appended
tuples are matched again; the parser of set strings admits nothing but constants.
`TupleAssumption` says that reading a tuple back twice is reading it once, which holds of
cutting a string and of converting a number.  `Malformed`, the mark of a set string that
cannot be read, is assumed to be no function on tuples.

`StoreIsSet` is the refinement, `StoreSpec => ImplementsSet`.  The initial states agree, and
one lemma for each group of actions shows that a step is one of `RelationSet` or leaves its
variables as they are: `LifeMaps` (opening, closing), `InsertMaps`, `BeginMaps`, `ScanMaps` (a
slot is passed: at most the trust changes), `EraseMaps`, `UpdateMaps`, `CompactMaps` (the
ends of the operators) and `CrashMaps`; `StepMaps` combines them.  They take from `StoreInv` what
the scan has done so far, whatever the damage, and need one invariant more, `Untouched`: a
running compaction has changed nothing in the relation's own file, and an update with a
malformed set string nothing before it fails.

### Session

`VariablesProofs` proves what `set_variable`, `resolve_variable` and `init_variables` do,
for tables of any length: the entry that is found is the one set last unless it is in
the first place, and no other is touched.  `init_variables` is a recursive function over
the lines of a file; what is needed of it, that it never leaves more variables than there
is room for and that they are well formed, is proved by the least index at which it would fail.

`SessionProofs` proves the four invariants `session` checks, for any databases, scripts,
commands, number of sessions and both programs. `SessionInv` is `SessionType` and

  * `DiskOK`: a database that is not in doubt is open in one slot at most, and as good as
    its handle: what its hash files were not told of the handle's table was, and the handle
    is marked for saving (`HandleFits`); one that is not open is in order on disk.  The
    database a `create` is filling counts as in doubt (`Creating`).  `OrderlyClose` follows,
    since the program is down only with no handle.  It says nothing of databases in doubt:
    opened twice at a time, created anew over an old one, killed in their creation, or
    changed by a process that died, for which making a temporary relation, or opening a
    database beside tempdb, is enough;
  * `PhaseOK`: which handles exist in which phase, that `tempdb` and `master` hold the
    databases of these names, and that nothing is changed before the third is open.  It
    also says when `current` may survive the first step of closing, which is how
    leap.c:354 leaves a database in doubt;
  * `ToldOK`: `CurrentdbTold` in all phases between the telling and the next change;
  * `CountOK`: `OpenScriptOnce` in all phases.

`CommandAssumption` says that scripts are made of commands and that users do not set
`currentdb` (see Not modelled); `NullAssumption` that the marks for no handle and no table are
neither.

### Catalogue

`CatalogueProofs` proves every property `catalogue` checks, the three action properties
included, for any set of names and any order of them, any number of versions, sessions
and interruptions.  None of the five invariants is inductive, since an operation touches
list, file, hash file and leaprel one after the other. `CatalogueInv` says, for each step
an operation can be at, which of them is ahead:

  * `OpOK`: what the operation in hand has done.  While `op.at` is `"row"` or `"link"` there is
    a file and no handle; at `"attributes"` and `"header"` there is a handle and a file that
    is not whole; a relation being removed has left the list.
  * `CompactOK`: `rl_compact` runs three of the others; it says that its copy is `_temp` and
    that both files exist until the copy has been moved.
  * `NamesOK`, of each name that was not renamed: it is listed once (`Once`), since the list
    is searched by name and only the first is found; its row is on the way or there
    (`RowsOK`), which gives `Catalogued` and `NoStrayRows`; its file exists (`FilesOK`); handle
    and file agree on its status, and a temporary file has a handle that the closing walk
    has still to come to (`StatusOK`), which gives `NothingTemporaryStays`; its table and its
    hash file are of the tuples in the file, or the hash file is `Awaited`: the walk will
    write or remove it (`HashOK`), which gives `HashesFit`.
  * `OpeningOK`: while leaprel is read, its rows are those of the relations that were opened
    and of those still `pending`, which is `OpeningRepairs` when none is.
  * `KeptOK`: rows and files of what the last session kept stay until they have been read,
    for `PermanentStays`.  What is kept is what leaprel has rows of: a process that dies within
    an update of leaprel, the one closing begins with among them, may have deleted a row and
    not appended its image, and the relation of that row is not counted.
  * `WreckOK`: without an interruption and a refused operation a file with a header only is
    in the hands of an operation, for `OpeningDiesOfWrecks`.
  * `ClosedOK`: no list between two sessions.

TLC checked the invariant on small instances before it was proved.  `RowsOK` leans on
`DictionaryOK`, in `CatalogueType`: the row in the first slot, which an append may overwrite,
is of a relation that is not finished.  The lemmas on `Dictionary` (what each command does to the rows and to what
its table knows) and on lists (`InsertedAt`, `ListedNames`, ...) come first; there is
one lemma for each action, and `CatalogueInvariant` combines them.

It rests on `NameAssumption` (`leaprel` and the mark for no name are no user's relation, and
`_temp` is a name a user could give), `MadeAssumption` (the bounds are numbers) and
`MarkAssumption` (no file and no table are neither files nor versions).  That names have an
order is not used: these properties do not depend on where the walk meets a relation.

### Query

`QueryProofs` proves what depends on the walks and not on what the text says, for any
queries and trees of any size: `StackIsPath`, `RelationsKept`, and `EachNodeOnce` as long as
the text is read as it was meant, which is `ReadAsWritten` and remains checked (the parser
takes each node of the tree it reads once; that this tree is the query's is about texts).
`WalkInv` says for each of the two loops where it is:

  * `Walked`, while a tree is parsed: it is closed upwards and its pointers are right
    (`Tree`); a node whose right side is open is above the cursor, which is to its left, and its
    right child has not been read; every other node but the cursor has been read and has
    marks that agree with its operation (`Entered`).  `Turned` shows that each round
    keeps this, also when the parser climbs past several nodes (`ClimbedTo`), and reads
    exactly one node; at the end nothing is open, so everything has been read.
  * `Running`, while it is executed: `Tree`, every node has an operation, and a node that has
    only its right operand left has the cursor there or below. `Descends` shows that the
    way down to the left ends (by the pigeonhole principle, since a tree is finite) at a
    node with no operands left, and `HandsUp` that the node on top of the stack is then its
    parent.

`OnceInv` adds the counts: what has been parsed is what the parser has been to, and what
has been executed is what has left the tree; `WholeTree` compares the parse tree with the
query's. `RelationsKept` rests on one lemma for each operator, that what it creates has the
name it was to have and only if that was free.  `TreeAssumption` says that the trees of the
queries that may be asked are trees; TLC evaluates it.

### Only model-checked

Of `Query`, what the cutting of the text and the
operators compute, which are folds over data (`ReadAsWritten`, `AnswerIsAlgebra`,
`DeathNeedsWreck`, and `TypeOK` and `LastIsWhole`, which say that written relations can be
read back); and liveness: `ScanEnds`, `EveryQueryEnds` and `PromptReturns` and the fairness
they rest on.

## Not modelled, and the plan

Not modelled:

  * **Code outside the build**: relational_ops.c, attributes.c, pointer_stack.c,
    orig_parser.c, algebra_parser.c, global_vars.c, parse/, winleap/, convert.c.
  * **Wording**: printing, help, messages, dumprel, printrelinfo, source listings.
  * **Front ends**: long lines, passwords, `-configure`, `create master`, the options
    besides the database, `set currentdb` by a user, and the status flags some
    variables stand for.
  * **Attributes and dictionary**: descriptions of attributes, the rows of leapattributes,
    renaming an attribute, reverse engineering.
  * **Queries and conditions**: LIKE and `~` with the vendored regexp.c, booleans, case
    (`status_case`), searches that run off the table of brackets, names padded with the
    relation's (off by default), the limit of 64 attributes, natjoin with a condition
    (which reads uninitialised memory), collisions of random names, and the relations
    that get_keys' own query leaves.

Left for later: attributes, their rows in leapattributes beside the header of the file.
