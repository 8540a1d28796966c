-------------------------------- MODULE Session --------------------------------
(***************************************************************************)
(* A session of leap, the program at a terminal (src/src/leap.c), or of     *)
(* leapd, the daemon (src/src/leapd.c): opening the three databases,        *)
(* reading commands from scripts, from the terminal or from a client,       *)
(* changing and creating databases (src/src/database.c, src/src/dbase.c),   *)
(* recording scripts, and closing, by a command, by a signal, or not at     *)
(* all; and the sessions after it.                                          *)
(*                                                                          *)
(* Of a database only this is followed: whether it can be opened, whether   *)
(* the hash files were told of every tuple in the relation files, and       *)
(* whether leaprel names temporary relations (Catalogue looks inside).      *)
(* `change' stands for any command that changes a permanent relation of the *)
(* current database, `make' for one that makes a temporary relation.  That  *)
(* changes leaprel and leapattributes, which are permanent, of the database *)
(* it is made in: the results that queries number themselves are made in    *)
(* tempdb, as status_tempdb has it.  The command that renames a relation,   *)
(* and leaves the row of the old name behind, is left out: Catalogue has it.*)
(*                                                                          *)
(* A process that is killed within one of the steps leaves, of what is told *)
(* apart here, what it would leave before the step or after it.             *)
(***************************************************************************)
EXTENDS Variables, FiniteSets

CONSTANTS Master, Tempdb, DefaultDb,
          Databases,     \* the names databases can have
          Recordable,    \* the scripts a user can record; `open' and `startup' are there
          Settable,      \* the variables a user sets: currentdb is not one of them
          Typed,         \* the commands that are typed, or sent by a client
          Configs,       \* what the file of variables can be
          Asked,         \* the databases asked for on the command line
          Startups,      \* what startup.src can be at first, or NoFile
          Opens,         \* what open.src of the default database can be at first
          NoFile, NoTable,
          MaxRecorded,   \* bound: the lines of a recorded script
          MaxTyped,      \* bound: the commands that are typed or sent in all
          MaxSessions    \* bound: the sessions

ASSUME DatabaseAssumption == {Master, Tempdb, DefaultDb} \subseteq Databases
ASSUME BoundAssumption == MaxRecorded \in Nat /\ MaxTyped \in Nat /\ MaxSessions \in Nat

VARIABLES program,      \* "leap" or "leapd"
          phase,        \* where it is
          dbtoopen,     \* the database of the command line, or the default one
          handles,      \* current_db, master_db and tempdb
          disk,         \* what is on disk of each database
          scripts,      \* the scripts in its source directory
          registry,     \* the rows of leapdata, and whether there is leaplogins
          input,        \* where commands come from, and the lines left of a script
          startscript,  \* how many of the two scripts of the startup have ended
          recording,    \* the script being recorded, or NULL
          line,         \* the command in the buffer
          variables,    \* the table of variables
          past          \* history: see History

vars == <<program, phase, dbtoopen, handles, disk, scripts, registry, input,
          startscript, recording, line, variables, past>>

store   == <<disk, scripts, registry>>
reading == <<input, startscript, recording>>
fixed   == <<program, dbtoopen>>

-------------------------------------------------------------------------------
ScriptNames == Recordable \cup {"open", "startup"}

Commands == [do : {"use", "create"}, of : Databases]
            \cup [do : {"source"}, of : ScriptNames]
            \cup [do : {"record"}, of : Recordable]
            \cup [do : {"set"}, of : Settable]
            \cup [do : {"change", "make", "exit", "terminatenow", "stop", "nothing"},
                  of : {NULL}]

\* A command without effect; `version', for one.
Nothing == [do |-> "nothing", of |-> NULL]

\* The lines of a script, as far as scripts differ here.
IsScript(s) == \A i \in DOMAIN s : s[i] \in Commands

ASSUME CommandAssumption == /\ Typed \subseteq Commands
                            /\ \A s \in Startups \cup Opens : s = NoFile \/ s \in Seq(Commands)
                            /\ Asked \subseteq Databases /\ Databases \subseteq STRING
                            /\ Configs \subseteq Seq([name : STRING, value : STRING])
                            /\ "currentdb" \notin Settable

Slots == {"current", "master", "tempdb"}

\* Whether the hash tables of a database's relations, or the hash files, were told of
\* every tuple in the relation files, or may lack one.  They may have more: what chains
\* forget is HashTable's matter, and keys without a tuple Catalogue's.
Fit == {"covers", "lacks"}

Handle == [db : Databases, loaded : BOOLEAN, table : Fit \cup {NoTable},
           updated : BOOLEAN, temps : BOOLEAN]

ASSUME NullAssumption == NULL \notin Handle /\ NoTable \notin Fit

\* leaprel is not there, does not name the dictionary's relations yet, or is complete.
Database == [leaprel : {"none", "empty", "good"}, index : Fit, temps : BOOLEAN]

\* Databases opened in this session, and those whose hash files nobody answers for any
\* more; how often open.src of the current database has been begun, and whether the
\* database was chosen before the startup was over; how the last session ended.
History == [opened : SUBSET Databases, doubtful : SUBSET Databases, ran : 0 .. 2,
            early : BOOLEAN, typed : 0 .. MaxTyped, sessions : 0 .. MaxSessions,
            left : {"closed", "signal", "refused", "died"}]

Phases == {"down", "tempdb", "master", "current", "starting", "accept", "reading",
           "doing", "use close", "use open", "use tell", "create row", "create fill",
           "create close", "create check", "close current", "close master", "close tempdb"}

TypeOK ==
    /\ program \in {"leap", "leapd"}
    /\ phase \in Phases
    /\ dbtoopen \in Databases
    /\ handles \in [Slots -> Handle \cup {NULL}]
    /\ disk \in [Databases -> Database]
    /\ \A d \in Databases, s \in ScriptNames : scripts[d][s] # NoFile => IsScript(scripts[d][s])
    /\ registry \in [databases : SUBSET Databases, logins : BOOLEAN]
    /\ input.from \in {"stdin", "script", "client", "gone"} /\ IsScript(input.rest)
    /\ startscript \in 0 .. 1
    /\ recording = NULL \/ (recording.db \in Databases /\ IsScript(recording.lines))
    /\ line \in Commands
    /\ IsTable(variables)
    /\ past \in History

-------------------------------------------------------------------------------
\* Handles and disks.

current == handles["current"].db

\* relations_ddopen.  The rows of relations that are not there go; the hash files need
\* not know.
Opened(d) == [db |-> d, loaded |-> disk[d].leaprel = "good", table |-> NoTable,
              updated |-> FALSE, temps |-> disk[d].temps]

Noted(d) == [past EXCEPT !.opened = @ \cup {d},
                         !.doubtful = IF d \in past.opened /\ \E s \in Slots :
                                            handles[s] # NULL /\ handles[s].db = d
                                      THEN @ \cup {d} ELSE @]

\* What a handle's table is once a relation is changed through it.
TableOf(h) == IF h.table = NoTable THEN disk[h.db].index ELSE h.table

\* The tables that were read of a database lack what somebody else writes to it.
Missing(hs, d) ==
    [s \in Slots |-> IF hs[s] # NULL /\ hs[s].db = d /\ hs[s].table # NoTable
                     THEN [hs[s] EXCEPT !.table = "lacks"] ELSE hs[s]]

\* Permanent relations are changed through a handle: its own table follows them, the
\* hash file and the tables of other handles do not.
Changed(hs, slot) ==
    [Missing(hs, hs[slot].db) EXCEPT
         ![slot] = [hs[slot] EXCEPT !.table = TableOf(hs[slot]), !.updated = TRUE]]

Change(slot) == /\ disk' = [disk EXCEPT ![handles[slot].db].index = "lacks"]
                /\ handles' = Changed(handles, slot)

\* relation_create: where a result goes that has no name of its own.
Home(hs, slot) == IF hs[slot].db = Tempdb THEN slot ELSE "tempdb"

\* A temporary relation is made through a handle, and has its rows in the dictionary.
Make(hs, slot) ==
    /\ disk' = [disk EXCEPT ![hs[slot].db].index = "lacks", ![hs[slot].db].temps = TRUE]
    /\ handles' = [Changed(hs, slot) EXCEPT ![slot].temps = TRUE]

\* Reading leaprel for relations_ddopen is a query, and has a result.
Open(slot, d) == LET hs == [handles EXCEPT ![slot] = Opened(d)]
                 IN  Make(hs, Home(hs, slot))

\* relations_dispose_all: tables of updated relations are saved, leaprel's among them
\* before the rows of the temporary relations are deleted that come later; that leaves
\* keys without a tuple in its hash file.  A database that is not there is accepted.
\* Mutant: every table is saved, whether it was read or not.
DisposedAlways(dk, h) ==
    IF h = NULL THEN dk
    ELSE [dk EXCEPT ![h.db].index = h.table,
                    ![h.db].temps = @ /\ ~h.temps]

Disposed(dk, h) ==
    IF h = NULL THEN dk
    ELSE [dk EXCEPT ![h.db].index = IF h.updated THEN h.table ELSE @,
                    ![h.db].temps = @ /\ ~h.temps]

\* assign_input_stream.  leapd never reads from the stream.
InputFrom(d, s) ==
    IF program = "leapd" THEN input
    ELSE IF scripts[d][s] = NoFile THEN [from |-> "stdin", rest |-> <<>>]
    ELSE [from |-> "script", rest |-> scripts[d][s]]

\* The loop of the program goes on.  leap looks at its buffer again only when it has
\* read the next command into it.
Again == /\ phase' = "reading"
         /\ line' = IF program = "leap" THEN Nothing ELSE line

-------------------------------------------------------------------------------
\* The startup.

Start(p, d, config) ==
    /\ phase = "down" /\ past.sessions < MaxSessions
    /\ program' = p /\ dbtoopen' = d
    /\ phase' = "tempdb"
    /\ variables' = init_variables(config)
    /\ past' = [past EXCEPT !.opened = {}, !.left = "closed", !.sessions = @ + 1]
    /\ UNCHANGED <<handles, store, reading, line>>

\* The database that is being created is open besides those with a handle here.
Creating == IF phase = "create close" THEN {line.of} ELSE {}

\* The process ends without closing anything.  What the open tables knew better than
\* the hash files is lost.
Lost == {handles[s].db : s \in {t \in Slots : handles[t] # NULL /\ handles[t].updated}}
        \cup Creating

Ended(left, doubtful) ==
    /\ phase' = "down"
    /\ handles' = [s \in Slots |-> NULL]
    /\ input' = [from |-> "stdin", rest |-> <<>>]
    /\ recording' = NULL
    /\ startscript' = 0
    /\ line' = Nothing
    /\ variables' = <<>>
    /\ past' = [past EXCEPT !.left = left, !.doubtful = @ \cup doubtful, !.ran = 0,
                            !.early = FALSE,
                            !.opened = IF left \in {"closed", "signal"} THEN @ ELSE {}]
    /\ UNCHANGED <<fixed, registry>>

Die == Ended("died", Lost) /\ UNCHANGED <<disk, scripts>>

\* A database without leaprel is a fatal error at the startup: exit, and no more.
OpenNext(slot, d, next) ==
    /\ phase = slot
    /\ IF disk[d].leaprel = "none"
       THEN Ended("refused", Lost) /\ UNCHANGED <<disk, scripts>>
       ELSE /\ Open(slot, d)
            /\ past' = Noted(d)
            /\ phase' = next
            /\ UNCHANGED <<fixed, scripts, registry, reading, line, variables>>

OpenTempdb  == OpenNext("tempdb", Tempdb, "master")
OpenMaster  == OpenNext("master", Master, "current")
OpenCurrent == OpenNext("current", dbtoopen, "starting")

\* leap begins with startup.src of master; leapd makes leaplogins if there is none,
\* and waits for a client.
Startup ==
    /\ phase = "starting"
    /\ variables' = set_variable(variables, "currentdb", current)
    /\ input' = InputFrom(Master, "startup")
    /\ IF program = "leap"
       THEN Again /\ UNCHANGED <<disk, handles, registry>>
       ELSE /\ phase' = "accept" /\ UNCHANGED line
            /\ registry' = [registry EXCEPT !.logins = TRUE]
            /\ IF registry.logins THEN UNCHANGED <<disk, handles>> ELSE Change("master")
    /\ UNCHANGED <<fixed, scripts, startscript, recording, line, past>>

-------------------------------------------------------------------------------
\* Reading a command.  What leap reads while it records goes to the script.

Recorded(lines) == [scripts EXCEPT ![recording.db][recording.name] = lines]

Read(l) ==
    IF recording # NULL /\ program = "leap"
    THEN /\ IF l.do = "stop"
            THEN scripts' = Recorded(recording.lines) /\ recording' = NULL
            ELSE /\ recording' = [recording EXCEPT !.lines = Append(@, l)]
                 /\ UNCHANGED scripts
         /\ UNCHANGED <<phase, line>>
    ELSE /\ line' = l
         /\ phase' = "doing"
         /\ UNCHANGED <<scripts, recording>>

Counted == past.typed < MaxTyped /\ past' = [past EXCEPT !.typed = @ + 1]

AtPrompt == phase = "reading" /\ program = "leap" /\ input.from = "stdin"

ReadTyped(l) ==
    /\ AtPrompt
    /\ recording # NULL /\ Len(recording.lines) = MaxRecorded => l.do = "stop"
    /\ Read(l) /\ Counted
    /\ UNCHANGED <<fixed, handles, disk, registry, input, startscript, variables>>

InScript == phase = "reading" /\ input.from = "script"

ReadScript ==
    /\ InScript /\ input.rest # <<>>
    /\ Read(Head(input.rest))
    /\ input' = [input EXCEPT !.rest = Tail(@)]
    /\ UNCHANGED <<fixed, handles, disk, registry, startscript, variables, past>>

\* The end of a script.
\* Mutant: the startup is never over.
NextInputAgain ==
    /\ InScript /\ input.rest = <<>> /\ recording = NULL
    /\ IF startscript = 0
       THEN /\ input' = InputFrom(current, "open")
            /\ past' = [past EXCEPT !.ran = IF @ < 2 THEN @ + 1 ELSE @]
       ELSE input' = [from |-> "stdin", rest |-> <<>>] /\ UNCHANGED past
    /\ UNCHANGED <<fixed, phase, handles, store, startscript, recording, line, variables>>

\* After startup.src, or the script it has changed to, open.src of the current
\* database is next, and then the terminal.
NextInput ==
    /\ InScript /\ input.rest = <<>> /\ recording = NULL
    /\ IF startscript = 0
       THEN /\ input' = InputFrom(current, "open")
            /\ startscript' = 1
            /\ past' = [past EXCEPT !.ran = IF @ < 2 THEN @ + 1 ELSE @]
       ELSE /\ input' = [from |-> "stdin", rest |-> <<>>]
            /\ UNCHANGED <<startscript, past>>
    /\ UNCHANGED <<fixed, phase, handles, store, recording, line, variables>>

\* While it records, leap looks at the first character of what fgets returned; at the
\* end of a file that is NULL.
RecordingDies ==
    /\ InScript /\ input.rest = <<>> /\ recording # NULL
    /\ Die

InputEndsRecording == AtPrompt /\ recording # NULL /\ Die

\* leapd: a client is let in; until it sends something the buffer says `version'.
Accept ==
    /\ phase = "accept"
    /\ input' = [input EXCEPT !.from = "client"]
    /\ line' = Nothing
    /\ phase' = "reading"
    /\ UNCHANGED <<fixed, handles, store, startscript, recording, variables, past>>

ReadClient(l) ==
    /\ phase = "reading" /\ input.from = "client"
    /\ line' = l
    /\ phase' = "doing"
    /\ Counted
    /\ UNCHANGED <<fixed, handles, store, reading, variables>>

\* The client goes.  read returns nothing, the buffer is as it was, and the command in
\* it is executed again, until a write finds the socket closed: SIGPIPE.
HangUp ==
    /\ phase = "reading" /\ input.from = "client"
    /\ input' = [input EXCEPT !.from = "gone"]
    /\ UNCHANGED <<fixed, phase, handles, store, startscript, recording, line,
                   variables, past>>

ReadNothing ==
    /\ phase = "reading" /\ input.from = "gone"
    /\ phase' = "doing"
    /\ UNCHANGED <<fixed, handles, store, reading, line, variables, past>>

BrokenPipe ==
    /\ phase \in {"reading", "doing"} /\ input.from = "gone"
    /\ Die

-------------------------------------------------------------------------------
\* The commands.

Doing(what) == phase = "doing" /\ line.do = what

DoNothing ==
    /\ Doing("nothing") \/ Doing("stop")
    /\ Again
    /\ UNCHANGED <<fixed, handles, store, reading, variables, past>>

DoSet ==
    /\ Doing("set")
    /\ variables' = set_variable(variables, line.of, "set")
    /\ Again
    /\ UNCHANGED <<fixed, handles, store, reading, past>>

DoSource ==
    /\ Doing("source")
    /\ input' = InputFrom(current, line.of)
    /\ Again
    /\ UNCHANGED <<fixed, handles, store, startscript, recording, variables, past>>

\* start_record adds a row to leapscripts, or its insertion changes leaprel only, and
\* empties the file.  In leapd, which goes on executing, the next `record' stops.
DoRecord ==
    /\ Doing("record")
    /\ IF recording = NULL
       THEN /\ recording' = [db |-> current, name |-> line.of, lines |-> <<>>]
            /\ scripts' = [scripts EXCEPT ![current][line.of] = <<>>]
            /\ IF handles["current"].loaded THEN Change("current")
               ELSE UNCHANGED <<disk, handles>>
       ELSE /\ recording' = NULL
            /\ UNCHANGED <<scripts, disk, handles>>
    /\ Again
    /\ UNCHANGED <<fixed, registry, input, startscript, variables, past>>

DoChange ==
    /\ Doing("change")
    /\ Change("current")
    /\ Again
    /\ UNCHANGED <<fixed, scripts, registry, reading, variables, past>>

\* A result with a name is made in the current database.
DoMake ==
    /\ Doing("make")
    /\ \E slot \in {"current", Home(handles, "current")} : Make(handles, slot)
    /\ Again
    /\ UNCHANGED <<fixed, scripts, registry, reading, variables, past>>

\* leapd takes `exit' for the end of its client.
DoExit ==
    /\ Doing("exit") \/ Doing("terminatenow")
    /\ phase' = IF program = "leapd" /\ line.do = "exit" THEN "accept" ELSE "close current"
    /\ UNCHANGED <<fixed, handles, store, reading, line, variables, past>>

-------------------------------------------------------------------------------
\* use: change_db.

UseCurrent ==
    /\ Doing("use") /\ line.of = current
    /\ Again
    /\ UNCHANGED <<fixed, handles, store, reading, variables, past>>

\* leapdata is asked for the database, by two queries; no reply is an error.
UseAsk ==
    /\ Doing("use") /\ line.of # current
    /\ Make(handles, Home(handles, "master"))
    /\ IF line.of \in registry.databases THEN phase' = "use close" /\ UNCHANGED line
       ELSE Again
    /\ UNCHANGED <<fixed, scripts, registry, reading, variables, past>>

CloseCurrent(next) ==
    /\ disk' = Disposed(disk, handles["current"])
    /\ handles' = [handles EXCEPT !["current"] = NULL]
    /\ phase' = next
    /\ UNCHANGED <<fixed, scripts, registry, reading, line, variables, past>>

\* Mutant: the old database is forgotten, not closed.
UseForgets ==
    /\ phase = "use close"
    /\ handles' = [handles EXCEPT !["current"] = NULL]
    /\ phase' = "use open"
    /\ UNCHANGED <<fixed, disk, scripts, registry, reading, line, variables, past>>

UseDispose == phase = "use close" /\ CloseCurrent("use open")

\* Nobody asks whether the database could be opened.
UseOpen ==
    /\ phase = "use open"
    /\ Open("current", line.of)
    /\ past' = [Noted(line.of) EXCEPT !.ran = 0, !.early = startscript = 0]
    /\ phase' = "use tell"
    /\ UNCHANGED <<fixed, scripts, registry, reading, line, variables>>

\* Mutant: the script of the new database is left for the end of the input.
UseTellOnly ==
    /\ phase = "use tell"
    /\ variables' = set_variable(variables, "currentdb", current)
    /\ Again
    /\ UNCHANGED <<fixed, handles, store, reading, past>>

UseTell ==
    /\ phase = "use tell"
    /\ variables' = set_variable(variables, "currentdb", current)
    /\ input' = InputFrom(current, "open")
    /\ past' = [past EXCEPT !.ran = 1]
    /\ Again
    /\ UNCHANGED <<fixed, handles, store, startscript, recording>>

-------------------------------------------------------------------------------
\* create: LEAPAPI_db_init.  Whether the database is there already is not asked, and
\* what it had is gone.  (A new master is left out.)

CreateFiles ==
    /\ Doing("create") /\ line.of # Master
    /\ scripts' = [scripts EXCEPT ![line.of]["open"] = <<>>]
    /\ disk' = [disk EXCEPT ![line.of] = [leaprel |-> "empty", index |-> "covers",
                                          temps |-> FALSE]]
    /\ past' = [past EXCEPT !.doubtful = IF disk[line.of].leaprel = "none" THEN @
                                         ELSE @ \cup {line.of}]
    /\ phase' = "create row"
    /\ UNCHANGED <<fixed, handles, registry, reading, line, variables>>

\* add (leapdata) (...), in master.  Where the row is there already, the insertion still
\* sets its relation's mark in leaprel.
CreateRow ==
    /\ phase = "create row"
    /\ registry' = [registry EXCEPT !.databases = @ \cup {line.of}]
    /\ Change("master")
    /\ phase' = "create fill"
    /\ UNCHANGED <<fixed, scripts, reading, line, variables, past>>

\* The commands that were redirected name the relations in leaprel.
CreateFill ==
    /\ phase = "create fill"
    /\ disk' = [disk EXCEPT ![line.of].leaprel = "good", ![line.of].index = "lacks"]
    /\ handles' = Missing(handles, line.of)
    /\ phase' = "create close"
    /\ UNCHANGED <<fixed, scripts, registry, reading, line, variables, past>>

CreateClose ==
    /\ phase = "create close"
    /\ disk' = [disk EXCEPT ![line.of].index = "covers"]
    /\ phase' = "create check"
    /\ UNCHANGED <<fixed, handles, scripts, registry, reading, line, variables, past>>

\* The database is opened and closed again; a tempdb keeps the result to itself.
CreateCheck ==
    /\ phase = "create check"
    /\ IF line.of = Tempdb THEN UNCHANGED <<disk, handles>> ELSE Make(handles, "tempdb")
    /\ Again
    /\ UNCHANGED <<fixed, scripts, registry, reading, variables, past>>

-------------------------------------------------------------------------------
\* The end.

\* leap does not close the current database if it is one of its own.
CloseSkipped ==
    /\ phase = "close current"
    /\ program = "leap" /\ current \in {Master, Tempdb}
    /\ phase' = "close master"
    /\ UNCHANGED <<fixed, handles, store, reading, line, variables, past>>

CloseDatabase ==
    /\ phase = "close current"
    /\ program = "leapd" \/ current \notin {Master, Tempdb}
    /\ CloseCurrent("close master")

CloseMaster ==
    /\ phase = "close master"
    /\ disk' = Disposed(disk, handles["master"])
    /\ handles' = [handles EXCEPT !["master"] = NULL]
    /\ phase' = "close tempdb"
    /\ UNCHANGED <<fixed, scripts, registry, reading, line, variables, past>>

\* The streams are closed as well; what leapd has recorded is nothing.
CloseTempdb ==
    /\ phase = "close tempdb"
    /\ disk' = Disposed(disk, handles["tempdb"])
    /\ Ended("closed", {})
    /\ UNCHANGED scripts

\* signal_handler closes whatever is open, and its exit writes out a script that is
\* being recorded.
Signal ==
    /\ phase # "down"
    /\ disk' = Disposed(Disposed(Disposed(disk, handles["current"]), handles["master"]),
                        handles["tempdb"])
    /\ scripts' = IF recording = NULL THEN scripts ELSE Recorded(recording.lines)
    /\ Ended("signal", Creating)

Crash == phase # "down" /\ Die

-------------------------------------------------------------------------------
\* An installation: the three databases, and no other.
Installed == {Master, Tempdb, DefaultDb}

Init == /\ program = "leap" /\ phase = "down" /\ dbtoopen = DefaultDb
        /\ handles = [s \in Slots |-> NULL]
        /\ disk = [d \in Databases |->
                      [leaprel |-> IF d \in Installed THEN "good" ELSE "none",
                       index |-> "covers", temps |-> FALSE]]
        /\ \E startup \in Startups, open \in Opens :
              scripts = [d \in Databases |-> [s \in ScriptNames |->
                  CASE s = "startup" /\ d = Master -> startup
                    [] s = "open" /\ d = DefaultDb -> open
                    [] s = "open" /\ d \in Installed \ {DefaultDb} -> <<>>
                    [] OTHER -> NoFile]]
        /\ registry = [databases |-> Installed, logins |-> FALSE]
        /\ input = [from |-> "stdin", rest |-> <<>>]
        /\ startscript = 0
        /\ recording = NULL
        /\ line = Nothing
        /\ variables = <<>>
        /\ past = [opened |-> {}, doubtful |-> {}, ran |-> 0, early |-> FALSE,
                   typed |-> 0, sessions |-> 0, left |-> "closed"]

Own == \/ OpenTempdb \/ OpenMaster \/ OpenCurrent \/ Startup
       \/ ReadScript \/ NextInput \/ RecordingDies
       \/ DoNothing \/ DoSet \/ DoSource \/ DoRecord \/ DoChange \/ DoMake \/ DoExit
       \/ UseCurrent \/ UseAsk \/ UseDispose \/ UseOpen \/ UseTell
       \/ CreateFiles \/ CreateRow \/ CreateFill \/ CreateClose \/ CreateCheck
       \/ CloseSkipped \/ CloseDatabase \/ CloseMaster \/ CloseTempdb

Daemon == Accept \/ HangUp \/ ReadNothing \/ BrokenPipe

Next == \/ \E p \in {"leap", "leapd"}, d \in Asked, c \in Configs : Start(p, d, c)
        \/ \E l \in Typed : ReadTyped(l) \/ ReadClient(l)
        \/ InputEndsRecording
        \/ Own \/ Daemon \/ Signal \/ Crash

\* The program goes on by itself; nobody needs to type anything, or connect.
Spec == Init /\ [][Next]_vars /\ WF_vars(Own)

-------------------------------------------------------------------------------
\* Closing, by a command or by a signal, from wherever the program is, leaves every
\* database that was opened with hash files that were told of all its tuples and with no
\* rows of temporary relations.  Not so a database that was opened twice at a time or
\* created anew over an old one, that was being created, or that a process that died had
\* changed, were it by making a temporary relation in it.
ClosedInOrder ==
    phase = "down" =>
        \A d \in Databases \ past.doubtful :
            /\ disk[d].index = "covers"
            /\ past.left \in {"closed", "signal"} /\ d \in past.opened => ~disk[d].temps

\* While commands are read the variable currentdb says what database is current, if it
\* is in the table and not in the first place, wherever else it is.
CurrentdbTold ==
    phase = "reading" /\ variables # <<>> /\ variables[1].name # "currentdb" =>
        resolve_variable(variables, "currentdb") \in {NULL, current}

\* When the terminal is asked for a command after the startup, open.src of the current
\* database has been begun exactly once, however many databases there have been; twice
\* if a script of the startup changed to the database.
OpenScriptOnce ==
    AtPrompt /\ startscript = 1 =>
        past.ran = IF past.early THEN 2 ELSE 1

\* No script but startup.src reads or changes to another script.
Straight ==
    \A d \in Databases, s \in ScriptNames : scripts[d][s] # NoFile =>
        \A i \in DOMAIN scripts[d][s] :
            LET l == scripts[d][s][i]
            IN  /\ l.do \in {"use", "source"} => d = Master /\ s = "startup"
                /\ l.do = "source" => l.of # "startup"

\* If scripts do not call one another leap always gets through them, back to its
\* terminal, or ends.
PromptReturns ==
    []Straight => (program = "leap" /\ phase # "down" ~> AtPrompt \/ phase = "down")

===============================================================================
