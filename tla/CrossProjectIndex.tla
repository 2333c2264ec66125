-------------------------- MODULE CrossProjectIndex --------------------------
(***************************************************************************)
(* The cross-project index of storage/crossindex, one file that the index  *)
(* runs of all projects share.  A process is an index run of one project:  *)
(* it opens the store (crossindex.New), looks its dependencies up while it *)
(* resolves, and registers the project at the end.                         *)
(*                                                                         *)
(* The JSON store loads the file when it is opened and writes it as a      *)
(* whole through a temporary file; the SQLite store works on the database. *)
(* An entry is abstracted to the number of the session that made it (its   *)
(* UpdatedAt tells entries of one project apart).                          *)
(***************************************************************************)
EXTENDS Naturals, FiniteSets

CONSTANTS
    Processes,
    Projects,       \* keys "path::branch"
    Nobody,         \* no entry, no file, no row, no writer
    Torn,           \* a content that does not decode
    Inodes,         \* of files in the index directory
    Backends,       \* "json", "sqlite"
    SharedJSON,     \* may sessions with the JSON store overlap?
    MaxSessions     \* bound: sessions that are opened

Entries == 1 .. MaxSessions

ASSUME IndexAssumption ==
    /\ Nobody \notin Processes \union Projects \union Inodes \union Nat
    /\ Nobody \notin [id : Nat, entry : Nat]
    /\ Torn \notin [Projects -> Nat \union {Nobody}]
    /\ Backends \subseteq {"json", "sqlite"}
    /\ SharedJSON \in BOOLEAN
    /\ MaxSessions \in Nat

VARIABLES
    backend,        \* the one that is configured
    \* JSON: inodes, because a writer keeps the file it has opened.
    file, temp,     \* cross_project_index.json and .json.tmp
    data,           \* contents of the inodes, Torn when they do not decode
    fd,             \* the inode each process is writing
    memory,         \* the index each process has loaded
    \* SQLite
    rows,           \* the row of each project: its id and its entry
    sequence,       \* AUTOINCREMENT
    writer,         \* the process that holds the write lock
    \* Processes
    sessions,       \* number of sessions opened
    session,        \* the one of each process
    pc, key, entry, \* where it is, the project of its call and the entry
    asked, id, found,       \* a lookup, its project id, its row
    answer,                 \* and its result
    seen            \* the entries each project had since the lookup began

json == <<file, temp, data, fd, memory>>
sqlite == <<rows, sequence, writer>>
call == <<session, key, entry>>
lookup == <<asked, id, found, answer>>
vars == <<backend, json, sqlite, sessions, pc, call, lookup, seen>>

Empty == [p \in Projects |-> Nobody]

\* What a process that opens the store now would find registered.
Registered ==
    IF backend = "sqlite"
    THEN [p \in Projects |-> IF rows[p] = Nobody THEN Nobody ELSE rows[p].entry]
    ELSE IF file = Nobody \/ data[file] = Torn THEN Empty ELSE data[file]

Init ==
    /\ backend \in Backends
    /\ file = Nobody /\ temp = Nobody
    /\ data = [i \in Inodes |-> Torn]
    /\ fd = [w \in Processes |-> Nobody]
    /\ memory = [w \in Processes |-> Empty]
    /\ rows = Empty
    /\ sequence = 0
    /\ writer = Nobody
    /\ sessions = 0
    /\ session = [w \in Processes |-> 0]
    /\ pc = [w \in Processes |-> "closed"]
    /\ key = [w \in Processes |-> Nobody]
    /\ entry = [w \in Processes |-> Nobody]
    /\ asked = [w \in Processes |-> Nobody]
    /\ id = [w \in Processes |-> Nobody]
    /\ found = [w \in Processes |-> Nobody]
    /\ answer = [w \in Processes |-> Nobody]
    /\ seen = [w \in Processes |-> [p \in Projects |-> {}]]

Goto(w, label) == pc' = [pc EXCEPT ![w] = label]

-----------------------------------------------------------------------------
(* Sessions.                                                               *)

\* Mutant of Open: the JSON store is not loaded.
OpenUnloaded(w) ==
    /\ pc[w] = "closed"
    /\ sessions < MaxSessions
    /\ sessions' = sessions + 1
    /\ session' = [session EXCEPT ![w] = sessions + 1]
    /\ backend = "json" => \A v \in Processes : pc[v] = "closed"
    /\ Goto(w, "open")
    /\ UNCHANGED <<backend, json, sqlite, key, entry, lookup>>

\* crossindex.New: the JSON store loads the file, which has to decode.
Open(w) ==
    /\ pc[w] = "closed"
    /\ sessions < MaxSessions
    /\ sessions' = sessions + 1
    /\ session' = [session EXCEPT ![w] = sessions + 1]
    /\ IF backend = "json"
       THEN /\ file # Nobody => data[file] # Torn
            /\ SharedJSON \/ \A v \in Processes : pc[v] = "closed"
            /\ memory' = [memory EXCEPT ![w] = Registered]
       ELSE memory' = memory
    /\ Goto(w, "open")
    /\ UNCHANGED <<backend, file, temp, data, fd, sqlite, key, entry, lookup>>

\* The process dies, or the run ends; an open transaction is rolled back.
Leave(w) ==
    /\ pc[w] # "closed"
    /\ Goto(w, "closed")
    /\ fd' = [fd EXCEPT ![w] = Nobody]
    /\ writer' = IF writer = w THEN Nobody ELSE writer
    /\ memory' = [memory EXCEPT ![w] = Empty]
    /\ session' = [session EXCEPT ![w] = 0]
    /\ key' = [key EXCEPT ![w] = Nobody]
    /\ entry' = [entry EXCEPT ![w] = Nobody]
    /\ asked' = [asked EXCEPT ![w] = Nobody]
    /\ id' = [id EXCEPT ![w] = Nobody]
    /\ found' = [found EXCEPT ![w] = Nobody]
    /\ answer' = [answer EXCEPT ![w] = Nobody]
    /\ UNCHANGED <<backend, file, temp, data, rows, sequence, sessions>>

\* RegisterProject or, with e = Nobody, UnregisterProject is called.  The JSON
\* store changes its copy in memory first.
Register(w, p, e) ==
    /\ pc[w] = "open"
    /\ key' = [key EXCEPT ![w] = p]
    /\ entry' = [entry EXCEPT ![w] = e]
    /\ answer' = [answer EXCEPT ![w] = Nobody]
    /\ IF backend = "json"
       THEN /\ memory' = [memory EXCEPT ![w][p] = e]
            /\ Goto(w, "create")
       ELSE /\ memory' = memory
            /\ Goto(w, "delete")
    /\ UNCHANGED <<backend, file, temp, data, fd, sqlite, sessions, session,
                   asked, id, found>>

\* A call that returns an error, at any point before it took effect.
Refused(w) ==
    /\ pc[w] \in {"create", "write", "rename", "delete", "insert", "commit"}
    /\ Goto(w, "failed")
    /\ fd' = [fd EXCEPT ![w] = Nobody]
    /\ writer' = IF writer = w THEN Nobody ELSE writer
    /\ UNCHANGED <<backend, file, temp, data, memory, rows, sequence, sessions,
                   call, lookup>>

-----------------------------------------------------------------------------
(* The JSON store: saveLocked.                                             *)

Unused == Inodes \ ({file, temp} \union {fd[w] : w \in Processes})

\* Mutant of CreateTemp: the index file itself is opened for writing.
CreateInPlace(w) ==
    /\ pc[w] = "create"
    /\ \E i \in IF file = Nobody THEN Unused ELSE {file} :
          /\ file' = i
          /\ data' = [data EXCEPT ![i] = Torn]
          /\ fd' = [fd EXCEPT ![w] = i]
    /\ Goto(w, "write")
    /\ UNCHANGED <<backend, temp, memory, sqlite, sessions, call, lookup>>

\* os.WriteFile of the temporary file truncates it if it is there ...
CreateTemp(w) ==
    /\ pc[w] = "create"
    /\ \E i \in IF temp = Nobody THEN Unused ELSE {temp} :
          /\ temp' = i
          /\ data' = [data EXCEPT ![i] = Torn]
          /\ fd' = [fd EXCEPT ![w] = i]
    /\ Goto(w, "write")
    /\ UNCHANGED <<backend, file, memory, sqlite, sessions, call, lookup>>

\* ... and writes the open file, whatever its name is by now.  Over what
\* another process has written the result may be a mixture.
WriteTemp(w) ==
    /\ pc[w] = "write"
    /\ \E d \in {memory[w]} \union (IF data[fd[w]] = Torn THEN {} ELSE {Torn}) :
          data' = [data EXCEPT ![fd[w]] = d]
    /\ fd' = [fd EXCEPT ![w] = Nobody]
    /\ Goto(w, "rename")
    /\ UNCHANGED <<backend, file, temp, memory, sqlite, sessions, call, lookup>>

\* os.Rename fails when another process has renamed the temporary file.
Rename(w) ==
    /\ pc[w] = "rename"
    /\ file' = IF temp = Nobody THEN file ELSE temp
    /\ temp' = Nobody
    /\ Goto(w, IF temp = Nobody THEN "failed" ELSE "done")
    /\ UNCHANGED <<backend, data, fd, memory, sqlite, sessions, call, lookup>>

-----------------------------------------------------------------------------
(* The SQLite store: one transaction.                                      *)

\* DELETE of the project's row takes the write lock.  When another process
\* holds it for longer than the busy timeout the error is ignored.
DeleteRow(w) ==
    /\ pc[w] = "delete"
    /\ writer' \in IF writer = Nobody THEN {w} ELSE {writer}
    /\ Goto(w, "insert")
    /\ UNCHANGED <<backend, json, rows, sequence, sessions, call, lookup>>

\* Mutant of InsertRow: no UNIQUE(project_path, branch), no lock.
InsertAnyway(w) ==
    /\ pc[w] = "insert"
    /\ writer' = writer
    /\ Goto(w, "commit")
    /\ UNCHANGED <<backend, json, rows, sequence, sessions, call, lookup>>

\* INSERT: without the DELETE before it, it takes the lock itself and meets
\* the row that was not deleted.  (UnregisterProject inserts nothing.)
InsertRow(w) ==
    /\ pc[w] = "insert"
    /\ \/ writer = w
       \/ writer = Nobody /\ entry[w] # Nobody /\ rows[key[w]] = Nobody
    /\ writer' = w
    /\ Goto(w, "commit")
    /\ UNCHANGED <<backend, json, rows, sequence, sessions, call, lookup>>

\* Mutant of NewId: ids are the numbers of rows, as without AUTOINCREMENT.
ReusedId == Cardinality({p \in Projects : rows[p] # Nobody}) + 1

NewId == sequence + 1

\* COMMIT: the old row is gone and the new one has a new id.
Commit(w) ==
    /\ pc[w] = "commit"
    /\ IF entry[w] = Nobody
       THEN /\ rows' = [rows EXCEPT ![key[w]] = Nobody]
            /\ sequence' = sequence
       ELSE /\ rows' = [rows EXCEPT ![key[w]] = [id |-> NewId, entry |-> entry[w]]]
            /\ sequence' = NewId
    /\ writer' = Nobody
    /\ Goto(w, "done")
    /\ UNCHANGED <<backend, json, sessions, call, lookup>>

-----------------------------------------------------------------------------
(* Lookups: the JSON store answers from memory; the SQLite store reads the *)
(* ids of the projects, their rows and the methods in separate statements. *)

LookupMemory(w, q) ==
    /\ backend = "json"
    /\ pc[w] = "open"
    /\ asked' = [asked EXCEPT ![w] = q]
    /\ answer' = [answer EXCEPT ![w] =
                    [entry |-> memory[w][q], methods |-> memory[w][q] # Nobody]]
    /\ UNCHANGED <<backend, json, sqlite, sessions, pc, call, id, found>>

ResolveId(w, q) ==
    /\ backend = "sqlite"
    /\ pc[w] = "open"
    /\ asked' = [asked EXCEPT ![w] = q]
    /\ id' = [id EXCEPT ![w] = IF rows[q] = Nobody THEN Nobody ELSE rows[q].id]
    /\ answer' = [answer EXCEPT ![w] = Nobody]
    /\ Goto(w, "rows")
    /\ UNCHANGED <<backend, json, sqlite, sessions, call, found>>

Holders(i) == {p \in Projects : rows[p] # Nobody /\ rows[p].id = i}

ReadRows(w) ==
    /\ pc[w] = "rows"
    /\ found' = [found EXCEPT ![w] =
                   IF Holders(id[w]) = {} THEN Nobody
                   ELSE rows[CHOOSE p \in Holders(id[w]) : TRUE].entry]
    /\ Goto(w, "methods")
    /\ UNCHANGED <<backend, json, sqlite, sessions, call, asked, id, answer>>

ReadMethods(w) ==
    /\ pc[w] = "methods"
    /\ answer' = [answer EXCEPT ![w] =
                    [entry |-> found[w],
                     methods |-> found[w] # Nobody /\ Holders(id[w]) # {}]]
    /\ id' = [id EXCEPT ![w] = Nobody]
    /\ found' = [found EXCEPT ![w] = Nobody]
    /\ Goto(w, "open")
    /\ UNCHANGED <<backend, json, sqlite, sessions, call, asked>>

-----------------------------------------------------------------------------

Process(w) ==
    \/ Open(w)
    \/ Leave(w)
    \/ \E p \in Projects : \E e \in {session[w], Nobody} : Register(w, p, e)
    \/ Refused(w)
    \/ CreateTemp(w)
    \/ WriteTemp(w)
    \/ Rename(w)
    \/ DeleteRow(w)
    \/ InsertRow(w)
    \/ Commit(w)
    \/ \E q \in Projects : LookupMemory(w, q) \/ ResolveId(w, q)
    \/ ReadRows(w)
    \/ ReadMethods(w)

\* History: seen starts with a session and with a lookup in the database.
Begins(w) ==
    \/ pc[w] = "closed" /\ pc'[w] = "open"
    \/ pc[w] = "open" /\ pc'[w] = "rows"

Remember ==
    seen' = [w \in Processes |-> [p \in Projects |->
               IF pc'[w] = "closed" THEN {}
               ELSE {Registered'[p]} \union (IF Begins(w) THEN {} ELSE seen[w][p])]]

Next == (\E w \in Processes : Process(w)) /\ Remember

Spec == Init /\ [][Next]_vars

-----------------------------------------------------------------------------
(* Properties.                                                             *)

Contents == [Projects -> Entries \union {Nobody}]
Ids == 1 .. sequence
Row == [id : Ids, entry : Entries]
Answer == [entry : Entries \union {Nobody}, methods : BOOLEAN]

\* Type invariant; only a process inside a transaction holds the write lock.
TypeOK ==
    /\ backend \in Backends
    /\ {file, temp} \subseteq Inodes \union {Nobody}
    /\ data \in [Inodes -> Contents \union {Torn}]
    /\ fd \in [Processes -> Inodes \union {Nobody}]
    /\ memory \in [Processes -> Contents]
    /\ rows \in [Projects -> Row \union {Nobody}]
    /\ sequence \in Nat /\ sessions \in 0 .. MaxSessions
    /\ session \in [Processes -> 0 .. sessions]
    /\ writer \in Processes \union {Nobody}
    /\ writer # Nobody => pc[writer] \in {"insert", "commit"}
    /\ \A w \in Processes : pc[w] = "commit" => writer = w
    /\ key \in [Processes -> Projects \union {Nobody}]
    /\ asked \in [Processes -> Projects \union {Nobody}]
    /\ entry \in [Processes -> Entries \union {Nobody}]
    /\ found \in [Processes -> Entries \union {Nobody}]
    /\ id \in [Processes -> Ids \union {Nobody}]
    /\ answer \in [Processes -> Answer \union {Nobody}]

\* The index file always decodes, whenever a process dies while it writes
\* ("Atomic write: write to temp file, then rename").
NeverTorn == file # Nobody => data[file] # Torn

\* Both stores are a map of projects: calls take effect in one step, for
\* their own project only, and not at all when they report an error or their
\* process dies.
Status(w) ==
    CASE pc[w] \in {"create", "write", "rename", "delete", "insert", "commit"} -> "called"
      [] pc[w] \in {"done", "failed"} -> pc[w]
      [] OTHER -> "none"

Map == INSTANCE ProjectMap WITH
         index <- Registered,
         status <- [v \in Processes |-> Status(v)]

ImplementsMap == Map!Spec

\* A lookup answers with an entry the project had since the lookup began (the
\* session, with the JSON store), or with nothing if the project was
\* registered again meanwhile: never with the entry of another project.
AnswersAreReal ==
    \A w \in Processes : answer[w] # Nobody =>
       LET had == seen[w][asked[w]]
       IN  \/ answer[w].entry \in had
           \/ answer[w].entry = Nobody /\ \E d, e \in had : d # e

=============================================================================
