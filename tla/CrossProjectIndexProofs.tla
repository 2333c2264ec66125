----------------------- MODULE CrossProjectIndexProofs -----------------------
(***************************************************************************)
(* The cross-project index is typed, its file is never torn and both       *)
(* stores implement ProjectMap, for any number of processes, projects and  *)
(* sessions; with the JSON store, as long as sessions do not overlap.      *)
(***************************************************************************)
EXTENDS CrossProjectIndex, TLAPS

Idle == {"closed", "open", "rows", "methods"}
InFile == {"create", "write", "rename"}
InTable == {"delete", "insert", "commit"}

\* Where a process stands determines its backend and what its call is about.
Stages ==
    /\ pc \in [Processes -> Idle \union InFile \union InTable \union {"done", "failed"}]
    /\ \A w \in Processes :
          /\ backend = "json" => pc[w] \notin InTable \union {"rows", "methods"}
          /\ backend = "sqlite" => pc[w] \notin InFile
          /\ pc[w] # "closed" => session[w] \in Entries
          /\ pc[w] \in Idle => key[w] = Nobody /\ entry[w] = Nobody
          /\ pc[w] \notin Idle => key[w] \in Projects

StageInv == TypeOK /\ Stages

\* With one JSON session at a time, the copy in memory is the file, then the
\* file with the call in it, and the temporary file is that copy.
Files ==
    /\ backend = "sqlite" => file = Nobody
    /\ file # Nobody => data[file] # Torn /\ file # temp
    /\ backend = "json" =>
          /\ \A v, w \in Processes : pc[v] # "closed" /\ pc[w] # "closed" => v = w
          /\ \A w \in Processes :
                /\ pc[w] = "open" => memory[w] = Registered
                /\ pc[w] \in InFile =>
                      memory[w] = [Registered EXCEPT ![key[w]] = entry[w]]
                /\ pc[w] = "write" =>
                      temp # Nobody /\ fd[w] = temp /\ data[temp] = Torn
                /\ pc[w] = "rename" => temp # Nobody /\ data[temp] = memory[w]

IndexInv == StageInv /\ Files

-----------------------------------------------------------------------------
(* Types.                                                                  *)

LEMMA StageInit == Init => StageInv
BY IndexAssumption
   DEF Init, StageInv, TypeOK, Stages, Idle, InFile, InTable, Empty, Contents, Ids, Row

LEMMA RegisteredType == TypeOK => Registered \in Contents
BY DEF TypeOK, Registered, Contents, Row, Empty

LEMMA StageSession ==
  ASSUME NEW w \in Processes, StageInv, Open(w) \/ Leave(w) \/ Refused(w)
  PROVE  StageInv'
<1> USE IndexAssumption
    DEF StageInv, TypeOK, Stages, Idle, InFile, InTable, Goto, sqlite, call, lookup
<1>1. CASE Open(w)
  <2>1. sessions' \in Entries /\ session' \in [Processes -> 0 .. sessions']
    BY <1>1 DEF Open, Entries
  <2>2. memory' \in [Processes -> Contents]
    BY <1>1, RegisteredType DEF Open
  <2> QED
    BY <1>1, <2>1, <2>2 DEF Open, Contents, Row, Ids, Entries
<1>2. CASE Leave(w)
  <2>1. memory' \in [Processes -> Contents]
    BY <1>2 DEF Leave, Empty, Contents
  <2> QED
    BY <1>2, <2>1 DEF Leave, Contents, Row, Ids
<1>3. CASE Refused(w)
  <2>1. TypeOK'
    BY <1>3 DEF Refused, Contents, Row, Ids
  <2>2. Stages'
    BY <1>3 DEF Refused
  <2> QED
    BY <2>1, <2>2
<1> QED
  BY <1>1, <1>2, <1>3

LEMMA StageRegister ==
  ASSUME NEW w \in Processes, NEW p \in Projects, NEW e \in {session[w], Nobody},
         StageInv, Register(w, p, e)
  PROVE  StageInv'
<1> USE IndexAssumption
    DEF StageInv, TypeOK, Stages, Idle, InFile, InTable, Goto, sqlite, Register
<1>1. e \in Entries \union {Nobody}
  OBVIOUS
<1>2. memory' \in [Processes -> Contents]
  <2>1. [memory[w] EXCEPT ![p] = e] \in Contents
    BY <1>1 DEF Contents
  <2> QED
    BY <2>1
<1>3. entry' \in [Processes -> Entries \union {Nobody}]
  BY <1>1
<1>4. TypeOK'
  BY <1>2, <1>3 DEF Contents, Row, Ids
<1> QED
  BY <1>4

LEMMA StageJSON ==
  ASSUME NEW w \in Processes, StageInv, CreateTemp(w) \/ WriteTemp(w) \/ Rename(w)
  PROVE  StageInv'
<1> USE IndexAssumption
    DEF StageInv, TypeOK, Stages, Idle, InFile, InTable, Goto, sqlite, call, lookup
<1>1. CASE CreateTemp(w)
  BY <1>1 DEF CreateTemp, Unused, Contents, Row, Ids
<1>2. CASE WriteTemp(w)
  <2>1. data' \in [Inodes -> Contents \union {Torn}]
    <3>1. PICK d \in Contents \union {Torn} : data' = [data EXCEPT ![fd[w]] = d]
      <4>1. memory[w] \in Contents
        OBVIOUS
      <4>2. PICK d \in {memory[w]} \union (IF data[fd[w]] = Torn THEN {} ELSE {Torn}) :
                data' = [data EXCEPT ![fd[w]] = d]
        BY <1>2, Zenon DEF WriteTemp
      <4> QED
        BY <4>1, <4>2
    <3> QED
      BY <3>1
  <2> QED
    BY <1>2, <2>1 DEF WriteTemp, Contents, Row, Ids
<1>3. CASE Rename(w)
  BY <1>3 DEF Rename, Contents, Row, Ids
<1> QED
  BY <1>1, <1>2, <1>3

LEMMA StageSQLite ==
  ASSUME NEW w \in Processes, StageInv, DeleteRow(w) \/ InsertRow(w) \/ Commit(w)
  PROVE  StageInv'
<1> USE IndexAssumption
    DEF StageInv, TypeOK, Stages, Idle, InFile, InTable, Goto, json, call, lookup
<1>1. CASE DeleteRow(w)
  BY <1>1 DEF DeleteRow, Contents, Row, Ids
<1>2. CASE InsertRow(w)
  BY <1>2 DEF InsertRow, Contents, Row, Ids
<1>3. CASE Commit(w)
  <2>1. sequence' \in Nat /\ sequence <= sequence'
    BY <1>3 DEF Commit, NewId
  <2>2. Ids \subseteq Ids'
    BY <2>1 DEF Ids
  <2>3. Row \subseteq Row'
    BY <2>2 DEF Row
  <2>4. rows' \in [Projects -> Row' \union {Nobody}]
    <3>1. CASE entry[w] = Nobody
      BY <1>3, <2>3, <3>1 DEF Commit
    <3>2. CASE entry[w] # Nobody
      <4>1. [id |-> NewId, entry |-> entry[w]] \in Row'
        BY <1>3, <3>2 DEF Commit, NewId, Row, Ids
      <4> QED
        BY <1>3, <2>3, <3>2, <4>1 DEF Commit
    <3> QED
      BY <3>1, <3>2
  <2>5. id' \in [Processes -> Ids' \union {Nobody}]
    BY <1>3, <2>2 DEF Commit
  <2> QED
    BY <1>3, <2>1, <2>4, <2>5 DEF Commit, Contents
<1> QED
  BY <1>1, <1>2, <1>3

LEMMA StageLookup ==
  ASSUME NEW w \in Processes, NEW q \in Projects, StageInv,
         LookupMemory(w, q) \/ ResolveId(w, q)
  PROVE  StageInv'
<1> USE IndexAssumption
    DEF StageInv, TypeOK, Stages, Idle, InFile, InTable, Goto, json, sqlite, call
<1>1. CASE LookupMemory(w, q)
  <2>1. [entry |-> memory[w][q], methods |-> memory[w][q] # Nobody] \in Answer
    BY DEF Answer, Contents
  <2>2. answer' \in [Processes -> Answer \union {Nobody}]
    BY <1>1, <2>1 DEF LookupMemory
  <2> QED
    BY <1>1, <2>2 DEF LookupMemory, Contents, Row, Ids, Answer
<1>2. CASE ResolveId(w, q)
  <2>1. rows[q] # Nobody => rows[q].id \in Ids
    BY DEF Row
  <2> QED
    BY <1>2, <2>1 DEF ResolveId, Contents, Row, Ids
<1> QED
  BY <1>1, <1>2

LEMMA StageReads ==
  ASSUME NEW w \in Processes, StageInv, ReadRows(w) \/ ReadMethods(w)
  PROVE  StageInv'
<1> USE IndexAssumption
    DEF StageInv, TypeOK, Stages, Idle, InFile, InTable, Goto, json, sqlite, call
<1>1. CASE ReadRows(w)
  <2>1. Holders(id[w]) # {} =>
           rows[CHOOSE p \in Holders(id[w]) : TRUE].entry \in Entries
    BY DEF Holders, Row
  <2> QED
    BY <1>1, <2>1 DEF ReadRows, Contents, Row, Ids
<1>2. CASE ReadMethods(w)
  <2>1. [entry |-> found[w], methods |-> found[w] # Nobody /\ Holders(id[w]) # {}] \in Answer
    BY DEF Answer
  <2>2. answer' \in [Processes -> Answer \union {Nobody}]
    BY <1>2, <2>1 DEF ReadMethods
  <2> QED
    BY <1>2, <2>2 DEF ReadMethods, Contents, Row, Ids, Answer
<1> QED
  BY <1>1, <1>2

LEMMA StageStep == StageInv /\ [Next]_vars => StageInv'
<1> SUFFICES ASSUME StageInv, [Next]_vars PROVE StageInv'
  OBVIOUS
<1>1. CASE UNCHANGED vars
  BY <1>1 DEF vars, json, sqlite, call, lookup, StageInv, TypeOK, Stages, Contents, Row, Ids
<1>2. ASSUME NEW w \in Processes, Process(w) PROVE StageInv'
  <2>1. CASE \E p \in Projects : \E e \in {session[w], Nobody} : Register(w, p, e)
    BY <1>2, <2>1, StageRegister
  <2>2. CASE \E q \in Projects : LookupMemory(w, q) \/ ResolveId(w, q)
    BY <1>2, <2>2, StageLookup
  <2>3. CASE ReadRows(w) \/ ReadMethods(w)
    BY <1>2, <2>3, StageReads
  <2> QED
    BY <1>2, <2>1, <2>2, <2>3, StageSession, StageJSON, StageSQLite DEF Process
<1> QED
  BY <1>1, <1>2 DEF Next

\* Every variable of the index keeps its type, and a process commits only while
\* it alone holds the write lock, whatever overlaps (RegisterProject of both
\* stores).
THEOREM IndexTypeCorrect == Spec => []TypeOK
<1>1. StageInv => TypeOK
  BY DEF StageInv
<1> QED
  BY <1>1, StageInit, StageStep, PTL DEF Spec

-----------------------------------------------------------------------------
(* The files of the JSON store, one session at a time.                     *)

LEMMA TornIsNoContent == Torn \notin Contents
BY IndexAssumption DEF Contents, Entries

LEMMA RegisteredKept ==
  UNCHANGED <<backend, file, data, rows>> => Registered' = Registered
BY DEF Registered

LEMMA FilesInit == Init => Files
BY IndexAssumption DEF Init, Files, InFile

LEMMA FilesSession ==
  ASSUME ~SharedJSON, NEW w \in Processes, IndexInv, Open(w) \/ Leave(w) \/ Refused(w)
  PROVE  Files'
<1> USE DEF IndexInv, StageInv, Stages, Files, InFile, Goto
<1>1. UNCHANGED <<backend, file, temp, data>> /\ Registered' = Registered
  BY RegisteredKept DEF Open, Leave, Refused, sqlite
<1>2. CASE Open(w)
  BY <1>1, <1>2 DEF Open, TypeOK
<1>3. CASE Leave(w)
  BY <1>1, <1>3 DEF Leave
<1>4. CASE Refused(w)
  BY <1>1, <1>4 DEF Refused
<1> QED
  BY <1>2, <1>3, <1>4

LEMMA FilesRegister ==
  ASSUME ~SharedJSON, NEW w \in Processes, NEW p \in Projects,
         NEW e \in {session[w], Nobody}, IndexInv, Register(w, p, e)
  PROVE  Files'
<1> USE DEF IndexInv, StageInv, Stages, Files, InFile, Goto, Register
<1>1. UNCHANGED <<backend, file, temp, data>> /\ Registered' = Registered
  BY RegisteredKept DEF sqlite
<1>2. CASE backend = "json"
  <2>1. \A v \in Processes : v # w => pc[v] = "closed" /\ pc'[v] = "closed"
    BY <1>2
  <2>2. pc'[w] = "create" /\ key'[w] = p /\ entry'[w] = e
    BY <1>2 DEF TypeOK
  <2>3. memory'[w] = [Registered EXCEPT ![p] = e]
    BY <1>2 DEF TypeOK
  <2> QED
    BY <1>1, <1>2, <2>1, <2>2, <2>3
<1>3. CASE backend # "json"
  BY <1>1, <1>3
<1> QED
  BY <1>2, <1>3

LEMMA InFileIsJSON ==
  ASSUME NEW w \in Processes, IndexInv, pc[w] \in InFile
  PROVE  /\ backend = "json"
         /\ \A v \in Processes : v # w => pc[v] = "closed"
<1>1. backend = "json"
  BY IndexAssumption DEF IndexInv, StageInv, TypeOK, Stages
<1> QED
  BY <1>1 DEF IndexInv, Files, InFile

LEMMA FilesJSON ==
  ASSUME NEW w \in Processes, IndexInv, CreateTemp(w) \/ WriteTemp(w) \/ Rename(w)
  PROVE  /\ Files'
         /\ ~Rename(w) => Registered' = Registered
         /\ Rename(w) => Registered' = [Registered EXCEPT ![key[w]] = entry[w]]
                         /\ pc'[w] = "done"
<1> USE IndexAssumption DEF Files, InFile, Goto
<1>1. pc[w] \in InFile
  BY DEF CreateTemp, WriteTemp, Rename
<1>2. /\ backend = "json"
      /\ \A v \in Processes : v # w => pc[v] = "closed"
  BY <1>1, InFileIsJSON
<1>3. /\ pc \in [Processes -> Idle \union InFile \union InTable \union {"done", "failed"}]
      /\ fd \in [Processes -> Inodes \union {Nobody}]
  BY DEF IndexInv, StageInv, TypeOK, Stages
<1>4. /\ memory[w] = [Registered EXCEPT ![key[w]] = entry[w]]
      /\ memory[w] \in Contents /\ memory[w] # Torn
  BY <1>1, <1>2, TornIsNoContent DEF IndexInv, StageInv, TypeOK
<1>5. CASE CreateTemp(w)
  <2>1. PICK i \in IF temp = Nobody THEN Unused ELSE {temp} :
          /\ temp' = i
          /\ data' = [data EXCEPT ![i] = Torn]
          /\ fd' = [fd EXCEPT ![w] = i]
    BY <1>5, Zenon DEF CreateTemp
  <2>2. i \in Inodes /\ i # file /\ i # Nobody
    BY <2>1 DEF Unused, IndexInv, StageInv, TypeOK
  <2>3. data \in [Inodes -> Contents \union {Torn}]
    BY DEF IndexInv, StageInv, TypeOK
  <2>4. data'[i] = Torn /\ (file # Nobody => data'[file] = data[file])
    BY <2>1, <2>2, <2>3
  <2>5. Registered' = Registered
    BY <1>2, <1>5, <2>4 DEF CreateTemp, Registered, Empty
  <2>6. pc'[w] = "write" /\ fd'[w] = i /\ \A v \in Processes : v # w => pc'[v] = "closed"
    BY <1>2, <1>3, <1>5, <2>1 DEF CreateTemp
  <2> QED
    BY <1>2, <1>4, <1>5, <2>1, <2>2, <2>4, <2>5, <2>6
       DEF CreateTemp, Rename, call, IndexInv
<1>6. CASE WriteTemp(w)
  <2>1. fd[w] = temp /\ temp # Nobody /\ temp # file /\ temp \in Inodes /\ data[temp] = Torn
    BY <1>2, <1>6 DEF WriteTemp, IndexInv, StageInv, TypeOK
  <2>2. data' = [data EXCEPT ![temp] = memory[w]]
    BY <1>6, <2>1 DEF WriteTemp
  <2>3. data'[temp] = memory[w] /\ (file # Nobody => data'[file] = data[file])
    BY <2>1, <2>2 DEF IndexInv, StageInv, TypeOK
  <2>4. Registered' = Registered
    BY <1>2, <1>6, <2>3 DEF WriteTemp, Registered, Empty
  <2>5. pc'[w] = "rename" /\ \A v \in Processes : v # w => pc'[v] = "closed"
    BY <1>2, <1>3, <1>6 DEF WriteTemp
  <2> QED
    BY <1>2, <1>4, <1>6, <2>1, <2>3, <2>4, <2>5 DEF WriteTemp, Rename, call, IndexInv
<1>7. CASE Rename(w)
  <2>1. temp # Nobody /\ data[temp] = memory[w]
    BY <1>2, <1>7 DEF Rename, IndexInv
  <2>2. Registered' = memory[w]
    BY <1>2, <1>4, <1>7, <2>1 DEF Rename, Registered
  <2>3. pc'[w] = "done" /\ \A v \in Processes : v # w => pc'[v] = "closed"
    BY <1>2, <1>3, <1>7, <2>1 DEF Rename
  <2> QED
    BY <1>2, <1>4, <1>7, <2>1, <2>2, <2>3 DEF Rename
<1> QED
  BY <1>5, <1>6, <1>7

LEMMA FilesSQLite ==
  ASSUME NEW w \in Processes, IndexInv, DeleteRow(w) \/ InsertRow(w) \/ Commit(w)
  PROVE  Files'
<1>1. backend = "sqlite" /\ UNCHANGED <<backend, file>>
  BY IndexAssumption
     DEF IndexInv, StageInv, TypeOK, Stages, InTable, DeleteRow, InsertRow, Commit, json
<1> QED
  BY <1>1 DEF IndexInv, Files

LEMMA FilesLookup ==
  ASSUME NEW w \in Processes, NEW q \in Projects, IndexInv,
         LookupMemory(w, q) \/ ResolveId(w, q)
  PROVE  Files'
<1>1. UNCHANGED <<backend, json, rows, call>> /\ Registered' = Registered
  BY RegisteredKept DEF LookupMemory, ResolveId, json, sqlite
<1>2. backend = "sqlite" \/ UNCHANGED pc
  BY DEF LookupMemory, ResolveId
<1> QED
  BY <1>1, <1>2 DEF IndexInv, Files, json, call

LEMMA FilesReads ==
  ASSUME NEW w \in Processes, IndexInv, ReadRows(w) \/ ReadMethods(w)
  PROVE  Files'
<1>1. backend = "sqlite" /\ UNCHANGED <<backend, file>>
  BY IndexAssumption DEF IndexInv, StageInv, TypeOK, Stages, ReadRows, ReadMethods, json
<1> QED
  BY <1>1 DEF IndexInv, Files

LEMMA FilesStep == ~SharedJSON /\ IndexInv /\ [Next]_vars => IndexInv'
<1> SUFFICES ASSUME ~SharedJSON, IndexInv, [Next]_vars PROVE Files'
  BY StageStep DEF IndexInv
<1>1. CASE UNCHANGED vars
  <2>1. Registered' = Registered
    BY <1>1, RegisteredKept DEF vars, json, sqlite
  <2> QED
    BY <1>1, <2>1 DEF IndexInv, Files, vars, json, call
<1>2. ASSUME NEW w \in Processes, Process(w) PROVE Files'
  <2>1. CASE \E p \in Projects : \E e \in {session[w], Nobody} : Register(w, p, e)
    BY <1>2, <2>1, FilesRegister
  <2>2. CASE \E q \in Projects : LookupMemory(w, q) \/ ResolveId(w, q)
    BY <1>2, <2>2, FilesLookup
  <2>3. CASE ReadRows(w)
    BY <2>3, FilesReads
  <2>4. CASE ReadMethods(w)
    BY <2>4, FilesReads
  <2> QED
    BY <1>2, <2>1, <2>2, <2>3, <2>4, FilesSession, FilesJSON, FilesSQLite DEF Process
<1> QED
  BY <1>1, <1>2 DEF Next

\* While sessions with the JSON store do not overlap, the index file decodes
\* whenever a process dies (saveLocked).
THEOREM FileNeverTorn == ~SharedJSON => (Spec => []NeverTorn)
<1> SUFFICES ASSUME ~SharedJSON PROVE Spec => []NeverTorn
  OBVIOUS
<1>1. Init => IndexInv
  BY StageInit, FilesInit DEF IndexInv
<1>2. IndexInv /\ [Next]_vars => IndexInv'
  BY FilesStep
<1>3. IndexInv => NeverTorn
  BY DEF IndexInv, Files, NeverTorn
<1> QED
  BY <1>1, <1>2, <1>3, PTL DEF Spec

-----------------------------------------------------------------------------
(* Both stores implement the map.                                          *)

LEMMA MapInit == Init => Map!Init
BY IndexAssumption DEF Init, Map!Init, Registered, Empty, Status

Phase(l) == CASE l \in InFile \union InTable -> "called"
              [] l \in {"done", "failed"} -> l
              [] OTHER -> "none"

\* What a step does to the map follows from where the process goes.
LEMMA MapPhases ==
  ASSUME NEW w \in Processes, NEW l, StageInv, Goto(w, l)
  PROVE  /\ [v \in Processes |-> Status(v)]' =
              [[v \in Processes |-> Status(v)] EXCEPT ![w] = Phase(l)]
         /\ Phase(pc[w]) = Phase(l) =>
              [v \in Processes |-> Status(v)]' = [v \in Processes |-> Status(v)]
<1>1. \A v \in Processes : Status(v) = Phase(pc[v])
  BY DEF Status, Phase, InFile, InTable
<1>2. \A v \in Processes : Status(v)' = Phase(pc'[v])
  BY DEF Status, Phase, InFile, InTable
<1>3. \A v \in Processes : pc'[v] = IF v = w THEN l ELSE pc[v]
  BY DEF Goto, StageInv, Stages
<1> QED
  BY <1>1, <1>2, <1>3

LEMMA MapSession ==
  ASSUME NEW w \in Processes, StageInv, Open(w) \/ Leave(w) \/ Refused(w)
  PROVE  [Map!Next]_<<Registered, [v \in Processes |-> Status(v)], key, entry>>
<1> USE IndexAssumption
<1>1. UNCHANGED <<backend, file, data, rows>> /\ Registered' = Registered
  BY RegisteredKept DEF Open, Leave, Refused, sqlite
<1>2. CASE Open(w)
  <2>1. [v \in Processes |-> Status(v)]' = [v \in Processes |-> Status(v)]
    BY <1>2, MapPhases DEF Open, Phase, InFile, InTable
  <2> QED
    BY <1>1, <1>2, <2>1 DEF Open
<1>3. CASE Leave(w) /\ pc[w] \in Idle
  <2>1. [v \in Processes |-> Status(v)]' = [v \in Processes |-> Status(v)]
    BY <1>3, MapPhases DEF Leave, Phase, InFile, InTable, Idle
  <2>2. key[w] = Nobody /\ entry[w] = Nobody
    BY <1>3 DEF StageInv, Stages
  <2>3. key' = key /\ entry' = entry
    BY <1>3, <2>2 DEF Leave, StageInv, TypeOK
  <2> QED
    BY <1>1, <2>1, <2>3
<1>4. CASE Leave(w) /\ pc[w] \notin Idle
  <2>1. Status(w) # "none"
    BY <1>4 DEF Status, Idle, StageInv, Stages, InFile, InTable
  <2>2. Map!End(w)
    BY <1>1, <1>4, <2>1, MapPhases DEF Leave, Map!End, Map!To, Phase, InFile, InTable
  <2> QED
    BY <2>2 DEF Map!Next
<1>5. CASE Refused(w)
  <2>1. Status(w) = "called"
    BY <1>5 DEF Refused, Status
  <2>2. Map!Fail(w)
    BY <1>1, <1>5, <2>1, MapPhases DEF Refused, call, Map!Fail, Map!To, Phase, InFile, InTable
  <2> QED
    BY <2>2 DEF Map!Next
<1> QED
  BY <1>2, <1>3, <1>4, <1>5

LEMMA MapRegister ==
  ASSUME NEW w \in Processes, NEW p \in Projects, NEW e \in {session[w], Nobody},
         StageInv, Register(w, p, e)
  PROVE  Map!Call(w)
<1>1. Registered' = Registered
  BY RegisteredKept DEF Register, sqlite
<1>2. Status(w) = "none" /\ e \in Entries \union {Nobody}
  BY DEF Register, Status, StageInv, Stages
<1>3. PICK l \in InFile \union InTable : Goto(w, l)
  BY DEF Register, InFile, InTable
<1>4. key' = [key EXCEPT ![w] = p] /\ entry' = [entry EXCEPT ![w] = e]
  BY DEF Register
<1> QED
  <2>1. Map!To(w, "called")
    BY <1>3, MapPhases DEF Map!To, Phase, InFile, InTable
  <2> QED
    BY <1>1, <1>2, <1>4, <2>1 DEF Map!Call

LEMMA MapJSON ==
  ASSUME NEW w \in Processes, IndexInv, CreateTemp(w) \/ WriteTemp(w) \/ Rename(w)
  PROVE  [Map!Next]_<<Registered, [v \in Processes |-> Status(v)], key, entry>>
<1>1. StageInv /\ Status(w) = "called"
  BY DEF IndexInv, CreateTemp, WriteTemp, Rename, Status
<1>2. CASE CreateTemp(w) \/ WriteTemp(w)
  <2>1. [v \in Processes |-> Status(v)]' = [v \in Processes |-> Status(v)]
    BY <1>1, <1>2, MapPhases DEF CreateTemp, WriteTemp, Phase, InFile
  <2>2. ~Rename(w)
    BY <1>2 DEF CreateTemp, WriteTemp, Rename
  <2> QED
    BY <1>2, <2>1, <2>2, FilesJSON DEF CreateTemp, WriteTemp, call
<1>3. CASE Rename(w)
  <2>1. Goto(w, "done")
    BY <1>3, FilesJSON DEF Rename, Goto, IndexInv, StageInv, Stages
  <2>2. Map!Apply(w)
    BY <1>1, <1>3, <2>1, FilesJSON, MapPhases DEF Rename, call, Map!Apply, Map!To, Phase, InFile, InTable
  <2> QED
    BY <2>2 DEF Map!Next
<1> QED
  BY <1>2, <1>3

LEMMA MapSQLite ==
  ASSUME NEW w \in Processes, StageInv, DeleteRow(w) \/ InsertRow(w) \/ Commit(w)
  PROVE  [Map!Next]_<<Registered, [v \in Processes |-> Status(v)], key, entry>>
<1>1. Status(w) = "called" /\ backend = "sqlite" /\ backend' = backend
  BY IndexAssumption
     DEF StageInv, TypeOK, Stages, InTable, DeleteRow, InsertRow, Commit, Status
<1>2. CASE DeleteRow(w) \/ InsertRow(w)
  <2>1. [v \in Processes |-> Status(v)]' = [v \in Processes |-> Status(v)]
    BY <1>1, <1>2, MapPhases DEF DeleteRow, InsertRow, Phase, InTable
  <2>2. Registered' = Registered
    BY <1>2, RegisteredKept DEF DeleteRow, InsertRow, json
  <2> QED
    BY <1>2, <2>1, <2>2 DEF DeleteRow, InsertRow, call
<1>3. CASE Commit(w)
  <2>1. rows' = [rows EXCEPT ![key[w]] = IF entry[w] = Nobody THEN Nobody
                                         ELSE [id |-> NewId, entry |-> entry[w]]]
    BY <1>3 DEF Commit
  <2>2. entry[w] # Nobody => [id |-> NewId, entry |-> entry[w]] # Nobody
    <3>1. entry[w] # Nobody => [id |-> NewId, entry |-> entry[w]] \in [id : Nat, entry : Nat]
      BY DEF NewId, StageInv, TypeOK, Entries
    <3> QED
      BY <3>1, IndexAssumption
  <2>3. Registered' = [Registered EXCEPT ![key[w]] = entry[w]]
    BY <1>1, <2>1, <2>2 DEF Registered, StageInv, TypeOK
  <2>4. Map!Apply(w)
    BY <1>1, <1>3, <2>3, MapPhases DEF Commit, call, Map!Apply, Map!To, Phase, InFile, InTable
  <2> QED
    BY <2>4 DEF Map!Next
<1> QED
  BY <1>2, <1>3

LEMMA MapLookup ==
  ASSUME NEW w \in Processes, NEW q \in Projects, StageInv,
         LookupMemory(w, q) \/ ResolveId(w, q)
  PROVE  UNCHANGED <<Registered, [v \in Processes |-> Status(v)], key, entry>>
<1>1. UNCHANGED <<key, entry>> /\ Registered' = Registered
  BY RegisteredKept DEF LookupMemory, ResolveId, json, sqlite, call
<1>2. CASE LookupMemory(w, q)
  BY <1>1, <1>2 DEF LookupMemory, Status
<1>3. CASE ResolveId(w, q)
  BY <1>1, <1>3, MapPhases DEF ResolveId, Phase, InFile, InTable
<1> QED
  BY <1>2, <1>3

LEMMA MapReads ==
  ASSUME NEW w \in Processes, StageInv, ReadRows(w) \/ ReadMethods(w)
  PROVE  UNCHANGED <<Registered, [v \in Processes |-> Status(v)], key, entry>>
<1>1. UNCHANGED <<key, entry>> /\ Registered' = Registered
  BY RegisteredKept DEF ReadRows, ReadMethods, json, sqlite, call
<1>2. CASE ReadRows(w)
  BY <1>1, <1>2, MapPhases DEF ReadRows, Phase, InFile, InTable
<1>3. CASE ReadMethods(w)
  BY <1>1, <1>3, MapPhases DEF ReadMethods, Phase, InFile, InTable
<1> QED
  BY <1>2, <1>3

LEMMA MapStep ==
  IndexInv /\ [Next]_vars
    => [Map!Next]_<<Registered, [v \in Processes |-> Status(v)], key, entry>>
<1> SUFFICES ASSUME IndexInv, [Next]_vars
             PROVE  [Map!Next]_<<Registered, [v \in Processes |-> Status(v)], key, entry>>
  OBVIOUS
<1>1. CASE UNCHANGED vars
  BY <1>1, RegisteredKept DEF vars, json, sqlite, call, Status
<1>2. ASSUME NEW w \in Processes, Process(w)
      PROVE  [Map!Next]_<<Registered, [v \in Processes |-> Status(v)], key, entry>>
  <2>1. CASE \E p \in Projects : \E e \in {session[w], Nobody} : Register(w, p, e)
    BY <2>1, MapRegister DEF IndexInv, Map!Next
  <2>2. CASE \E q \in Projects : LookupMemory(w, q) \/ ResolveId(w, q)
    BY <2>2, MapLookup DEF IndexInv
  <2>3. CASE ReadRows(w) \/ ReadMethods(w)
    BY <2>3, MapReads DEF IndexInv
  <2> QED
    BY <1>2, <2>1, <2>2, <2>3, MapSession, MapJSON, MapSQLite DEF Process, IndexInv
<1> QED
  BY <1>1, <1>2 DEF Next

\* Both stores are a map of projects, however many processes use them: a call
\* takes effect at once, for its own project only, or not at all
\* (CrossProjectIndex of store.go).
THEOREM StoresImplementMap == ~SharedJSON => (Spec => ImplementsMap)
<1> SUFFICES ASSUME ~SharedJSON PROVE Spec => ImplementsMap
  OBVIOUS
<1>1. Init => IndexInv /\ Map!Init
  BY StageInit, FilesInit, MapInit DEF IndexInv
<1>2. IndexInv /\ [Next]_vars => IndexInv'
  BY FilesStep
<1>3. IndexInv /\ [Next]_vars
        => [Map!Next]_<<Registered, [v \in Processes |-> Status(v)], key, entry>>
  BY MapStep
<1>4. Spec => Map!Spec
  BY <1>1, <1>2, <1>3, PTL DEF Spec, Map!Spec
<1> QED
  BY <1>4 DEF ImplementsMap

-----------------------------------------------------------------------------
(* Lookups.                                                                *)

\* An id is that of one row; an entry that is not registered yet is in no row.
Fresh ==
    /\ \A p, q \in Projects :
          rows[p] # Nobody /\ rows[q] # Nobody /\ rows[p].id = rows[q].id => p = q
    /\ \A p \in Projects : rows[p] # Nobody => rows[p].entry <= sessions
    /\ \A v, w \in Processes :
          pc[v] # "closed" /\ pc[w] # "closed" /\ session[v] = session[w] => v = w
    /\ \A w \in Processes :
          /\ entry[w] \in {session[w], Nobody}
          /\ pc[w] \notin {"closed", "done", "failed"} =>
                \A p \in Projects : rows[p] # Nobody => rows[p].entry # session[w]

Changed(v, p) == \E d, e \in seen[v][p] : d # e

IsCurrent(v) == rows[asked[v]] # Nobody /\ rows[asked[v]].id = id[v]

\* The id a lookup has resolved is that of no other project, ever; and when it
\* is gone, the project was registered again.
Looking(v) ==
    /\ pc[v] # "closed" => \A p \in Projects : Registered[p] \in seen[v][p]
    /\ backend = "json" /\ pc[v] = "open" =>
          \A p \in Projects : memory[v][p] \in seen[v][p]
    /\ pc[v] \in {"rows", "methods"} =>
          /\ asked[v] \in Projects
          /\ id[v] = Nobody => Nobody \in seen[v][asked[v]]
          /\ id[v] # Nobody =>
                /\ \A p \in Holders(id[v]) : p = asked[v]
                /\ IsCurrent(v) \/ Changed(v, asked[v])
    /\ pc[v] = "methods" =>
          \/ found[v] \in seen[v][asked[v]]
          \/ found[v] = Nobody /\ Changed(v, asked[v])
    /\ pc[v] # "open" => answer[v] = Nobody
    /\ answer[v] # Nobody =>
          /\ asked[v] \in Projects
          /\ \/ answer[v].entry \in seen[v][asked[v]]
             \/ answer[v].entry = Nobody /\ Changed(v, asked[v])

LookupInv == StageInv /\ Fresh /\ \A v \in Processes : Looking(v)

LEMMA LookupInit == Init => LookupInv
BY StageInit, IndexAssumption DEF Init, LookupInv, Fresh, Looking, Empty, Registered

LEMMA FreshSession ==
  ASSUME NEW w \in Processes, StageInv, Fresh, Open(w) \/ Leave(w) \/ Refused(w)
  PROVE  Fresh'
<1> USE IndexAssumption DEF StageInv, TypeOK, Stages, Goto, Entries
<1>1. rows' = rows /\ (\A p \in Projects : rows[p] # Nobody => rows[p].entry \in Nat)
  BY DEF Open, Leave, Refused, sqlite, Row
<1>2. CASE Open(w)
  <2>1. \A v \in Processes :
           /\ pc'[v] = IF v = w THEN "open" ELSE pc[v]
           /\ session'[v] = IF v = w THEN sessions + 1 ELSE session[v]
           /\ entry'[v] = entry[v]
    BY <1>2 DEF Open
  <2>2. entry[w] = Nobody /\ sessions' = sessions + 1
    BY <1>2 DEF Open, Idle
  <2> QED
    BY <1>1, <2>1, <2>2 DEF Fresh
<1>3. CASE Leave(w)
  <2>1. \A v \in Processes :
           /\ pc'[v] = IF v = w THEN "closed" ELSE pc[v]
           /\ session'[v] = IF v = w THEN 0 ELSE session[v]
           /\ entry'[v] = IF v = w THEN Nobody ELSE entry[v]
    BY <1>3 DEF Leave
  <2> QED
    BY <1>1, <1>3, <2>1 DEF Fresh, Leave
<1>4. CASE Refused(w)
  <2>1. \A v \in Processes : pc'[v] = IF v = w THEN "failed" ELSE pc[v]
    BY <1>4 DEF Refused
  <2> QED
    BY <1>1, <1>4, <2>1 DEF Fresh, Refused, call
<1> QED
  BY <1>2, <1>3, <1>4

LEMMA FreshCommit ==
  ASSUME NEW w \in Processes, StageInv, Fresh, Commit(w)
  PROVE  Fresh'
<1> USE IndexAssumption DEF StageInv, TypeOK, Stages, Goto
<1> DEFINE r == IF entry[w] = Nobody THEN Nobody ELSE [id |-> NewId, entry |-> entry[w]]
<1>1. \A p \in Projects : rows'[p] = IF p = key[w] THEN r ELSE rows[p]
  BY DEF Commit
<1>2. r # Nobody => r.id = sequence + 1 /\ r.entry = session[w]
  BY DEF NewId, Fresh
<1>3. \A p \in Projects : rows[p] # Nobody => rows[p].id <= sequence
  BY DEF Row, Ids
<1>4. \A v \in Processes : pc'[v] = IF v = w THEN "done" ELSE pc[v]
  BY DEF Commit
<1>5. \A v \in Processes : session[v] <= sessions
  BY DEF Entries
<1>6. UNCHANGED <<session, entry, sessions>>
  BY DEF Commit, call
<1>7. \A p, q \in Projects :
         rows'[p] # Nobody /\ rows'[q] # Nobody /\ rows'[p].id = rows'[q].id => p = q
  <2> HIDE DEF r
  <2>1. sequence + 1 > sequence
    OBVIOUS
  <2> QED
    BY <1>1, <1>2, <1>3, <2>1 DEF Fresh, Row, Ids
<1>8. \A p \in Projects : rows'[p] # Nobody => rows'[p].entry <= sessions'
  BY <1>1, <1>2, <1>5, <1>6 DEF Fresh
<1>9. \A v \in Processes : pc'[v] \notin {"closed", "done", "failed"} =>
         \A p \in Projects : rows'[p] # Nobody => rows'[p].entry # session'[v]
  <2> SUFFICES ASSUME NEW v \in Processes, pc'[v] \notin {"closed", "done", "failed"},
                      NEW p \in Projects, rows'[p] # Nobody
               PROVE  rows'[p].entry # session[v]
    BY <1>6
  <2>1. v # w /\ pc[v] \notin {"closed", "done", "failed"}
    BY <1>4
  <2>2. session[v] # session[w]
    BY <2>1 DEF Fresh, Commit
  <2> QED
    BY <1>1, <1>2, <2>1, <2>2 DEF Fresh
<1> QED
  BY <1>4, <1>6, <1>7, <1>8, <1>9 DEF Fresh, Commit

\* The other steps of a session leave the rows and the sessions alone, and
\* none of them takes a process back to where it may register.
LEMMA FreshOther ==
  ASSUME NEW w \in Processes, StageInv, Fresh, UNCHANGED <<rows, sessions, session>>,
         NEW l, Goto(w, l) \/ UNCHANGED pc,
         pc[w] \notin {"closed", "done", "failed"}, l # "closed",
         \A v \in Processes : entry'[v] \in {entry[v], session[v]}
  PROVE  Fresh'
<1>1. \A v \in Processes : v # w => pc'[v] = pc[v]
  BY DEF Goto, StageInv, Stages
<1>2. pc[w] # "closed" /\ pc'[w] # "closed"
  BY DEF Goto, StageInv, Stages
<1> QED
  BY <1>1, <1>2 DEF Fresh

LEMMA FreshStep == StageInv /\ Fresh /\ [Next]_vars => Fresh'
<1> SUFFICES ASSUME StageInv, Fresh, [Next]_vars PROVE Fresh'
  OBVIOUS
<1>1. CASE UNCHANGED vars
  BY <1>1 DEF vars, sqlite, call, Fresh
<1>2. ASSUME NEW w \in Processes, Process(w) PROVE Fresh'
  <2>1. CASE Open(w) \/ Leave(w) \/ Refused(w)
    BY <2>1, FreshSession
  <2>2. CASE \E p \in Projects : \E e \in {session[w], Nobody} : Register(w, p, e)
    <3>1. PICK p \in Projects, e \in {session[w], Nobody} : Register(w, p, e)
      BY <2>2
    <3>2. \A v \in Processes : entry'[v] \in {entry[v], session[v]}
      BY <3>1 DEF Register, StageInv, TypeOK, Stages, Idle
    <3>3. PICK l \in {"create", "delete"} : Goto(w, l)
      BY <3>1 DEF Register
    <3> QED
      BY <3>1, <3>2, <3>3, FreshOther DEF Register, sqlite
  <2>3. CASE CreateTemp(w) \/ WriteTemp(w) \/ DeleteRow(w) \/ InsertRow(w)
    BY <2>3, FreshOther DEF CreateTemp, WriteTemp, DeleteRow, InsertRow, sqlite, call
  <2>4. CASE Rename(w)
    BY <2>4, FreshOther DEF Rename, sqlite, call
  <2>5. CASE Commit(w)
    BY <2>5, FreshCommit
  <2>6. CASE \E q \in Projects : LookupMemory(w, q) \/ ResolveId(w, q)
    BY <2>6, FreshOther DEF LookupMemory, ResolveId, sqlite, call
  <2>7. CASE ReadRows(w) \/ ReadMethods(w)
    BY <2>7, FreshOther DEF ReadRows, ReadMethods, sqlite, call
  <2> QED
    BY <1>2, <2>1, <2>2, <2>3, <2>4, <2>5, <2>6, <2>7 DEF Process
<1> QED
  BY <1>1, <1>2 DEF Next

\* Rows change only to nothing or to a new id, and then to another entry.
RowsMove ==
  \A p \in Projects :
     \/ rows'[p] = rows[p]
     \/ /\ backend = "sqlite" => Registered'[p] # Registered[p]
        /\ rows'[p] = Nobody \/ rows'[p].id = sequence + 1

LEMMA RowsStep ==
  ASSUME NEW w \in Processes, StageInv, Fresh, Process(w)
  PROVE  RowsMove /\ backend' = backend
<1> USE IndexAssumption DEF StageInv, TypeOK, Stages
<1>1. CASE Commit(w)
  <2> DEFINE r == IF entry[w] = Nobody THEN Nobody ELSE [id |-> NewId, entry |-> entry[w]]
  <2>1. \A p \in Projects : rows'[p] = IF p = key[w] THEN r ELSE rows[p]
    BY <1>1 DEF Commit
  <2>2. backend' = backend /\ pc[w] = "commit"
    BY <1>1 DEF Commit
  <2>3. r # Nobody => r.id = sequence + 1 /\ r.entry = session[w] /\ r.entry # Nobody
    BY <2>2 DEF NewId, Fresh, Entries
  <2>4. rows[key[w]] # Nobody => rows[key[w]].entry # session[w] /\ rows[key[w]].entry # Nobody
    BY <2>2 DEF Fresh, Row, Entries, Idle
  <2>5. key[w] \in Projects
    BY <2>2 DEF Idle
  <2>6. ASSUME backend = "sqlite", rows'[key[w]] # rows[key[w]]
        PROVE  Registered'[key[w]] # Registered[key[w]]
    <3>1. /\ Registered[key[w]] = IF rows[key[w]] = Nobody THEN Nobody ELSE rows[key[w]].entry
          /\ Registered'[key[w]] = IF rows'[key[w]] = Nobody THEN Nobody ELSE rows'[key[w]].entry
      BY <2>2, <2>5, <2>6 DEF Registered
    <3>2. rows'[key[w]] = r
      BY <2>1, <2>5
    <3> QED
      <4> HIDE DEF r
      <4> QED
        BY <2>3, <2>4, <2>6, <3>1, <3>2
  <2> QED
    BY <2>1, <2>2, <2>3, <2>6 DEF RowsMove
<1>2. CASE ~Commit(w)
  BY <1>2 DEF Process, Open, Leave, Register, Refused, CreateTemp, WriteTemp, Rename,
              DeleteRow, InsertRow, LookupMemory, ResolveId, ReadRows, ReadMethods,
              sqlite, RowsMove
<1> QED
  BY <1>1, <1>2

\* What Remember keeps of one process.
LEMMA SeenGrows ==
  ASSUME Remember, NEW v \in Processes, NEW p \in Projects, pc'[v] # "closed"
  PROVE  /\ Registered'[p] \in seen'[v][p]
         /\ ~Begins(v) => seen[v][p] \subseteq seen'[v][p]
BY DEF Remember

LEMMA ChangedStays ==
  ASSUME Remember, NEW v \in Processes, NEW p \in Projects, pc'[v] # "closed", ~Begins(v)
  PROVE  /\ Changed(v, p) => Changed(v, p)'
         /\ Registered[p] \in seen[v][p] /\ Registered'[p] # Registered[p] => Changed(v, p)'
BY SeenGrows DEF Changed

\* A process whose own part of the state does not change: what it has seen grows.
LEMMA LookingKept ==
  ASSUME NEW v \in Processes, StageInv, Looking(v), Remember, RowsMove, backend' = backend,
         pc'[v] = pc[v], memory'[v] = memory[v], asked'[v] = asked[v], id'[v] = id[v],
         found'[v] = found[v], answer'[v] = answer[v]
  PROVE  Looking(v)'
<1> USE IndexAssumption
<1>1. CASE pc[v] = "closed"
  BY <1>1 DEF Looking
<1>2. CASE pc[v] # "closed"
  <2>1. ~Begins(v)
    BY <1>2 DEF Begins
  <2>2. \A p \in Projects : Registered'[p] \in seen'[v][p]
    BY <1>2, SeenGrows
  <2>2a. \A p \in Projects : seen[v][p] \subseteq seen'[v][p]
    BY <1>2, <2>1, SeenGrows
  <2>3. pc[v] \in {"rows", "methods"} /\ id[v] # Nobody =>
           /\ \A p \in Holders(id[v])' : p = asked[v]
           /\ IsCurrent(v)' \/ Changed(v, asked[v])'
    <3> SUFFICES ASSUME pc[v] \in {"rows", "methods"}, id[v] # Nobody
                 PROVE  /\ \A p \in Holders(id[v])' : p = asked[v]
                        /\ IsCurrent(v)' \/ Changed(v, asked[v])'
      OBVIOUS
    <3>1. id[v] \in Nat /\ id[v] <= sequence /\ sequence \in Nat
      BY DEF StageInv, TypeOK, Ids
    <3>2. backend = "sqlite" /\ asked[v] \in Projects
      BY DEF StageInv, TypeOK, Stages, Looking
    <3>3. \A p \in Holders(id[v])' : p \in Holders(id[v])
      BY <3>1 DEF Holders, RowsMove
    <3>4. CASE rows'[asked[v]] = rows[asked[v]]
      <4>1. /\ \A p \in Holders(id[v]) : p = asked[v]
            /\ IsCurrent(v) \/ Changed(v, asked[v])
        BY DEF Looking
      <4>2. Changed(v, asked[v]) => Changed(v, asked[v])'
        <5>1. seen[v][asked[v]] \subseteq seen'[v][asked'[v]]
          BY <2>2a, <3>2
        <5> QED
          BY <5>1 DEF Changed
      <4>3. IsCurrent(v) => IsCurrent(v)'
        BY <3>4 DEF IsCurrent
      <4> QED
        BY <3>3, <4>1, <4>2, <4>3
    <3>5. CASE rows'[asked[v]] # rows[asked[v]]
      <4>1. Registered'[asked[v]] # Registered[asked[v]]
        BY <3>2, <3>5 DEF RowsMove
      <4>2. Registered[asked[v]] \in seen[v][asked[v]]
        BY <1>2, <3>2 DEF Looking
      <4>3. Changed(v, asked[v])'
        BY <1>2, <2>1, <3>2, <4>1, <4>2, ChangedStays
      <4> QED
        BY <3>3, <4>3 DEF Looking
    <3> QED
      BY <3>4, <3>5
  <2>4. pc[v] \in {"rows", "methods"} \/ answer[v] # Nobody => asked[v] \in Projects
    BY DEF Looking
  <2> DEFINE had == seen[v][asked[v]]
             has == seen'[v][asked[v]]
  <2>5. asked[v] \in Projects => had \subseteq has
    BY <2>2a
  <2>6. /\ pc[v] \in {"rows", "methods"} /\ id[v] = Nobody => Nobody \in had
        /\ pc[v] = "methods" =>
              found[v] \in had \/ (found[v] = Nobody /\ \E d, e \in had : d # e)
        /\ answer[v] # Nobody =>
              \/ answer[v].entry \in had
              \/ answer[v].entry = Nobody /\ \E d, e \in had : d # e
    BY DEF Looking, Changed
  <2>7. /\ pc[v] \in {"rows", "methods"} /\ id[v] = Nobody => Nobody \in has
        /\ pc[v] = "methods" =>
              found[v] \in has \/ (found[v] = Nobody /\ \E d, e \in has : d # e)
        /\ answer[v] # Nobody =>
              \/ answer[v].entry \in has
              \/ answer[v].entry = Nobody /\ \E d, e \in has : d # e
    <3> HIDE DEF had, has
    <3> QED
      BY <2>4, <2>5, <2>6
  <2>8. backend = "json" /\ pc[v] = "open" =>
           \A p \in Projects : memory'[v][p] \in seen'[v][p]
    BY <2>2a DEF Looking
  <2>9. pc[v] # "open" => answer[v] = Nobody
    BY DEF Looking
  <2> QED
    BY <2>2, <2>3, <2>4, <2>7, <2>8, <2>9 DEF Looking, Changed
<1> QED
  BY <1>1, <1>2

\* A process whose call is under way, or over, or which closes, looks nothing up.
LEMMA LookingNot ==
  ASSUME NEW v \in Processes, Remember, pc'[v] \notin {"open", "rows", "methods"},
         answer'[v] = Nobody
  PROVE  Looking(v)'
<1>1. pc'[v] # "closed" => \A p \in Projects : Registered'[p] \in seen'[v][p]
  BY SeenGrows
<1> QED
  BY <1>1 DEF Looking

LEMMA LookingOpens ==
  ASSUME NEW w \in Processes, StageInv, Looking(w), Remember, Open(w)
  PROVE  Looking(w)'
<1> USE DEF StageInv, TypeOK, Stages, Goto
<1>1. pc'[w] = "open" /\ pc[w] = "closed"
  BY DEF Open
<1>2. \A p \in Projects : Registered'[p] \in seen'[w][p]
  BY <1>1, SeenGrows
<1>3. Registered' = Registered /\ backend' = backend
  BY RegisteredKept DEF Open, sqlite
<1>4. backend = "json" => memory'[w] = Registered
  BY DEF Open
<1>5. answer'[w] = Nobody
  BY <1>1 DEF Open, lookup, Looking
<1> QED
  BY <1>1, <1>2, <1>3, <1>4, <1>5 DEF Looking

LEMMA LookingInMemory ==
  ASSUME NEW w \in Processes, NEW q \in Projects, StageInv, Looking(w), Remember,
         LookupMemory(w, q)
  PROVE  Looking(w)'
<1> USE DEF StageInv, TypeOK, Stages
<1>1. pc[w] = "open" /\ pc' = pc /\ backend = "json" /\ backend' = backend
  BY DEF LookupMemory
<1>2. \A p \in Projects : Registered'[p] \in seen'[w][p] /\ seen[w][p] \subseteq seen'[w][p]
  BY <1>1, SeenGrows DEF Begins
<1>3. \A p \in Projects : memory[w][p] \in seen'[w][p]
  BY <1>1, <1>2 DEF Looking
<1>4. asked'[w] = q /\ answer'[w].entry = memory[w][q]
  BY DEF LookupMemory
<1>5. memory' = memory
  BY DEF LookupMemory, json
<1> QED
  BY <1>1, <1>2, <1>3, <1>4, <1>5 DEF Looking

LEMMA LookingResolves ==
  ASSUME NEW w \in Processes, NEW q \in Projects, StageInv, Fresh, Looking(w), Remember,
         ResolveId(w, q)
  PROVE  Looking(w)'
<1> USE DEF StageInv, TypeOK, Stages, Goto
<1>1. /\ pc'[w] = "rows" /\ backend = "sqlite" /\ backend' = backend /\ rows' = rows
      /\ asked'[w] = q /\ answer'[w] = Nobody
      /\ id'[w] = IF rows[q] = Nobody THEN Nobody ELSE rows[q].id
  BY DEF ResolveId, sqlite
<1>2. \A p \in Projects : Registered'[p] \in seen'[w][p]
  BY <1>1, SeenGrows
<1>3. id'[w] = Nobody => Registered'[q] = Nobody
  <2>1. rows[q] # Nobody => rows[q].id # Nobody
    BY IndexAssumption DEF Row, Ids
  <2> QED
    BY <1>1, <2>1 DEF Registered
<1>4. id'[w] # Nobody => IsCurrent(w)'
  BY <1>1 DEF IsCurrent
<1>5. id'[w] # Nobody => \A p \in Holders(id[w])' : p = asked'[w]
  BY <1>1 DEF Holders, Fresh
<1> QED
  BY <1>1, <1>2, <1>3, <1>4, <1>5 DEF Looking

LEMMA LookingReadsRows ==
  ASSUME NEW w \in Processes, StageInv, Looking(w), Remember, ReadRows(w)
  PROVE  Looking(w)'
<1> USE DEF StageInv, TypeOK, Stages, Goto
<1>1. /\ pc[w] = "rows" /\ pc'[w] = "methods" /\ backend = "sqlite" /\ backend' = backend
      /\ rows' = rows /\ asked' = asked /\ id' = id /\ answer' = answer
      /\ asked[w] \in Projects /\ answer[w] = Nobody
  BY IndexAssumption DEF ReadRows, sqlite, Looking
<1>2. /\ \A p \in Projects : Registered'[p] \in seen'[w][p]
      /\ seen[w][asked[w]] \subseteq seen'[w][asked[w]]
  BY <1>1, SeenGrows DEF Begins
<1>3. Registered' = Registered
  BY <1>1, RegisteredKept DEF ReadRows, json
<1>4. Changed(w, asked[w]) => Changed(w, asked[w])'
  BY <1>1, <1>2 DEF Changed
<1>5. CASE id[w] = Nobody
  <2>1. Holders(id[w]) = {}
    BY <1>5, IndexAssumption DEF Holders, Row, Ids
  <2>2. found'[w] = Nobody
    BY <2>1 DEF ReadRows
  <2> QED
    BY <1>1, <1>2, <1>5, <2>2 DEF Looking
<1>6. CASE id[w] # Nobody /\ IsCurrent(w)
  <2>1. Holders(id[w]) = {asked[w]}
    BY <1>1, <1>6 DEF Holders, IsCurrent, Looking
  <2>2. found'[w] = rows[asked[w]].entry
    BY <2>1 DEF ReadRows
  <2>3. found'[w] = Registered'[asked[w]]
    BY <1>1, <1>3, <1>6, <2>2 DEF Registered, IsCurrent
  <2>4. IsCurrent(w)' /\ Holders(id[w])' = Holders(id[w])
    BY <1>1, <1>6 DEF IsCurrent, Holders
  <2> QED
    BY <1>1, <1>2, <1>6, <2>1, <2>3, <2>4 DEF Looking
<1>7. CASE id[w] # Nobody /\ ~IsCurrent(w)
  <2>1. Holders(id[w]) = {} /\ Changed(w, asked[w])
    BY <1>1, <1>7 DEF Holders, IsCurrent, Looking
  <2>2. found'[w] = Nobody
    BY <2>1 DEF ReadRows
  <2>3. Holders(id[w])' = {}
    BY <1>1, <2>1 DEF Holders
  <2> QED
    BY <1>1, <1>2, <1>4, <1>7, <2>1, <2>2, <2>3 DEF Looking
<1> QED
  BY <1>5, <1>6, <1>7

LEMMA LookingReadsMethods ==
  ASSUME NEW w \in Processes, StageInv, Looking(w), Remember, ReadMethods(w)
  PROVE  Looking(w)'
<1> USE DEF StageInv, TypeOK, Stages, Goto
<1>1. /\ pc[w] = "methods" /\ pc'[w] = "open" /\ backend = "sqlite" /\ backend' = backend
      /\ asked' = asked /\ asked[w] \in Projects /\ answer'[w].entry = found[w]
  BY IndexAssumption DEF ReadMethods, Looking
<1>2. /\ \A p \in Projects : Registered'[p] \in seen'[w][p]
      /\ seen[w][asked[w]] \subseteq seen'[w][asked[w]]
  BY <1>1, SeenGrows DEF Begins
<1>3. Changed(w, asked[w]) => Changed(w, asked[w])'
  BY <1>1, <1>2 DEF Changed
<1> QED
  BY <1>1, <1>2, <1>3 DEF Looking

LEMMA LookupStep == LookupInv /\ [Next]_vars => LookupInv'
<1> SUFFICES ASSUME LookupInv, [Next]_vars,
                    NEW v \in Processes
             PROVE  Looking(v)'
  BY StageStep, FreshStep DEF LookupInv
<1> USE DEF LookupInv
<1>1. CASE UNCHANGED vars
  <2>1. Registered' = Registered
    BY <1>1, RegisteredKept DEF vars, json, sqlite
  <2> QED
    BY <1>1, <2>1 DEF vars, json, sqlite, lookup, Looking, Changed, Holders, IsCurrent
<1>2. ASSUME NEW w \in Processes, Process(w), Remember, v # w PROVE Looking(v)'
  <2>1. /\ pc'[v] = pc[v] /\ memory'[v] = memory[v] /\ asked'[v] = asked[v]
        /\ id'[v] = id[v] /\ found'[v] = found[v] /\ answer'[v] = answer[v]
    BY <1>2 DEF Process, Open, Leave, Register, Refused, CreateTemp, WriteTemp, Rename,
                DeleteRow, InsertRow, Commit, LookupMemory, ResolveId, ReadRows,
                ReadMethods, Goto, json, lookup, StageInv, TypeOK, Stages
  <2> QED
    BY <1>2, <2>1, RowsStep, LookingKept
<1>3. ASSUME Process(v), Remember PROVE Looking(v)'
  <2>1. CASE Open(v)
    BY <1>3, <2>1, LookingOpens
  <2>2. CASE \E q \in Projects : LookupMemory(v, q) \/ ResolveId(v, q)
    BY <1>3, <2>2, LookingInMemory, LookingResolves
  <2>3. CASE ReadRows(v)
    BY <1>3, <2>3, LookingReadsRows
  <2>4. CASE ReadMethods(v)
    BY <1>3, <2>4, LookingReadsMethods
  <2>5. CASE Leave(v) \/ \E p \in Projects : \E e \in {session[v], Nobody} : Register(v, p, e)
    <3>1. pc'[v] \notin {"open", "rows", "methods"} /\ answer'[v] = Nobody
      BY <2>5 DEF Leave, Register, Goto, StageInv, TypeOK, Stages
    <3> QED
      BY <1>3, <3>1, LookingNot
  <2>6. CASE Refused(v) \/ CreateTemp(v) \/ WriteTemp(v) \/ Rename(v)
             \/ DeleteRow(v) \/ InsertRow(v) \/ Commit(v)
    <3>1. pc'[v] \notin {"open", "rows", "methods"} /\ pc[v] # "open" /\ answer' = answer
      BY <2>6 DEF Refused, CreateTemp, WriteTemp, Rename, DeleteRow, InsertRow, Commit,
                  Goto, lookup, StageInv, Stages
    <3>2. answer'[v] = Nobody
      BY <3>1 DEF Looking
    <3> QED
      BY <1>3, <3>1, <3>2, LookingNot
  <2> QED
    BY <1>3, <2>1, <2>2, <2>3, <2>4, <2>5, <2>6 DEF Process
<1> QED
  BY <1>1, <1>2, <1>3 DEF Next

\* A lookup never answers with an entry of another project, nor with one the
\* project did not have since the lookup began, whatever is registered
\* meanwhile and with either store (LookupSymbol, GetDependencySymbols).
THEOREM LookupsAnswerTruly == Spec => []AnswersAreReal
<1>1. LookupInv => AnswersAreReal
  BY DEF LookupInv, Looking, Changed, AnswersAreReal
<1> QED
  BY <1>1, LookupInit, LookupStep, PTL DEF Spec
=============================================================================
