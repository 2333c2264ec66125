----------------------------- MODULE ParsePool ------------------------------
(***************************************************************************)
(* parseFiles of internal/service: a feeder puts the files of a batch into *)
(* a buffered channel, workers take them out, read and parse them through  *)
(* the parse cache they share on disk, and add the symbols to the symbol   *)
(* table and the result to the list of results.                            *)
(*                                                                         *)
(* A file is its position in the batch.  The channel is FIFO, so what is   *)
(* in it are the positions received + 1 .. sent.  The parse cache is keyed *)
(* by the hash of the content; what is abstracted of a parse result is the *)
(* file whose path its symbols carry in their IDs.                         *)
(***************************************************************************)
EXTENDS Naturals

CONSTANTS
    N,              \* files in the batch
    Workers,        \* goroutines
    Capacity,       \* of the channel: twice the number of workers
    Contents,       \* hashes of contents
    None,           \* no cache entry, no result
    Partial,        \* a cache file that is created and not yet written
    Failures,       \* may reading and parsing fail?
    WarmCache       \* does the cache hold entries of earlier runs?

Files == 1 .. N
Elsewhere == 0      \* a file that is not in the batch

ASSUME PoolAssumption ==
    /\ N \in Nat
    /\ Workers # {}
    /\ Capacity \in Nat \ {0}
    /\ Failures \in BOOLEAN /\ WarmCache \in BOOLEAN
    /\ None \notin Nat /\ Partial \notin Nat /\ None # Partial

VARIABLES
    content,        \* the content each file has when it is read
    cache,          \* the parse cache: content -> file the symbols are those of
    feeder,         \* "feeding", "waiting" for the workers, or "returned"
    sent, received,
    pc,             \* where each worker is
    at,             \* the file each worker has in hand
    origin,         \* the file the symbols it has in hand are those of
    table,          \* files whose symbols the symbol table has under their IDs
    results,        \* results: file -> the file its symbols are those of
    errors          \* files in the list of errors

queue == <<feeder, sent, received>>
lists == <<table, results, errors>>
vars == <<content, cache, queue, pc, at, origin, lists>>

Init ==
    /\ content \in [Files -> Contents]
    /\ cache \in [Contents ->
                    IF WarmCache THEN Files \union {Elsewhere, None, Partial}
                                 ELSE {None}]
    /\ feeder = "feeding"
    /\ sent = 0 /\ received = 0
    /\ pc = [w \in Workers |-> "range"]
    /\ at = [w \in Workers |-> Elsewhere]
    /\ origin = [w \in Workers |-> Elsewhere]
    /\ table = {}
    /\ results = [i \in Files |-> None]
    /\ errors = {}

-----------------------------------------------------------------------------
(* The feeder.                                                             *)

\* Mutant of Send: the channel is taken to be unbounded.
SendUnbounded ==
    /\ feeder = "feeding"
    /\ sent < N
    /\ sent' = sent + 1
    /\ UNCHANGED <<content, cache, feeder, received, pc, at, origin, lists>>

Send ==
    /\ feeder = "feeding"
    /\ sent < N
    /\ sent - received < Capacity
    /\ sent' = sent + 1
    /\ UNCHANGED <<content, cache, feeder, received, pc, at, origin, lists>>

\* close(fileChannel), then waitGroup.Wait()
Close ==
    /\ feeder = "feeding"
    /\ sent = N
    /\ feeder' = "waiting"
    /\ UNCHANGED <<content, cache, sent, received, pc, at, origin, lists>>

Return ==
    /\ feeder = "waiting"
    /\ \A w \in Workers : pc[w] = "gone"
    /\ feeder' = "returned"
    /\ UNCHANGED <<content, cache, sent, received, pc, at, origin, lists>>

-----------------------------------------------------------------------------
(* A worker.                                                               *)

Goto(w, label) == pc' = [pc EXCEPT ![w] = label]

Receive(w) ==
    /\ pc[w] = "range"
    /\ received < sent
    /\ received' = received + 1
    /\ at' = [at EXCEPT ![w] = received + 1]
    /\ Goto(w, "read")
    /\ UNCHANGED <<content, cache, feeder, sent, origin, lists>>

\* Mutant of Exit: a worker that finds the channel empty leaves.
ExitWhenEmpty(w) ==
    /\ pc[w] = "range"
    /\ received = sent
    /\ Goto(w, "gone")
    /\ UNCHANGED <<content, cache, queue, at, origin, lists>>

\* The range over the channel ends when it is closed and drained.
Exit(w) ==
    /\ pc[w] = "range"
    /\ feeder # "feeding"
    /\ received = sent
    /\ Goto(w, "gone")
    /\ UNCHANGED <<content, cache, queue, at, origin, lists>>

\* Mutant of Fail: the error is not appended.
FailSilently(w) ==
    /\ Failures
    /\ pc[w] \in {"read", "parse"}
    /\ Goto(w, "range")
    /\ UNCHANGED <<content, cache, queue, at, origin, lists>>

\* os.ReadFile or the parser fails: the error is recorded, the worker goes on.
Fail(w) ==
    /\ Failures
    /\ pc[w] \in {"read", "parse"}
    /\ errors' = errors \union {at[w]}
    /\ Goto(w, "range")
    /\ UNCHANGED <<content, cache, queue, at, origin, table, results>>

\* The file is read and its content looked up in the cache.  A hit skips
\* parsing; a file that is being written does not decode and is a miss.
Read(w) ==
    /\ pc[w] = "read"
    /\ LET cached == cache[content[at[w]]]
       IN  IF cached \in {None, Partial}
           THEN Goto(w, "parse") /\ UNCHANGED origin
           ELSE Goto(w, "add") /\ origin' = [origin EXCEPT ![w] = cached]
    /\ UNCHANGED <<content, cache, queue, at, lists>>

\* Tree-sitter and the extractor of the language: the symbols get IDs made
\* from the path of the file in hand.
Parse(w) ==
    /\ pc[w] = "parse"
    /\ origin' = [origin EXCEPT ![w] = at[w]]
    /\ Goto(w, "create")
    /\ UNCHANGED <<content, cache, queue, at, lists>>

\* saveCache: os.Create truncates the cache file; if it fails nothing is saved.
CreateCache(w) ==
    /\ pc[w] = "create"
    /\ \/ cache' = [cache EXCEPT ![content[at[w]]] = Partial] /\ Goto(w, "write")
       \/ cache' = cache /\ Goto(w, "add")
    /\ UNCHANGED <<content, queue, at, origin, lists>>

WriteCache(w) ==
    /\ pc[w] = "write"
    /\ cache' = [cache EXCEPT ![content[at[w]]] = origin[w]]
    /\ Goto(w, "add")
    /\ UNCHANGED <<content, queue, at, origin, lists>>

\* Mutant of AddSymbols: a result found in the cache is not added.
AddSymbolsParsed(w) ==
    /\ pc[w] = "add"
    /\ table' = IF origin[w] = at[w] THEN table \union {at[w]} ELSE table
    /\ Goto(w, "append")
    /\ UNCHANGED <<content, cache, queue, at, origin, results, errors>>

\* symbolTable.AddBatch: of the symbols of the result, cached or not.
AddSymbols(w) ==
    /\ pc[w] = "add"
    /\ table' = table \union {origin[w]}
    /\ Goto(w, "append")
    /\ UNCHANGED <<content, cache, queue, at, origin, results, errors>>

AppendResult(w) ==
    /\ pc[w] = "append"
    /\ results' = [results EXCEPT ![at[w]] = origin[w]]
    /\ Goto(w, "range")
    /\ UNCHANGED <<content, cache, queue, at, origin, table, errors>>

Feeder == Send \/ Close \/ Return

Worker(w) ==
    \/ Receive(w)
    \/ Exit(w)
    \/ Fail(w)
    \/ Read(w)
    \/ Parse(w)
    \/ CreateCache(w)
    \/ WriteCache(w)
    \/ AddSymbols(w)
    \/ AppendResult(w)

Done == feeder = "returned" /\ UNCHANGED vars

Next == Feeder \/ (\E w \in Workers : Worker(w)) \/ Done

Spec == Init /\ [][Next]_vars

\* The Go scheduler runs every goroutine that can go on.
FairSpec == Spec /\ WF_vars(Feeder) /\ \A w \in Workers : WF_vars(Worker(w))

-----------------------------------------------------------------------------
(* Properties.                                                             *)

Busy == {"read", "parse", "create", "write", "add", "append"}
InHand == {at[w] : w \in {v \in Workers : pc[v] \in Busy}}
Parsed == {i \in Files : results[i] # None}

\* Type invariant; the channel never holds more than its capacity.
TypeOK ==
    /\ content \in [Files -> Contents]
    /\ cache \in [Contents -> Files \union {Elsewhere, None, Partial}]
    /\ feeder \in {"feeding", "waiting", "returned"}
    /\ sent \in 0 .. N /\ received \in 0 .. sent
    /\ sent - received <= Capacity
    /\ pc \in [Workers -> Busy \union {"range", "gone"}]
    /\ at \in [Workers -> Files \union {Elsewhere}]
    /\ origin \in [Workers -> Files \union {Elsewhere}]
    /\ table \subseteq Files \union {Elsewhere}
    /\ results \in [Files -> Files \union {Elsewhere, None}]
    /\ errors \subseteq Files

\* Every file the workers have taken out is in the hands of exactly one of
\* them, or a result, or an error, and never two of these; and a result is
\* never listed before its symbols can be looked up in the symbol table.
Accounted ==
    /\ 1 .. received = InHand \union Parsed \union errors
    /\ InHand \intersect (Parsed \union errors) = {}
    /\ Parsed \intersect errors = {}
    /\ \A v, w \in Workers :
          v # w /\ pc[v] \in Busy /\ pc[w] \in Busy => at[v] # at[w]
    /\ {results[i] : i \in Parsed} \subseteq table

\* The pool accounts for every file exactly once, in some order, and returns.
Outcome(i) ==
    IF results[i] # None THEN "parsed" ELSE IF i \in errors THEN "failed" ELSE "open"

Batch == INSTANCE ParseBatch WITH
           outcome <- [i \in Files |-> Outcome(i)],
           returned <- feeder = "returned"

ImplementsBatch == Batch!FairSpec

=============================================================================
