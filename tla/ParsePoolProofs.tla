--------------------------- MODULE ParsePoolProofs ---------------------------
(***************************************************************************)
(* For every number of files, workers and slots of the channel: the types  *)
(* of ParsePool, that its workers lose and duplicate no file, and that it  *)
(* implements ParseBatch (its safety part; liveness is left to TLC).       *)
(***************************************************************************)
EXTENDS ParsePool, TLAPS

\* What a worker may rely on where it stands, and the feeder when it waits.
Places ==
    /\ feeder # "feeding" => sent = N
    /\ \A w \in Workers :
          /\ pc[w] \in Busy => at[w] \in Files
          /\ pc[w] = "append" => origin[w] \in table
          /\ pc[w] = "gone" => feeder # "feeding" /\ received = sent
    /\ feeder = "returned" => \A w \in Workers : pc[w] = "gone"

PoolInv == TypeOK /\ Places /\ Accounted

-----------------------------------------------------------------------------
(* Types.                                                                  *)

\* A slot of the cache holds the file its symbols are those of, or a mark.
LEMMA Marks == None \notin Files \union {Elsewhere} /\ Partial \notin Files \union {Elsewhere}
BY PoolAssumption DEF Files, Elsewhere

LEMMA TypeInit == Init => TypeOK
BY PoolAssumption DEF Init, TypeOK, Files, Elsewhere, Busy

LEMMA TypeFeeder == TypeOK /\ Feeder => TypeOK'
<1> SUFFICES ASSUME TypeOK, Feeder PROVE TypeOK'
  OBVIOUS
<1> USE PoolAssumption
<1>1. CASE Send
  <2>1. sent' \in 0 .. N /\ received' \in 0 .. sent' /\ sent' - received' <= Capacity
    BY <1>1 DEF Send, TypeOK
  <2> QED
    BY <1>1, <2>1 DEF Send, TypeOK, lists
<1>2. CASE Close
  BY <1>2 DEF Close, TypeOK, lists
<1>3. CASE Return
  BY <1>3 DEF Return, TypeOK, lists
<1> QED
  BY <1>1, <1>2, <1>3 DEF Feeder

LEMMA TypeWorker ==
  ASSUME NEW w \in Workers, TypeOK, Worker(w), at[w] \in Files \/ pc[w] \notin Busy
  PROVE  TypeOK'
<1> USE PoolAssumption, Marks DEF TypeOK, Goto
<1>1. CASE Receive(w)
  <2>1. received + 1 \in Files /\ received' \in 0 .. sent' /\ sent' - received' <= Capacity
    BY <1>1 DEF Receive, Files
  <2>2. pc' \in [Workers -> Busy \union {"range", "gone"}]
    BY <1>1 DEF Receive, Busy
  <2>3. at' \in [Workers -> Files \union {Elsewhere}]
    BY <1>1, <2>1 DEF Receive
  <2> QED
    BY <1>1, <2>1, <2>2, <2>3 DEF Receive, lists
<1>2. CASE Exit(w)
  BY <1>2 DEF Exit, queue, lists
<1>3. CASE Fail(w)
  BY <1>3 DEF Fail, queue, Busy
<1>4. CASE Read(w)
  <2> DEFINE cached == cache[content[at[w]]]
  <2>1. at[w] \in Files /\ content[at[w]] \in Contents
    BY <1>4 DEF Read, Busy
  <2>2. CASE cached \in {None, Partial}
    BY <1>4, <2>2 DEF Read, queue, lists, Busy
  <2>3. CASE cached \notin {None, Partial}
    <3>1. cached \in Files \union {Elsewhere}
      BY <2>1, <2>3
    <3>2. origin' \in [Workers -> Files \union {Elsewhere}]
      BY <1>4, <2>3, <3>1 DEF Read
    <3> QED
      BY <1>4, <2>3, <3>2 DEF Read, queue, lists, Busy
  <2> QED
    BY <2>2, <2>3
<1>5. CASE Parse(w)
  BY <1>5 DEF Parse, queue, lists, Busy
<1>6. CASE CreateCache(w)
  BY <1>6 DEF CreateCache, queue, lists, Busy
<1>7. CASE WriteCache(w)
  BY <1>7 DEF WriteCache, queue, lists, Busy
<1>8. CASE AddSymbols(w)
  BY <1>8 DEF AddSymbols, queue, Busy
<1>9. CASE AppendResult(w)
  BY <1>9 DEF AppendResult, queue, Busy
<1> QED
  BY <1>1, <1>2, <1>3, <1>4, <1>5, <1>6, <1>7, <1>8, <1>9 DEF Worker

-----------------------------------------------------------------------------
(* No file is lost or worked on twice.                                     *)

LEMMA PoolInit == Init => PoolInv
<1> SUFFICES ASSUME Init PROVE PoolInv
  OBVIOUS
<1>1. TypeOK
  BY TypeInit
<1>2. Places
  BY DEF Init, Places, Busy
<1>3. Accounted
  BY DEF Init, Accounted, InHand, Parsed, Busy, Files
<1> QED
  BY <1>1, <1>2, <1>3 DEF PoolInv

LEMMA PoolFeeder == PoolInv /\ Feeder => PoolInv'
<1> SUFFICES ASSUME PoolInv, Feeder PROVE PoolInv'
  OBVIOUS
<1>1. TypeOK'
  BY TypeFeeder DEF PoolInv
<1>2. Places'
  BY PoolAssumption DEF PoolInv, TypeOK, Places, Feeder, Send, Close, Return, lists
<1>3. Accounted'
  BY DEF PoolInv, Accounted, InHand, Parsed, Feeder, Send, Close, Return, lists
<1> QED
  BY <1>1, <1>2, <1>3 DEF PoolInv

\* A worker that keeps its file and touches neither results nor errors keeps
\* every file accounted for.
LEMMA KeepsAccount ==
  ASSUME NEW w \in Workers, TypeOK, Accounted, pc[w] \in Busy,
         NEW label \in Busy, Goto(w, label),
         UNCHANGED <<received, at, results, errors>>, table \subseteq table'
  PROVE  Accounted'
<1>1. \A v \in Workers : pc'[v] \in Busy <=> pc[v] \in Busy
  BY DEF TypeOK, Goto
<1>2. InHand' = InHand /\ Parsed' = Parsed
  BY <1>1 DEF InHand, Parsed
<1> QED
  BY <1>1, <1>2 DEF Accounted

\* A worker that puts its file down as a result or as an error.
LEMMA PutsDown ==
  ASSUME NEW w \in Workers, TypeOK, Accounted, pc[w] \in Busy, at[w] \in Files,
         Goto(w, "range"), UNCHANGED <<received, at, table>>,
         \/ /\ errors' = errors \union {at[w]}
            /\ results' = results
         \/ /\ results' = [results EXCEPT ![at[w]] = origin[w]]
            /\ origin[w] \in table
            /\ errors' = errors
  PROVE  Accounted'
<1> USE DEF TypeOK
<1>1. \A v \in Workers : pc'[v] \in Busy <=> v # w /\ pc[v] \in Busy
  BY DEF Goto, Busy
<1>2. InHand' = InHand \ {at[w]}
  BY <1>1 DEF InHand, Accounted
<1>3. at[w] \in InHand /\ at[w] \notin Parsed /\ at[w] \notin errors
  BY DEF InHand, Accounted
<1>4. origin[w] # None
  BY Marks
<1>5. \/ Parsed' = Parsed /\ errors' = errors \union {at[w]}
      \/ Parsed' = Parsed \union {at[w]} /\ errors' = errors
  BY <1>4 DEF Parsed
<1>6. {results'[i] : i \in Parsed'} \subseteq table'
  BY <1>5 DEF Parsed, Accounted
<1>7. \A u, v \in Workers :
         u # v /\ pc'[u] \in Busy /\ pc'[v] \in Busy => at'[u] # at'[v]
  BY <1>1 DEF Accounted
<1>8. 1 .. received' = InHand' \union Parsed' \union errors'
  BY <1>2, <1>3, <1>5 DEF Accounted
<1> QED
  BY <1>2, <1>3, <1>5, <1>6, <1>7, <1>8 DEF Accounted

LEMMA PoolWorker == ASSUME NEW w \in Workers, PoolInv, Worker(w) PROVE PoolInv'
<1> USE PoolAssumption DEF PoolInv
<1>1. TypeOK /\ Places /\ Accounted
  OBVIOUS
<1>2. pc[w] \in Busy => at[w] \in Files
  BY DEF Places
<1>3. TypeOK'
  BY <1>2, TypeWorker
<1>4. CASE Receive(w)
  <2>1. received + 1 \in Files /\ received \in Nat
    BY <1>4 DEF Receive, TypeOK, Files
  <2>2. \A v \in Workers : pc'[v] \in Busy <=> v = w \/ pc[v] \in Busy
    BY <1>4 DEF Receive, TypeOK, Goto, Busy
  <2>3. \A v \in Workers : v # w => at'[v] = at[v] /\ pc'[v] = pc[v]
    BY <1>4 DEF Receive, TypeOK, Goto
  <2>4. at'[w] = received + 1 /\ pc'[w] = "read"
    BY <1>4 DEF Receive, TypeOK, Goto
  <2>5. pc[w] \notin Busy
    BY <1>4 DEF Receive, Busy
  <2>6. InHand' = InHand \union {received + 1}
    BY <2>2, <2>3, <2>4, <2>5 DEF InHand
  <2>7. received + 1 \notin InHand \union Parsed \union errors
    BY <2>1 DEF Accounted
  <2>8. Parsed' = Parsed /\ errors' = errors /\ results' = results /\ table' = table
    BY <1>4 DEF Receive, lists, Parsed
  <2>9. 1 .. received' = InHand' \union Parsed' \union errors'
    <3>1. 1 .. received' = 1 .. received \union {received + 1}
      BY <1>4, <2>1 DEF Receive
    <3> QED
      BY <2>6, <2>8, <3>1 DEF Accounted
  <2>10. \A v \in Workers : v # w /\ pc[v] \in Busy => at[v] \in InHand
    BY DEF InHand
  <2>11. \A u, v \in Workers :
            u # v /\ pc'[u] \in Busy /\ pc'[v] \in Busy => at'[u] # at'[v]
    BY <2>2, <2>3, <2>4, <2>7, <2>10 DEF Accounted
  <2>12. {results'[i] : i \in Parsed'} \subseteq table'
    BY <2>8 DEF Accounted
  <2>13. Accounted'
    BY <2>6, <2>7, <2>8, <2>9, <2>11, <2>12 DEF Accounted
  <2>14. \A v \in Workers : pc[v] # "gone"
    BY <1>4 DEF Receive, Places, TypeOK
  <2>15. Places'
    BY <1>4, <2>1, <2>3, <2>4, <2>14 DEF Receive, Places, Busy, lists
  <2> QED
    BY <1>3, <2>13, <2>15
<1>5. CASE Exit(w)
  <2>1. \A v \in Workers : pc'[v] = IF v = w THEN "gone" ELSE pc[v]
    BY <1>5 DEF Exit, Goto, TypeOK
  <2>2. InHand' = InHand /\ Parsed' = Parsed
    BY <1>5, <2>1 DEF Exit, InHand, Parsed, lists, Busy
  <2>3. Accounted'
    BY <1>5, <2>1, <2>2 DEF Exit, Accounted, Parsed, lists, queue, Busy
  <2>4. Places'
    BY <1>5, <2>1 DEF Exit, Places, queue, lists, Busy
  <2> QED
    BY <1>3, <2>3, <2>4
<1>6. CASE Fail(w)
  <2>1. Accounted'
    BY <1>1, <1>2, <1>6, PutsDown DEF Fail, queue, Busy
  <2>2. Places'
    BY <1>6 DEF Fail, Places, TypeOK, Goto, queue, Busy
  <2> QED
    BY <1>3, <2>1, <2>2
<1>7. CASE AppendResult(w)
  <2>1. origin[w] \in table
    BY <1>7 DEF AppendResult, Places
  <2>2. Accounted'
    BY <1>1, <1>2, <1>7, <2>1, PutsDown DEF AppendResult, queue, Busy
  <2>3. Places'
    BY <1>7 DEF AppendResult, Places, TypeOK, Goto, queue, Busy
  <2> QED
    BY <1>3, <2>2, <2>3
<1>8. CASE Read(w) \/ Parse(w) \/ CreateCache(w) \/ WriteCache(w)
  <2>1. PICK label \in Busy \ {"append"} : Goto(w, label)
    BY <1>8 DEF Read, Parse, CreateCache, WriteCache, Busy
  <2>2. UNCHANGED <<feeder, sent, received, at, table, results, errors>> /\ pc[w] \in Busy
    BY <1>8 DEF Read, Parse, CreateCache, WriteCache, queue, lists, Busy
  <2>3. \A v \in Workers : v # w => origin'[v] = origin[v]
    BY <1>8 DEF Read, Parse, CreateCache, WriteCache, TypeOK
  <2>4. Accounted'
    BY <1>1, <2>1, <2>2, KeepsAccount
  <2>5. Places'
    BY <1>2, <2>1, <2>2, <2>3 DEF Places, TypeOK, Goto, Busy
  <2> QED
    BY <1>3, <2>4, <2>5
<1>9. CASE AddSymbols(w)
  <2>1. pc[w] \in Busy /\ "append" \in Busy
    BY <1>9 DEF AddSymbols, Busy
  <2>2. Accounted'
    BY <1>1, <1>9, <2>1, KeepsAccount DEF AddSymbols, queue
  <2>3. Places'
    BY <1>9 DEF AddSymbols, Places, TypeOK, Goto, queue, Busy
  <2> QED
    BY <1>3, <2>2, <2>3
<1> QED
  BY <1>4, <1>5, <1>6, <1>7, <1>8, <1>9 DEF Worker

LEMMA PoolStep == PoolInv /\ [Next]_vars => PoolInv'
<1>1. PoolInv /\ UNCHANGED vars => PoolInv'
  BY DEF PoolInv, TypeOK, Places, Accounted, InHand, Parsed, vars, queue, lists
<1> QED
  BY <1>1, PoolFeeder, PoolWorker DEF Next, Done

\* The channel never holds more than it has room for, and every variable keeps
\* its type: for every number of files, workers and slots.
THEOREM PoolTypeCorrect == Spec => []TypeOK
<1>1. PoolInv => TypeOK
  BY DEF PoolInv
<1> QED
  BY PoolInit, PoolStep, <1>1, PTL DEF Spec

\* However the workers interleave and whatever fails, no file taken out of the
\* channel is lost, worked on twice or recorded twice, and every listed result
\* can be looked up in the symbol table.
THEOREM EveryFileAccounted == Spec => []Accounted
<1>1. PoolInv => Accounted
  BY DEF PoolInv
<1> QED
  BY PoolInit, PoolStep, <1>1, PTL DEF Spec

-----------------------------------------------------------------------------
(* The pool implements ParseBatch.                                         *)

LEMMA BatchInit == Init => Batch!Init
BY DEF Init, Batch!Init, Batch!Files, Outcome, Files

\* A step that leaves results, errors and the feeder alone is a stutter.
LEMMA Stutters ==
  UNCHANGED <<results, errors, feeder>>
    => UNCHANGED <<[i \in Files |-> Outcome(i)], feeder = "returned">>
BY DEF Outcome

\* When the feeder returns, all workers are gone: the channel was drained and
\* nothing is in hand.
LEMMA ReturnsComplete == PoolInv /\ Return => Batch!Return
<1> SUFFICES ASSUME PoolInv, Return PROVE Batch!Return
  OBVIOUS
<1>1. PICK w \in Workers : pc[w] = "gone"
  BY PoolAssumption DEF Return
<1>2. received = N
  BY <1>1 DEF PoolInv, Places
<1>3. InHand = {}
  BY DEF Return, InHand, Busy
<1>4. \A i \in Files : Outcome(i) # "open"
  BY <1>2, <1>3 DEF PoolInv, Accounted, Parsed, Outcome, Files
<1>5. UNCHANGED [i \in Files |-> Outcome(i)]
  BY DEF Return, Outcome, lists
<1> QED
  BY <1>4, <1>5 DEF Return, Batch!Return, Batch!Open, Batch!Files, Files

\* A worker that puts its file down accounts for it, for the first time.
LEMMA PutsDownOnce ==
  ASSUME NEW w \in Workers, PoolInv, Fail(w) \/ AppendResult(w)
  PROVE  Batch!Account(at[w])
<1> USE DEF PoolInv, TypeOK
<1>1. pc[w] \in Busy /\ at[w] \in Files
  BY DEF Fail, AppendResult, Places, Busy
<1>2. at[w] \notin Parsed /\ at[w] \notin errors
  BY <1>1 DEF Accounted, InHand
<1>3. Outcome(at[w]) = "open"
  BY <1>1, <1>2 DEF Outcome, Parsed
<1>4. feeder' = feeder
  BY DEF Fail, AppendResult, queue
<1>5. CASE Fail(w)
  <2>1. \A i \in Files : Outcome(i)' = IF i = at[w] THEN "failed" ELSE Outcome(i)
    BY <1>1, <1>2, <1>5 DEF Fail, Outcome, Parsed
  <2>2. [i \in Files |-> Outcome(i)]'
          = [[i \in Files |-> Outcome(i)] EXCEPT ![at[w]] = "failed"]
    BY <1>1, <2>1 DEF Files
  <2> QED
    BY <1>1, <1>3, <1>4, <2>2 DEF Batch!Account, Batch!Files, Files
<1>6. CASE AppendResult(w)
  <2>1. origin[w] # None
    BY Marks
  <2>2. \A i \in Files : Outcome(i)' = IF i = at[w] THEN "parsed" ELSE Outcome(i)
    BY <1>1, <1>2, <1>6, <2>1 DEF AppendResult, Outcome, Parsed
  <2>3. [i \in Files |-> Outcome(i)]'
          = [[i \in Files |-> Outcome(i)] EXCEPT ![at[w]] = "parsed"]
    BY <1>1, <2>2 DEF Files
  <2> QED
    BY <1>1, <1>3, <1>4, <2>3 DEF Batch!Account, Batch!Files, Files
<1> QED
  BY <1>5, <1>6

LEMMA BatchStep ==
  PoolInv /\ [Next]_vars
    => [Batch!Next]_<<[i \in Files |-> Outcome(i)], feeder = "returned">>
<1> SUFFICES ASSUME PoolInv, [Next]_vars
             PROVE  [Batch!Next]_<<[i \in Files |-> Outcome(i)], feeder = "returned">>
  OBVIOUS
<1>1. CASE Done \/ UNCHANGED vars
  BY <1>1, Stutters DEF Done, vars, queue, lists
<1>2. CASE Send
  BY <1>2, Stutters DEF Send, lists
<1>3. CASE Close
  <2>1. UNCHANGED [i \in Files |-> Outcome(i)]
    BY <1>3 DEF Close, Outcome, lists
  <2>2. (feeder = "returned")' = (feeder = "returned")
    BY <1>3 DEF Close
  <2> QED
    BY <2>1, <2>2
<1>4. CASE Return
  BY <1>4, ReturnsComplete DEF Batch!Next
<1>5. CASE \E w \in Workers : Worker(w)
  <2>1. PICK w \in Workers : Worker(w)
    BY <1>5
  <2>2. CASE Fail(w) \/ AppendResult(w)
    <3>1. at[w] \in Files
      BY <2>2 DEF Fail, AppendResult, PoolInv, Places, Busy
    <3> QED
      BY <2>2, <3>1, PutsDownOnce DEF Batch!Next, Batch!Files, Files
  <2>3. CASE ~(Fail(w) \/ AppendResult(w))
    BY <2>1, <2>3, Stutters
       DEF Worker, Receive, Exit, Read, Parse, CreateCache, WriteCache,
           AddSymbols, queue, lists
  <2> QED
    BY <2>2, <2>3
<1> QED
  BY <1>1, <1>2, <1>3, <1>4, <1>5 DEF Next, Feeder

\* Every behaviour of the pool is one of ParseBatch: each file is accounted for
\* once and the call returns only when all of them are, for every number of
\* files, workers and slots (the safety part of ImplementsBatch).
THEOREM ImplementsBatchSafety == Spec => Batch!Spec
<1>1. PoolInv /\ [Next]_vars
        => [Batch!Next]_<<[i \in Files |-> Outcome(i)], feeder = "returned">>
  BY BatchStep
<1> QED
  BY BatchInit, PoolInit, PoolStep, <1>1, PTL DEF Spec, Batch!Spec
=============================================================================
