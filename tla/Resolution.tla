----------------------------- MODULE Resolution -----------------------------
(***************************************************************************)
(* Phase three of an index run: from what the parser read in the files of *)
(* a project to relations between their symbols.  Imports, re-exports,    *)
(* types, calls, inheritance and uses are resolved one after the other,   *)
(* over results in whatever order the parse workers delivered them.       *)
(***************************************************************************)
EXTENDS CallResolution

vars == <<tableVars, phase, next, exportVars, typeVars, hierarchyVars,
          relations, callVars>>

Init ==
  /\ InitTable /\ InitExports /\ InitTypes /\ InitHierarchy /\ InitCalls

Relate ==
  \/ ResolveHeritage \/ DetectOverridesAndDispatches \/ InferImplements

Done == phase = "done" /\ UNCHANGED vars

Next ==
  \/ PropagateExports /\ UNCHANGED <<typeVars, hierarchyVars, relations, callVars>>
  \/ InferTypes /\ UNCHANGED <<hierarchyVars, relations, callVars>>
  \/ ResolveCalls
  \/ Relate /\ UNCHANGED callVars
  \/ ResolveConstRefs
  \/ Done

Spec == Init /\ [][Next]_vars

----------------------------------------------------------------------------

Phases == {"imports", "exports", "reexports", "infer", "fixpoint", "calls",
           "heritage", "overrides", "uses", "implements", "done"}

Stages == {"start", "super", "lambda", "imported", "legacy", "typed",
           "qualify", "of type", "unknown", "prefix", "language",
           "fallback", "inherited", "callbacks"}

\* Symbols are those of the files and functions of libraries, and every
\* relation ends at one of them.
TypeOK ==
  LET own == ToSet(Collect(parseOrder, "symbols"))
      symbols == ToSet(table)
  IN /\ project \in Projects
     /\ parseOrder \in SetToSeqs(Files)
     /\ own \subseteq symbols
     /\ \A s \in symbols \ own : s.file = Nothing /\ s.kind = "Function"
     /\ phase \in Phases /\ stage \in Stages
     /\ next \in 1..(Len(Calls) + Len(Entries) + Len(Pendings) + 1)
     /\ \A n \in DOMAIN reExports : reExports[n] \in own
     /\ importEdges \subseteq Files \X Files
     /\ \A k \in DOMAIN importFileMap : importFileMap[k] \in Files
     /\ DOMAIN bindings = Files
     /\ round.n \in 1..MaxRounds
     /\ \A r \in relations : r.to \in symbols
     /\ \A k \in DOMAIN methodCache : methodCache[k] \in symbols \cup {Nothing}
     /\ hints \subseteq 1..Len(Calls)

----------------------------------------------------------------------------
(* What the files say of the hierarchy.                                    *)

OwnClasses == {s \in ToSet(OwnSymbols) : IsClassLike(s)}

\* The class that a clause names: by its qualified name, or by a short name
\* that only one class has.
NamedBy(h) ==
  IF h.parentQN # Nothing THEN {c \in OwnClasses : c.qn = h.parentQN}
  ELSE LET same == {c \in OwnClasses : Last(c.qn) = h.parent}
       IN IF Cardinality(same) = 1 THEN same ELSE {}

DirectlyAbove(classes) ==
  UNION {{c.qn : c \in NamedBy(h)} :
           h \in {x \in ToSet(Heritage) : x.child \in classes}}

AllAbove(classes) ==
  LET above[known \in SUBSET Path] ==
        LET more == DirectlyAbove(known)
        IN IF more \subseteq known THEN more \cup DirectlyAbove(more)
           ELSE more \cup above[known \cup more]
  IN above[classes]

MethodsOf(classes) ==
  {s \in ToSet(OwnSymbols) :
     s.kind = "Function" /\ Len(s.qn) > 1 /\ Front(s.qn) \in classes}

\* The definitions of a method closest to a class, going up level by level.
Closest(class, method) ==
  LET closest[classes \in SUBSET Path, seen \in SUBSET Path] ==
        LET own == {s \in MethodsOf(classes) : Last(s.qn) = method}
            up == DirectlyAbove(classes) \ (seen \cup classes)
        IN IF classes = {} \/ own # {} THEN own ELSE closest[up, seen \cup classes]
  IN closest[{class}, {}]

----------------------------------------------------------------------------
(* Calls on a variable whose type is a class of the project.               *)

Processed(k) ==
  phase \in {"heritage", "overrides", "uses", "implements", "done"}
  \/ (phase = "calls" /\ (k < next \/ (k = next /\ stage = "callbacks")))

\* The declared type of the receiver of a call, as a class of the project.
\* An imported name, a lambda or a function known already takes precedence.
DeclaredClass(c) ==
  LET variable == c.receiver[1].name
      b == Binding(c.file, c.scope, variable)
      same == IF b = Nothing \/ b.type = <<>> THEN {}
              ELSE {x \in OwnClasses : IF Len(b.type) > 1 THEN x.qn = b.type
                                       ELSE Last(x.qn) = b.type[1]}
  IN IF /\ Len(c.receiver) = 1 /\ ~c.receiver[1].call
        /\ c.pre = Nothing /\ variable # "super"
        /\ \A i \in ToSet(project.files[c.file].imports) : i.name # variable
        /\ b # Nothing /\ b.lambda = Nothing
        /\ Cardinality(same) = 1
     THEN (CHOOSE x \in same : TRUE).qn ELSE Nothing

\* A call on a variable of a class of the project goes to the definition that
\* is closest to that class, its own or one it inherits, and to nothing else,
\* in whatever order files were parsed, whatever was looked up before and
\* whatever functions of libraries the calls before it added to the table.
\* (Not so in Python, where the type of an imported class is its module.)
ClosestDefinition ==
  project.lang # "python" =>
  \A k \in 1..Len(Calls) :
    Processed(k) /\ Calls[k].receiver # <<>> /\ DeclaredClass(Calls[k]) # Nothing =>
      LET closest == Closest(DeclaredClass(Calls[k]), Calls[k].called)
          targets == {r.to : r \in {x \in relations :
                        /\ x.kind = "CALLS" /\ x.call = k
                        /\ x.how # "lambda_passthrough"}}
      IN closest # {} => targets # {} /\ targets \subseteq closest

Pairs(kind) == {<<r.from, r.to>> : r \in {x \in relations : x.kind = kind}}

\* A method of the project overrides one of a class above its own.
IsOverriding(m, n) ==
  /\ m.kind = "Function" /\ Len(m.qn) > 1 /\ m # n
  /\ n \in MethodsOf(AllAbove({Front(m.qn)}))
  /\ SameSignature(m, n) /\ ~IsConstructor(m, Front(m.qn))

Overriding ==
  {p \in ToSet(OwnSymbols) \X ToSet(OwnSymbols) : IsOverriding(p[1], p[2])}

DispatchesFound ==
  /\ Pairs("OVERRIDES") = Overriding
  /\ Pairs("DISPATCHES") = {<<p[2], p[1]>> : p \in Overriding}

\* At the end, a method is related to exactly those of all classes above its
\* own that it overrides, however far up, and every such relation has the
\* dispatch that leads back.  (Interfaces of Go are implemented without a
\* clause that says so.)
DispatchesComplete ==
  phase = "done" /\ project.lang # "go" => DispatchesFound
=============================================================================
