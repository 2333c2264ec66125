----------------------------- MODULE Hierarchy -----------------------------
(***************************************************************************)
(* The inheritance hierarchy: the parents of classes by qualified name,   *)
(* built from the heritage clauses when first needed, the methods found   *)
(* by walking up it, which are remembered, and the relations between      *)
(* classes and methods that follow from it.                               *)
(***************************************************************************)
EXTENDS TypeInference

VARIABLES
  parentMap,      \* qualifiedParentMap: class |-> parents, Nothing until built
  methodCache,    \* hierarchyCache: <<class, method>> |-> symbol, Nothing if none
  relations       \* resolved: [kind, from, to, how, call]

\* The qualified name of a class is not empty.
ASSUME NamesAssumption ==
  \A p \in Projects : \A f \in DOMAIN p.files : \A s \in ToSet(p.files[f].symbols) :
    s.qn \in Path /\ (IsClassLike(s) => s.qn \notin {Nothing, <<>>})

hierarchyVars == <<parentMap, methodCache>>

InitHierarchy ==
  /\ parentMap = Nothing
  /\ methodCache = Empty
  /\ relations = {}

Heritage == Collect(parseOrder, "heritage")

\* buildQualifiedParentMap: the class of the parent's qualified name, if it is
\* known and in the project, or else the first class of its name.
ParentOf(h) ==
  LET known == h.parentQN # Nothing /\ \E s \in ToSet(table) : s.qn = h.parentQN
      named == {i \in DOMAIN table : /\ IsClassLike(table[i]) /\ table[i].qn # <<>>
                                    /\ Last(table[i].qn) = h.parent}
      class == FirstAt(named, table)
  IN CASE known                      -> h.parentQN
       [] ~known /\ class = Nothing  -> Nothing
       [] OTHER                      -> class.qn

\* In the order of the clauses.
BuildParentMap ==
  LET clauses == {h \in ToSet(Heritage) : ParentOf(h) # Nothing}
      parent(i, c) == IF Heritage[i] \in clauses /\ Heritage[i].child = c
                      THEN <<ParentOf(Heritage[i])>> ELSE <<>>
  IN [c \in {h.child : h \in clauses} |->
        FlattenSeq([i \in 1..Len(Heritage) |-> parent(i, c)])]

\* getQualifiedParentMap
Parents == IF parentMap = Nothing THEN BuildParentMap ELSE parentMap

ParentsOf(class) == IF class \in DOMAIN Parents THEN Parents[class] ELSE <<>>

----------------------------------------------------------------------------

\* Breadth first: the first method of that name.
Walk(from, method) ==
  LET own(class) == SelectSeq(FindMethodsByQualifiedName(class),
                              LAMBDA s : Last(s.qn) = method)
      walk[queue \in Seq(Path), visited \in SUBSET Path] ==
        CASE queue = <<>> -> Nothing
          [] queue # <<>> /\ Head(queue) \in visited -> walk[Tail(queue), visited]
          [] queue # <<>> /\ Head(queue) \notin visited /\ own(Head(queue)) # <<>> ->
               Head(own(Head(queue)))
          [] OTHER -> walk[Tail(queue) \o ParentsOf(Head(queue)),
                           visited \cup {Head(queue)}]
  IN walk[<<from>>, {}]

\* The qualified name of the first class of a short name.
ClassNamed(type) ==
  LET class == IF Len(type) = 1 THEN FirstClass(FindByName(type[1])) ELSE Nothing
  IN IF class = Nothing THEN type ELSE class.qn

\* Mutant of FindMethodInHierarchy: the class is not part of the key.
FindByMethod(class, method) ==
  IF \E k \in DOMAIN methodCache : k[2] = method
  THEN methodCache[CHOOSE k \in DOMAIN methodCache : k[2] = method]
  ELSE Walk(ClassNamed(class), method)

FindMethodInHierarchy(class, method) ==
  IF <<class, method>> \in DOMAIN methodCache
  THEN methodCache[<<class, method>>]
  ELSE Walk(ClassNamed(class), method)

\* What looking for a method leaves behind.
Remember(class, method) ==
  /\ methodCache' = (<<class, method>> :> FindMethodInHierarchy(class, method))
                      @@ methodCache
  /\ parentMap' = IF <<class, method>> \in DOMAIN methodCache
                  THEN parentMap ELSE Parents

\* findClassSymbol
ClassSymbol(type) ==
  IF Len(type) = 1 THEN FirstClass(FindByName(type[1]))
                   ELSE FirstClass(FindByQualifiedName(type))

----------------------------------------------------------------------------
(* Types of fields.                                                        *)

\* globalBindings
GlobalType(scope, name) ==
  LET files == {f \in Files : <<scope, name>> \in DOMAIN bindings[f]} IN
  IF files = {} THEN Nothing
  ELSE bindings[CHOOSE f \in files : TRUE][<<scope, name>>].type

ParentSymbols(h) ==
  LET exact == IF h.parentQN = Nothing THEN <<>>
               ELSE FindByQualifiedName(h.parentQN)
  IN SelectSeq(IF exact # <<>> THEN exact ELSE FindByName(h.parent), IsClassLike)

FieldWalk(from, field) ==
  LET walk[queue \in Path, seen \in SUBSET STRING] ==
        LET entries == SelectSeq(Heritage, LAMBDA h :
                         Last(h.child) = Head(queue) /\ h.parent \notin seen)
            having == SelectSeq(
                        FlattenSeq([i \in 1..Len(entries) |-> ParentSymbols(entries[i])]),
                        LAMBDA s : GlobalType(s.qn, field) # Nothing)
            names == [i \in 1..Len(entries) |-> entries[i].parent]
        IN CASE queue = <<>> -> Nothing
             [] queue # <<>> /\ having # <<>> -> GlobalType(Head(having).qn, field)
             [] OTHER -> walk[Tail(queue) \o names, seen \cup ToSet(names)]
  IN walk[<<from>>, {from}]

\* lookupFieldInHierarchy: the scopes the caller is in, inner ones first, then
\* the classes above its own, by their short names.
FieldType(caller, field) ==
  LET around == Reverse([i \in 1..(Len(caller) - 1) |-> SubSeq(caller, 1, i)])
      having == SelectSeq(around, LAMBDA s : GlobalType(s, field) # Nothing)
  IN CASE Len(caller) < 2 -> Nothing
       [] Len(caller) >= 2 /\ having # <<>> -> GlobalType(Head(having), field)
       [] OTHER -> FieldWalk(Last(Front(caller)), field)

----------------------------------------------------------------------------
(* Relations.                                                              *)

Relation(kind, from, to, how, call) ==
  [kind |-> kind, from |-> from, to |-> to, how |-> how, call |-> call]

\* The path of a relative import, without the way up, is part of the path.
Under(file, module) ==
  LET rest == SelectSeq(module, LAMBDA x : x \notin {".", ".."}) IN
  /\ rest # <<>>
  /\ \E i \in 1..Len(file) : IsPrefix(rest, SubSeq(file, i, Len(file)))

IsImportAccessible(s, file) ==
  \/ project.lang # "typescript"
  \/ s.file = file
  \/ \E e \in ToSet(project.files[file].imports) : Under(s.file, e.module)

\* The child and the parent that a heritage clause relates.
ChildSymbol(h) ==
  LET exact == FindByQualifiedName(h.child) IN
  IF Len(exact) = 1 THEN Head(exact)
  ELSE FirstClass(SelectSeq(FindByName(Last(h.child)),
                            LAMBDA s : s.file = h.file))

ParentSymbol(h) ==
  LET classes == SelectSeq(IF h.parentQN # Nothing
                           THEN FindByQualifiedName(h.parentQN)
                           ELSE FindByName(h.parent), IsClassLike)
      accessible == SelectSeq(classes, LAMBDA s : IsImportAccessible(s, h.file))
  IN First(IF Len(classes) > 1 /\ accessible # <<>> THEN accessible ELSE classes)

ResolveHeritage ==
  /\ phase = "heritage"
  /\ relations' = relations \cup
       {Relation(IF h.kind = "implements" THEN "IMPLEMENTS" ELSE "EXTENDS",
                 ChildSymbol(h), ParentSymbol(h), "heritage", 0) :
          h \in {x \in ToSet(Heritage) :
                   ChildSymbol(x) # Nothing /\ ParentSymbol(x) # Nothing}}
  /\ phase' = "overrides"
  /\ UNCHANGED <<tableVars, exportVars, typeVars, hierarchyVars, next>>

\* Mutant of Above: the parents alone.
ParentsOnly(classes) == classes

Above(classes) ==
  LET above[known \in SUBSET Path] ==
        LET more == UNION {ToSet(ParentsOf(c)) : c \in known}
        IN IF more \subseteq known THEN known ELSE above[known \cup more]
  IN above[classes]

IsConstructor(s, class) ==
  CASE project.lang = "java"       -> Last(s.qn) = Last(class)
    [] project.lang = "typescript" -> Last(s.qn) = "constructor"
    [] project.lang = "python"     -> Last(s.qn) = "__init__"
    [] OTHER                       -> FALSE

SameSignature(s, t) == Last(s.qn) = Last(t.qn) /\ s.arity = t.arity

\* A method of a class overrides those of all classes above it, and a call of
\* theirs may be dispatched to it.
Overrides(class) ==
  {m \in Methods(class) \X UNION {Methods(a) : a \in Above(ToSet(ParentsOf(class)))} :
     m[1] # m[2] /\ ~IsConstructor(m[1], class) /\ SameSignature(m[1], m[2])}

Both(pairs, how) ==
  {Relation("OVERRIDES", p[1], p[2], how, 0) : p \in pairs} \cup
  {Relation("DISPATCHES", p[2], p[1], how, 0) : p \in pairs}

DetectOverridesAndDispatches ==
  /\ phase = "overrides"
  /\ relations' = relations \cup
       Both(UNION {Overrides(c) : c \in DOMAIN Parents}, "override_detection")
  /\ parentMap' = Parents
  /\ phase' = "uses"
  /\ UNCHANGED <<tableVars, exportVars, typeVars, methodCache, next>>

Signatures(class) == {<<Last(s.qn), s.arity>> : s \in Methods(class)}

\* Go: a class that has the methods of an interface implements it.
InferImplements ==
  /\ phase = "implements"
  /\ LET symbols == ToSet(table)
         Satisfies(c, i) ==
           /\ c.kind = "Class" /\ i.kind = "Interface" /\ c.qn # i.qn
           /\ Signatures(i.qn) # {} /\ Signatures(i.qn) \subseteq Signatures(c.qn)
         satisfied == {p \in symbols \X symbols : Satisfies(p[1], p[2])}
         methods(p) == {m \in Methods(p[1].qn) \X Methods(p[2].qn) :
                          SameSignature(m[1], m[2])}
     IN relations' = IF project.lang # "go" THEN relations
          ELSE relations
               \cup {Relation("IMPLEMENTS", p[1], p[2], "inferred", 0) :
                       p \in satisfied}
               \cup Both(UNION {methods(p) : p \in satisfied}, "inferred")
  /\ phase' = "done"
  /\ UNCHANGED <<tableVars, exportVars, typeVars, hierarchyVars, next>>
=============================================================================
