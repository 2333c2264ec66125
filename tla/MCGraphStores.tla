---------------------------- MODULE MCGraphStores ---------------------------
(* Two files of a directory: a class whose method handles a route, and a
   class that extends it, overrides the method and calls the one it
   overrides; in later versions a constant, a constructor call, an
   unresolved one, and interfaces.                                          *)
EXTENDS GraphStores

a == <<"src", "a">>
b == <<"src", "b">>

Base == <<"Base">>
Save == <<"Base", "save">>
MAX == <<"Base", "MAX">>
Child == <<"Child">>
ChildSave == <<"Child", "save">>
I == <<"I">>
J == <<"J">>

Symbol(kind, id) == [kind |-> kind, id |-> id, fields |-> <<>>]

ClassWith(id, field) == [kind |-> "Class", id |-> id, fields |-> <<field>>]

Rel(kind, from, fromKind, to, toKind) ==
  [kind |-> kind, from |-> from, fromKind |-> fromKind, to |-> to,
   toKind |-> toKind]

Annotated(on, kind, name, layer) ==
  [on |-> on, kind |-> kind, name |-> <<name>>, layer |-> <<layer>>,
   params |-> <<name, "save">>]

NothingElse ==
  [routes |-> <<>>, queries |-> <<>>, annotations |-> <<>>, remote |-> <<>>,
   imports |-> <<>>, relations |-> <<>>, hints |-> <<>>]

Extends ==
  <<Rel("EXTENDS", Child, "Class", Base, "Class"),
    Rel("OVERRIDES", ChildSave, "Function", Save, ""),
    Rel("DISPATCHES", Save, "Function", ChildSave, "")>>

A1 == [symbols |-> <<ClassWith(Base, "save"), Symbol("Function", Save)>>,
       routes |-> <<[path |-> <<"users", "all">>, handler |-> Save]>>,
       queries |-> <<Save>>,
       annotations |-> <<Annotated(Base, "Class", "Service", "service"),
                         Annotated(Save, "Function", "GetMapping", "web")>>]
      @@ NothingElse

A2 == [symbols |-> <<ClassWith(Base, "owner"), Symbol("Function", Save),
                     Symbol("Variable", MAX)>>,
       relations |-> <<Rel("USES", Save, "Function", MAX, "")>>]
      @@ NothingElse

B1 == [symbols |-> <<Symbol("Class", Child), Symbol("Function", ChildSave)>>,
       remote |-> <<[caller |-> ChildSave, service |-> "pay"]>>,
       imports |-> <<a, a>>,
       relations |-> <<Rel("CALLS", ChildSave, "Function", Save, "Function"),
                       Rel("USES", ChildSave, "Function", MAX, "")>> \o Extends]
      @@ NothingElse

B2 == [symbols |-> <<Symbol("Class", Child), Symbol("Interface", I),
                     Symbol("Interface", J), Symbol("Function", ChildSave),
                     Symbol("Function", <<"I", "save">>)>>,
       queries |-> <<ChildSave>>,
       imports |-> <<a>>,
       relations |-> <<Rel("CALLS", ChildSave, "Function", Base, "Class"),
                       Rel("EXTENDS", J, "Interface", I, "Interface"),
                       Rel("IMPLEMENTS", Child, "Class", I, "Interface")>>,
       hints |-> <<[from |-> ChildSave, to |-> Save, toKind |-> "Function"],
                   [from |-> ChildSave, to |-> Base, toKind |-> "Class"]>>]
      @@ NothingElse

TwoFiles == a :> <<A1, A2>> @@ b :> <<B1, B2>>

=============================================================================
