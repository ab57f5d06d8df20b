---------------------------- MODULE SchemaLoading ----------------------------
(***************************************************************************)
(* Reading schemas that import and include one another: SchemaReader,      *)
(* XMLSchema.load, Import, Include and getSchemaItem of                    *)
(* ZSI/wstools/XMLSchema.py, and the schemas in <types> of a WSDL          *)
(* (ZSI/wstools/WSDLTools.py).                                             *)
(*                                                                         *)
(* A schema is read by a recursion over its import and include statements, *)
(* here a stack of frames.  SchemaReader.namespaceToSchema, one dictionary *)
(* for the whole process, has an entry for a namespace from before its     *)
(* document is read, so a cycle of imports ends; includes have no such     *)
(* entry.  Two places catch what a nested reading raises: an import is     *)
(* tried as a file and then as a URL, into the same schema, and it is      *)
(* postponed if that ends in a SchemaError.                                *)
(*                                                                         *)
(* The components of a schema are elements, known by name; the other       *)
(* collections are treated alike.  A location stands for a resolved one.   *)
(* _imported_schemas is left out: an import always has its own _schema     *)
(* when it is asked for it.                                                *)
(***************************************************************************)
EXTENDS Integers, Sequences, FiniteSets

(* A definition Mut... is the one that follows it with a fault seeded in; no *)
(* specification uses it, a property is checked to reject it.                *)

CONSTANTS
  Ns,           \* namespaces
  BuiltIn,      \* those of BUILT_IN_NAMESPACES
  Names,        \* names of elements
  Locs,         \* locations of schemas, and schema elements in <types>
  NoNs, Unread, NoLoc,
  Repositories, \* the documents there are, see AnyRepository
  Calls,        \* what a program loads: a location, and those it gives to addSchemaByLocation
  Depth,        \* bound: the interpreter's recursion limit, which only a cycle of includes meets
  MaxLoads      \* bound: how many schemas and WSDLs a process loads

\* "malformed" is any component that raises a SchemaError.
Statement ==
  [do : {"element"}, name : Names]
  \cup [do : {"import"}, ns : Ns \cup {NoNs}, at : Locs \cup {NoLoc}]
  \cup [do : {"include"}, at : Locs]
  \cup [do : {"malformed"}]

Document == [tns : Ns \cup {NoNs}, stmts : Seq(Statement)]

\* docs: the documents that can be read.  files: those that open finds, the
\* others need a URL.  types: the schemas of a WSDL, which name their tns.
AnyRepository(r) ==
  /\ DOMAIN r.docs \subseteq Locs /\ r.files \subseteq DOMAIN r.docs
  /\ \A l \in DOMAIN r.docs : r.docs[l] \in Document
  /\ r.types \in Seq(DOMAIN r.docs)
  /\ \A i \in DOMAIN r.types : r.docs[r.types[i]].tns \in Ns

ASSUME LoadingAssumption ==
  /\ BuiltIn \subseteq Ns /\ NoNs \notin Ns /\ Unread \notin Ns \cup {NoNs} /\ NoLoc \notin Locs
  /\ Depth \in Nat /\ MaxLoads \in Nat /\ Calls \subseteq Locs \X SUBSET Locs
  /\ \A r \in Repositories : AnyRepository(r)

VARIABLES
  repo,     \* what can be read
  cache,    \* SchemaReader.namespaceToSchema
  schemas,  \* the XMLSchema objects, known by their number
  stack,    \* the load calls that run
  raised,   \* the exception on its way up the stack
  inline,   \* schemas in <types> that the running WSDL.load has still to read
  wsdls,    \* types of each WSDL
  loaded,   \* schemas a caller was given
  ended,    \* what the last call to load raised
  loads     \* how many calls to load there were

vars == <<repo, cache, schemas, stack, raised, inline, wsdls, loaded, ended, loads>>

None == 0   \* no schema
Lazy == -1  \* a _LazyEvalImport
Nothing == "none"

\* elements: their names.  imports: the statements by namespace, with their
\* _schema.  listable: whether imports.items() works.  included: _included_schemas.  whole: load
\* has come to the end of the document at its base url.
NewSchema(tns, at, wsdl) ==
  [tns |-> tns, at |-> at, wsdl |-> wsdl, whole |-> FALSE,
   elements |-> {}, imports |-> [n \in Ns |-> None], listable |-> TRUE,
   included |-> [l \in Locs |-> None]]

\* provided: locations given to addSchemaByLocation.  last: the reading that
\* an import does not repeat when it raises.
NewFrame(how, at, ns, last, provided) ==
  [how |-> how, schema |-> Len(schemas) + 1, at |-> at, next |-> 1,
   ns |-> ns, last |-> last, provided |-> provided]

Init ==
  /\ repo \in Repositories
  /\ cache = [n \in Ns |-> None]
  /\ schemas = <<>> /\ stack = <<>> /\ raised = Nothing
  /\ inline = <<>> /\ wsdls = <<>> /\ loaded = {}
  /\ ended = Nothing /\ loads = 0

------------------------------------------------------------------------------
Top == stack[Len(stack)]
Below == SubSeq(stack, 1, Len(stack) - 1)
Me == Top.schema
Tns == schemas[Me].tns
Stmts == repo.docs[Top.at].stmts
Stmt == Stmts[Top.next]

Reading == stack # <<>> /\ raised = Nothing
Reads(do) == Reading /\ Top.next <= Len(Stmts) /\ Stmt.do = do

\* The stack whose innermost load goes on with its next statement.
Advanced(st) == [st EXCEPT ![Len(st)].next = @ + 1]

SetSchema(s, st) == schemas' = s /\ stack' = st
Caller == <<repo, inline, wsdls, loaded, ended, loads>>
InLoad == UNCHANGED Caller
Raises(kind) == raised' = kind
Proceeds == UNCHANGED raised

\* getTargetNamespace: a document without one has that of its parent.
TargetNs(at, parent) == IF repo.docs[at].tns = NoNs THEN parent ELSE repo.docs[at].tns

\* A new schema, and the call that reads the document at a location into it.
Enters(how, at, tns, wsdl, ns, last, provided) ==
  SetSchema(Append(schemas, NewSchema(tns, at, wsdl)),
            Append(stack, NewFrame(how, at, ns, last, provided)))

------------------------------------------------------------------------------
\* The calls of a program: to a SchemaReader, and to WSDL.load.

Idle == stack = <<>> /\ inline = <<>>

\* loadFromFile, loadFromURL, loadFromStream of a document that can be read.
Load(at, provided) ==
  /\ Idle /\ loads < MaxLoads /\ at \in DOMAIN repo.docs
  /\ Enters("root", at, TargetNs(at, NoNs), 0, NoNs, TRUE, provided)
  /\ loads' = loads + 1 /\ ended' = Nothing
  /\ UNCHANGED <<repo, cache, raised, inline, wsdls, loaded>>

LoadTypes ==
  /\ Idle /\ loads < MaxLoads /\ repo.types # <<>>
  /\ inline' = repo.types
  /\ wsdls' = Append(wsdls, [n \in Ns |-> None])
  /\ loads' = loads + 1 /\ ended' = Nothing
  /\ UNCHANGED <<repo, cache, schemas, stack, raised, loaded>>

LoadFromNode ==
  /\ stack = <<>> /\ inline # <<>>
  /\ Enters("types", Head(inline), repo.docs[Head(inline)].tns, Len(wsdls), NoNs, TRUE, {})
  /\ inline' = Tail(inline)
  /\ UNCHANGED <<repo, cache, raised, wsdls, loaded, ended, loads>>

------------------------------------------------------------------------------
\* XMLSchema.load: one action for each kind of statement.

Element ==
  /\ Reads("element")
  /\ SetSchema([schemas EXCEPT ![Me].elements = @ \cup {Stmt.name}], Advanced(stack))
  /\ Proceeds /\ InLoad /\ UNCHANGED cache

Malformed ==
  /\ Reads("malformed")
  /\ Raises("SchemaError")
  /\ InLoad /\ UNCHANGED <<cache, schemas, stack>>

\* namespaceToSchema.get
MutCached(ns) == None
Cached(ns) == cache[ns]

MutRegister(ns, c) == UNCHANGED cache
Register(ns, c) == cache' = [cache EXCEPT ![ns] = c]

\* addImportSchema refuses a schema of the importing schema's own namespace, and
\* addIncludeSchema one of another namespace.
ImportMisfits(c, me, s) == s[c].tns = s[me].tns
IncludeMisfits(c, me, s) == s[c].tns \notin {NoNs, s[me].tns}

\* What load does with the schema of an import, addImportSchema with it.
\* st is the stack with the importing load on top.
Adopt(c, ns, s, st) ==
  LET me == st[Len(st)].schema IN
  IF ImportMisfits(c, me, s)
  THEN SetSchema(s, st) /\ Raises("SchemaError")
  ELSE SetSchema([s EXCEPT ![me].imports[ns] = c], Advanced(st)) /\ Proceeds

\* The import is left for later, as a _LazyEvalImport, which has no attributes
\* for the key function of the collection.
MutPostponed(s, me, ns) == s
Postponed(s, me, ns) == [s EXCEPT ![me].imports[ns] = Lazy, ![me].listable = FALSE]

\* Import.fromDom refuses the schema's own namespace, and wants one.
ImportRefused ==
  /\ Reads("import") /\ Stmt.ns \in {Tns, NoNs}
  /\ Raises(IF Stmt.ns = NoNs THEN "other" ELSE "SchemaError")
  /\ InLoad /\ UNCHANGED <<cache, schemas, stack>>

ReadsImport == Reads("import") /\ Stmt.ns \notin {Tns, NoNs}

ImportCached ==
  /\ ReadsImport /\ Cached(Stmt.ns) # None
  /\ Adopt(Cached(Stmt.ns), Stmt.ns, schemas, stack)
  /\ InLoad /\ UNCHANGED cache

\* NoSchemaLocationWarning: registered and removed again.
ImportUnlocated ==
  /\ ReadsImport /\ Cached(Stmt.ns) = None /\ Stmt.at = NoLoc
  /\ SetSchema(Postponed(schemas, Me, Stmt.ns), Advanced(stack))
  /\ Proceeds /\ InLoad /\ UNCHANGED cache

\* Neither the file nor the URL can be read: what that raises is not caught,
\* and the schema stays registered.
ImportUnreadable ==
  /\ ReadsImport /\ Cached(Stmt.ns) = None
  /\ Stmt.at # NoLoc /\ Stmt.at \notin DOMAIN repo.docs
  /\ Register(Stmt.ns, Len(schemas) + 1)
  /\ SetSchema(Append(schemas, NewSchema(Unread, NoLoc, 0)), stack)
  /\ Raises("other") /\ InLoad

\* loadSchema: the file, and after it the URL.
Import ==
  /\ ReadsImport /\ Cached(Stmt.ns) = None /\ Stmt.at \in DOMAIN repo.docs
  /\ Register(Stmt.ns, Len(schemas) + 1)
  /\ Enters("import", Stmt.at, TargetNs(Stmt.at, NoNs), 0, Stmt.ns, Stmt.at \notin repo.files, {})
  /\ Proceeds /\ InLoad

------------------------------------------------------------------------------
\* Elements of an included schema whose names are new.
MutNewcomers(have, more) == {}
Newcomers(have, more) == more \ have

\* What load does with the schema of an include, addIncludeSchema with it:
\* its collections are taken over as far as the names are new.
Merge(c, at, s, st) ==
  LET me == st[Len(st)].schema IN
  IF s[me].included[at] = None /\ IncludeMisfits(c, me, s)
  THEN SetSchema(s, st) /\ Raises("SchemaError")
  ELSE /\ SetSchema([s EXCEPT
            ![me].included[at] = c,
            ![me].imports = [n \in Ns |-> IF @[n] = None THEN s[c].imports[n] ELSE @[n]],
            ![me].elements = @ \cup Newcomers(@, s[c].elements)], Advanced(st))
       /\ Proceeds

IncludeAgain ==
  /\ Reads("include") /\ schemas[Me].included[Stmt.at] # None
  /\ Merge(schemas[Me].included[Stmt.at], Stmt.at, schemas, stack)
  /\ InLoad /\ UNCHANGED cache

\* The document cannot be read, or the recursion is too deep.
IncludeFails ==
  /\ Reads("include") /\ schemas[Me].included[Stmt.at] = None
  /\ Stmt.at \notin DOMAIN repo.docs \/ Len(stack) >= Depth
  /\ Raises("other")
  /\ InLoad /\ UNCHANGED <<cache, schemas, stack>>

Include ==
  /\ Reads("include") /\ schemas[Me].included[Stmt.at] = None
  /\ Stmt.at \in DOMAIN repo.docs /\ Len(stack) < Depth
  /\ Enters("include", Stmt.at, TargetNs(Stmt.at, Tns), 0, NoNs, TRUE, {})
  /\ Proceeds /\ InLoad /\ UNCHANGED cache

------------------------------------------------------------------------------
\* The end of a document, and what the caller of load does then.

AtEnd == Reading /\ Top.next > Len(Stmts)
Read == [schemas EXCEPT ![Me].whole = TRUE]

\* The _includes of the reader that reads the top schema.
ReaderIncludes ==
  IF Top.how = "root" THEN Top.provided
  ELSE {l \in Locs : schemas[Below[Len(Below)].schema].included[l] # None}

\* __setIncludes takes an included schema that the reader knows from its
\* _imports; __setImports lists the imports.  loadFromNode calls neither.
SettingFails ==
  /\ Top.how # "types"
  /\ \/ \E l \in ReaderIncludes : schemas[Me].included[l] # None
     \/ ~schemas[Me].listable

EndFails ==
  /\ AtEnd /\ SettingFails
  /\ SetSchema(Read, stack) /\ Raises("other")
  /\ InLoad /\ UNCHANGED cache

EndRoot ==
  /\ AtEnd /\ ~SettingFails /\ Top.how = "root"
  /\ SetSchema(Read, Below)
  /\ loaded' = loaded \cup {Me}
  /\ UNCHANGED <<repo, cache, raised, inline, wsdls, ended, loads>>

\* Types.addSchema
EndTypes ==
  /\ AtEnd /\ Top.how = "types"
  /\ SetSchema(Read, Below)
  /\ loaded' = loaded \cup {Me}
  /\ wsdls' = [wsdls EXCEPT ![Len(wsdls)][Tns] = Me]
  /\ UNCHANGED <<repo, cache, raised, inline, ended, loads>>

EndImport ==
  /\ AtEnd /\ ~SettingFails /\ Top.how = "import"
  /\ Adopt(Me, Top.ns, Read, Below)
  /\ InLoad /\ UNCHANGED cache

EndInclude ==
  /\ AtEnd /\ ~SettingFails /\ Top.how = "include"
  /\ Merge(Me, Top.at, Read, Below)
  /\ InLoad /\ UNCHANGED cache

------------------------------------------------------------------------------
\* An exception leaves the innermost load.

\* loadSchema reads the document once more, into the same schema.
Repeated(st) == [st EXCEPT ![Len(st)].next = 1, ![Len(st)].last = TRUE]

Repeat ==
  /\ raised # Nothing /\ Top.how = "import" /\ ~Top.last
  /\ SetSchema([schemas EXCEPT ![Me].whole = FALSE], Repeated(stack))
  /\ raised' = Nothing
  /\ InLoad /\ UNCHANGED cache

Withdraw ==
  /\ raised = "SchemaError" /\ Top.how = "import" /\ Top.last
  /\ cache' = [cache EXCEPT ![Top.ns] = None]
  /\ SetSchema(Postponed(schemas, Below[Len(Below)].schema, Top.ns), Advanced(Below))
  /\ raised' = Nothing
  /\ InLoad

\* To the load below, with what is registered left as it is, or to the
\* program, which does not get its schema, or its WSDL.
Delivered == IF Len(stack) = 1 THEN Nothing ELSE raised

Escape ==
  /\ raised # Nothing
  /\ Top.how = "import" => Top.last /\ raised # "SchemaError"
  /\ stack' = Below
  /\ raised' = Delivered
  /\ IF Len(stack) > 1 THEN InLoad
     ELSE /\ ended' = raised
          /\ inline' = <<>>
          /\ loaded' = IF Top.how = "types" THEN {i \in loaded : schemas[i].wsdl # Len(wsdls)} ELSE loaded
          /\ UNCHANGED <<repo, wsdls, loads>>
  /\ UNCHANGED <<cache, schemas>>

------------------------------------------------------------------------------
\* getSchemaItem, asked of a component of schema i.

\* The schemas a program can get at: its own, and those registered.
Known == loaded \cup ({cache[n] : n \in Ns} \ {None})

IsLazy(i, ns) == schemas[i].tns # ns /\ schemas[i].imports[ns] = Lazy

\* _LazyEvalImport.getSchema: without a parent it raises a TypeError.
LazyFails(i, ns) == IsLazy(i, ns) /\ cache[ns] = None /\ schemas[i].wsdl = 0
LazyTarget(i, ns) == IF cache[ns] # None THEN cache[ns] ELSE wsdls[schemas[i].wsdl][ns]

\* The schema that is searched, None if there is none.
Target(i, ns) ==
  IF schemas[i].tns = ns THEN i
  ELSE IF IsLazy(i, ns) THEN LazyTarget(i, ns) ELSE schemas[i].imports[ns]

Has(c, name) == name \in schemas[c].elements

\* What it returns or raises.
Answer(i, ns, name) ==
  IF LazyFails(i, ns) THEN "other"
  ELSE IF Target(i, ns) # None THEN IF Has(Target(i, ns), name) THEN "item" ELSE "KeyError"
  ELSE IF ns \in BuiltIn THEN "None"
  ELSE IF schemas[i].imports[ns] = Lazy THEN "no schema" ELSE "not imported"

\* A postponed import that is found takes its place among the imports; without
\* one the call changes nothing.
getSchemaItem(i, ns) ==
  /\ Idle /\ i \in Known
  /\ IsLazy(i, ns) /\ ~LazyFails(i, ns) /\ LazyTarget(i, ns) # None
  /\ schemas' = [schemas EXCEPT ![i].imports[ns] = LazyTarget(i, ns)]
  /\ UNCHANGED <<repo, cache, stack, raised, inline, wsdls, loaded, ended, loads>>

------------------------------------------------------------------------------
Steps ==
  \/ Element \/ Malformed
  \/ ImportRefused \/ ImportCached \/ ImportUnlocated \/ ImportUnreadable \/ Import
  \/ IncludeAgain \/ IncludeFails \/ Include
  \/ EndFails \/ EndRoot \/ EndTypes \/ EndImport \/ EndInclude
  \/ Repeat \/ Withdraw \/ Escape

Next ==
  \/ \E call \in Calls : Load(call[1], call[2])
  \/ LoadTypes \/ LoadFromNode
  \/ Steps
  \/ \E i \in DOMAIN schemas, ns \in Ns : getSchemaItem(i, ns)

\* Loading is sequential code, and a location answers or fails.
Spec == Init /\ [][Next]_vars /\ WF_vars(Steps)

------------------------------------------------------------------------------
\* While a document is read for an import, the namespace leads every other
\* import to the schema it is read into: no namespace is read within itself,
\* whatever is raised, repeated or withdrawn in between.
CyclesEnd ==
  \A k \in DOMAIN stack : stack[k].how = "import" =>
    /\ cache[stack[k].ns] = stack[k].schema
    /\ \A j \in 1..(k - 1) : stack[j].how = "import" => stack[j].ns # stack[k].ns

\* All imports of a namespace, in all documents of the process, lead to the
\* one schema that is registered, or to a schema in <types>, or to one that
\* was withdrawn half read.
ImportsAgree ==
  \A i \in DOMAIN schemas, n \in Ns :
    LET c == schemas[i].imports[n] IN
    c > 0 => cache[n] = c \/ schemas[c].wsdl # 0 \/ ~schemas[c].whole

StmtsOf(l) == IF l \in DOMAIN repo.docs THEN {repo.docs[l].stmts[p] : p \in DOMAIN repo.docs[l].stmts} ELSE {}

\* A set of locations that has what its documents include, and the least one
\* around a location.
Closed(ls) == \A l \in ls : \A s \in StmtsOf(l) : s.do = "include" => s.at \in ls
Reach(at) == {l \in Locs : \A ls \in SUBSET Locs : at \in ls /\ Closed(ls) => l \in ls}

\* The statements of a document and of all documents it includes.
Included(at) == UNION {StmtsOf(l) : l \in Reach(at)}

\* A schema whose document was read to the end answers as that document and
\* its includes say: it has their elements and no others, and knows the
\* namespaces they import, however often and in whatever cycles it was read.
LookupsAgree ==
  Idle => \A i \in Known, n \in Ns :
    LET c == IF LazyFails(i, n) THEN None ELSE Target(i, n)
        defined == {s.name : s \in {t \in Included(schemas[c].at) : t.do = "element"}}
        imported == {s.ns : s \in {t \in Included(schemas[i].at) : t.do = "import"}}
    IN \A name \in Names :
         LET answer == Answer(i, n, name) IN
         /\ answer = "item" => name \in defined
         /\ answer = "KeyError" => ~schemas[c].whole \/ name \notin defined
         /\ answer = "not imported" => ~schemas[i].whole \/ n \notin imported

\* Two schemas in the <types> of a WSDL find each other, in either order, by
\* imports without a location, unless their namespace is registered already.
InlineSchemasMeet ==
  Idle => \A i \in loaded, n \in Ns :
    LET w == schemas[i].wsdl IN
    /\ w # 0 /\ n # schemas[i].tns /\ cache[n] = None /\ wsdls[w][n] # None
    /\ \E s \in Included(schemas[i].at) : s.do = "import" /\ s.ns = n
    => Target(i, n) = wsdls[w][n]
==============================================================================
