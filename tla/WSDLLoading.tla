----------------------------- MODULE WSDLLoading -----------------------------
(***************************************************************************)
(* Reading a WSDL: WSDLReader, WSDL.load and _import, the load methods of  *)
(* messages, port types, bindings and services, and what a client then     *)
(* asks for, callInfoFromWSDL, of ZSI/wstools/WSDLTools.py; the named      *)
(* collections are CollectionNS and Collection of wstools/Utility.py.      *)
(*                                                                         *)
(* load first replaces each wsdl:import by a copy of the children of the   *)
(* document it names, in rounds until no import is left; a copy takes the  *)
(* prefixes declared by the root of its document and that document's       *)
(* target namespace along.  Then it reads the children in order.           *)
(*                                                                         *)
(* Documents are parsed already: a child of <definitions> is a record.     *)
(* What <types> holds is in SchemaLoading and SchemaGrammar.  Locations    *)
(* stand for resolved ones.  toDom is left out, it cannot run: it iterates *)
(* over the keys of the collections and calls toDom of each.               *)
(***************************************************************************)
EXTENDS Integers, FiniteSets, SequencesExt

\* A definition Mut... is the one that follows it with a fault seeded in; no
\* specification uses it, a property is checked to reject it.

CONSTANTS
  Ns, NoNs,     \* namespaces, and no declaration
  Names,        \* names of components, of their operations and parts
  NsPrefixes,
  NoPrefix,     \* a name without a prefix
  None,         \* no attribute or no child
  All,          \* a soap:body without the attribute parts
  Locs,         \* locations of documents
  Repositories  \* what can be read: documents by location, in families

\* A reference as it is written; a prefix is declared by the component itself
\* or by the root of its document.
Written == [prefix : NsPrefixes \cup {NoPrefix}, name : Names]

\* The children of <definitions>.  A role of an operation of a binding, its
\* input or output, has the soap extensions: soap:header elements, soap:body
\* or none, which may lack the attribute use, and mime:multipartRelated.
\* address: that of a port, "soap", "http" or None.
AList(s) == s \in Seq(ToSet(s))
Body(b) == b.use \in BOOLEAN /\ (b.parts = All \/ b.parts \in Seq(Names))
Role(r) ==
  /\ DOMAIN r = {"mime", "headers", "body"} /\ r.mime \in BOOLEAN
  /\ \A k \in DOMAIN r.headers : r.headers[k].message \in Written /\ r.headers[k].part \in Names
  /\ r.body = None \/ Body(r.body)
Item(i) ==
  CASE i.kind = "import" -> i.ns \in Ns \cup {None} /\ i.at \in Locs \cup {None}
    [] i.kind = "message" ->
         /\ AList(i.parts)
         /\ \A k \in DOMAIN i.parts : i.parts[k].name \in Names /\ i.parts[k].ref \in Written \cup {None}
    [] i.kind = "portType" ->
         /\ AList(i.operations)
         /\ \A k \in DOMAIN i.operations :
              {i.operations[k].input, i.operations[k].output} \subseteq Written \cup {None}
    [] i.kind = "binding" ->
         /\ i.ref \in Written \cup {None} /\ i.soap \in BOOLEAN /\ AList(i.operations)
         /\ \A k \in DOMAIN i.operations :
              \A r \in {i.operations[k].input, i.operations[k].output} : r = None \/ Role(r)
    [] i.kind = "service" ->
         AList(i.ports) /\ \A k \in DOMAIN i.ports : i.ports[k].binding \in Written \cup {None}
    [] OTHER -> i.kind \in {"schema", "types"}

\* scope: the prefixes declared at the root, own: by a component itself.
\* files: the locations are paths, not URLs.
AnyRepository(r) ==
  /\ r.root \in DOMAIN r.docs /\ DOMAIN r.docs \subseteq Locs /\ r.files \in BOOLEAN
  /\ \A l \in DOMAIN r.docs :
       /\ r.docs[l].tns \in Ns
       /\ DOMAIN r.docs[l].scope \subseteq NsPrefixes
       /\ AList(r.docs[l].items)
       /\ \A k \in DOMAIN r.docs[l].items : Item(r.docs[l].items[k])

Exceptions ==
  {"WSDLError", "KeyError", "NameError", "AttributeError", "ValueError", "DOMException", "unreadable"}

ASSUME WSDLAssumption ==
  /\ NoNs \notin Ns /\ NoPrefix \notin NsPrefixes /\ None \notin Exceptions \cup Locs
  /\ \A family \in Repositories : \A r \in family : AnyRepository(r)

VARIABLES
  repo,
  phase,     \* "imports", "items", "loaded", "failed"
  children,  \* of <definitions>, in order: the item, the namespace it was given, its prefixes
             \* and the document it is from
  gone,      \* the positions in children of those that were removed
  todo,      \* the positions that the running loop has still to come to
  again,     \* do_it: there has to be another round
  imported,  \* the locations imported so far
  known,     \* WSDL.imports: the namespaces of the import elements
  wsdl,      \* what has been read, by kind and in order
  raised     \* what load raised

vars == <<repo, phase, children, gone, todo, again, imported, known, wsdl, raised>>

Kinds == {"message", "portType", "binding", "service"}
Main == repo.docs[repo.root]

\* importNode and setAttributeNode: what the root declares hides the
\* component's own declaration of the same prefix.
Over(outer, inner) ==
  [p \in DOMAIN outer \cup DOMAIN inner |-> IF p \in DOMAIN outer THEN outer[p] ELSE inner[p]]
MutCopied(item, doc, at) ==
  [item |-> item, tns |-> NoNs, scope |-> Over(doc.scope, item.own), from |-> at]
Copied(item, doc, at) ==
  [item |-> item, tns |-> doc.tns, scope |-> Over(doc.scope, item.own), from |-> at]

Original(item, doc, at) ==
  [item |-> item, tns |-> NoNs, scope |-> Over(item.own, doc.scope), from |-> at]

Standing == DOMAIN children \ gone
Imports == {k \in Standing : children[k].item.kind = "import"}

Init ==
  /\ \E family \in Repositories : repo \in family
  /\ phase = "imports"
  /\ children = [k \in DOMAIN Main.items |-> Original(Main.items[k], Main, repo.root)]
  /\ gone = {} /\ todo = Imports /\ again = FALSE
  /\ imported = {} /\ known = {}
  /\ wsdl = [kind \in Kinds |-> <<>>] /\ raised = None

------------------------------------------------------------------------------
(* The imports *)

Fail(exception) ==
  /\ phase' = "failed" /\ raised' = exception
  /\ UNCHANGED <<repo, children, gone, todo, again, imported, known, wsdl>>

InImports == phase = "imports" /\ todo # {}
This == Min(todo)
Here == children[This].item
Rest ==
  /\ todo' = todo \ {This}
  /\ UNCHANGED <<repo, phase, wsdl, raised>>

\* basejoin: without the attribute location, the location of the document the element
\* is from, or of the directory of a file.  A location imported before is taken out.
Location(c) == IF c.item.at # None THEN c.item.at ELSE IF repo.files THEN None ELSE c.from
Seen == Location(children[This]) \in imported

ImportAgain ==
  /\ InImports /\ Seen
  /\ gone' = gone \cup {This}
  /\ Rest /\ UNCHANGED <<children, again, imported, known>>

\* _import raises for an element without a namespace or location, and for a document that
\* cannot be read, as the directory is not that a copy has as its location.
Unimportable == Here.ns = None \/ Here.at \notin DOMAIN repo.docs
Incomplete == Here.ns = None \/ (Here.at = None /\ children[This].tns = NoNs)
ImportFails ==
  /\ InImports /\ ~Seen /\ Unimportable
  /\ Fail(IF Incomplete THEN "WSDLError" ELSE "unreadable")

\* The children of the document are appended in place of the import.  A document with
\* another target namespace than the import says is not merged: its import stays until it comes
\* to ImportAgain in the next round.
Merge(doc) ==
  IF doc.tns # Here.ns THEN UNCHANGED <<children, gone>>
  ELSE /\ gone' = gone \cup {This}
       /\ children' = children \o [k \in DOMAIN doc.items |-> Copied(doc.items[k], doc, Here.at)]

MutImport ==
  /\ InImports /\ ~Seen /\ ~Unimportable
  /\ Merge(repo.docs[Here.at])
  /\ Rest /\ again' = TRUE /\ known' = known \cup {Here.ns}
  /\ imported' = IF repo.docs[Here.at].tns # Here.ns THEN imported ELSE imported \cup {Here.at}
Import ==
  /\ InImports /\ ~Seen /\ ~Unimportable
  /\ Merge(repo.docs[Here.at])
  /\ Rest /\ again' = TRUE
  /\ imported' = imported \cup {Here.at} /\ known' = known \cup {Here.ns}

NextRound ==
  /\ phase = "imports" /\ todo = {}
  /\ again' = FALSE
  /\ IF again THEN todo' = Imports /\ UNCHANGED phase
     ELSE todo' = Standing /\ phase' = "items"
  /\ UNCHANGED <<repo, children, gone, imported, known, wsdl, raised>>

------------------------------------------------------------------------------
(* The items *)

\* findTargetNS and findNamespaceURI: a name without a prefix is in the target
\* namespace, its component's or the main document's.
TargetNS(c) == IF c.tns = NoNs THEN Main.tns ELSE c.tns
Bound(c, ref) == ref.prefix = NoPrefix \/ ref.prefix \in DOMAIN c.scope
ParseQName(c, ref) ==
  <<IF ref.prefix = NoPrefix THEN TargetNS(c) ELSE c.scope[ref.prefix], ref.name>>

\* The references of an item in the order in which they are read, None for an
\* attribute that has to be there and is not.
RoleReferences(r) ==
  IF r = None THEN <<>>
  ELSE [k \in DOMAIN r.headers |-> r.headers[k].message]
         \o (IF r.body # None /\ ~r.body.use THEN <<None>> ELSE <<>>)
References(i) ==
  CASE i.kind = "message" -> [k \in DOMAIN i.parts |-> i.parts[k].ref]
    [] i.kind = "portType" ->
         FlattenSeq([k \in DOMAIN i.operations |->
           SelectSeq(<<i.operations[k].input, i.operations[k].output>>, LAMBDA r : r # None)])
    [] i.kind = "binding" ->
         <<i.ref>> \o FlattenSeq([k \in DOMAIN i.operations |->
           RoleReferences(i.operations[k].input) \o RoleReferences(i.operations[k].output)])
    [] i.kind = "service" -> [k \in DOMAIN i.ports |-> i.ports[k].binding]
    [] OTHER -> <<>>

\* A copy has lost the target namespace of its own to that of its document.
SchemaNS(c) == IF c.tns = NoNs THEN c.item.tns ELSE c.tns

\* What reading a child raises; a schema below definitions is looked for among the imports.
Raises(c) ==
  LET wrong == SelectSeq(References(c.item), LAMBDA r : r = None \/ ~Bound(c, r)) IN
  IF c.item.kind = "schema" /\ SchemaNS(c) \notin known THEN "KeyError"
  ELSE IF wrong = <<>> THEN None
  ELSE IF Head(wrong) = None THEN "WSDLError" ELSE "DOMException"

\* The component with its references resolved, filed under its namespace.
Resolve(c, ref) == IF ref = None THEN None ELSE ParseQName(c, ref)
ResolveRole(c, r) ==
  IF r = None THEN None
  ELSE [r EXCEPT !.headers = [k \in DOMAIN r.headers |->
          [message |-> ParseQName(c, r.headers[k].message), part |-> r.headers[k].part]]]
Message(c) == [name |-> c.item.name, ns |-> TargetNS(c),
  parts |-> [k \in DOMAIN c.item.parts |->
    [name |-> c.item.parts[k].name, ref |-> Resolve(c, c.item.parts[k].ref)]]]
Operation(c, o) ==
  [name |-> o.name, input |-> Resolve(c, o.input), output |-> Resolve(c, o.output)]
PortType(c) == [name |-> c.item.name, ns |-> TargetNS(c),
  operations |-> [k \in DOMAIN c.item.operations |-> Operation(c, c.item.operations[k])]]
OperationBinding(c, o) ==
  [name |-> o.name, input |-> ResolveRole(c, o.input), output |-> ResolveRole(c, o.output)]
Binding(c) == [name |-> c.item.name, ns |-> TargetNS(c), soap |-> c.item.soap,
  ref |-> Resolve(c, c.item.ref),
  operations |-> [k \in DOMAIN c.item.operations |-> OperationBinding(c, c.item.operations[k])]]
Port(c, p) == [name |-> p.name, binding |-> Resolve(c, p.binding), address |-> p.address]
Service(c) == [name |-> c.item.name, ns |-> TargetNS(c),
  ports |-> [k \in DOMAIN c.item.ports |-> Port(c, c.item.ports[k])]]
Component(c) ==
  CASE c.item.kind = "message" -> Message(c)
    [] c.item.kind = "portType" -> PortType(c)
    [] c.item.kind = "binding" -> Binding(c)
    [] c.item.kind = "service" -> Service(c)

InItems == phase = "items" /\ todo # {}

\* addMessage and its siblings mean to refuse a second component of a name;
\* they look for the name among the namespaces, so none is refused.
ReadItem ==
  LET c == children[This] IN
  /\ InItems /\ Raises(c) = None
  /\ todo' = todo \ {This}
  /\ wsdl' = IF c.item.kind \notin Kinds THEN wsdl
             ELSE [wsdl EXCEPT ![c.item.kind] = Append(@, Component(c))]
  /\ UNCHANGED <<repo, phase, children, gone, again, imported, known, raised>>

ItemFails == InItems /\ Raises(children[This]) # None /\ Fail(Raises(children[This]))

Loaded ==
  /\ phase = "items" /\ todo = {}
  /\ phase' = "loaded"
  /\ UNCHANGED <<repo, children, gone, todo, again, imported, known, wsdl, raised>>

Next == ImportAgain \/ ImportFails \/ Import \/ NextRound \/ ReadItem \/ ItemFails \/ Loaded
Spec == Init /\ [][Next]_vars /\ WF_vars(Next)

------------------------------------------------------------------------------
(* What a client asks for *)

\* CollectionNS and Collection: by key the last item that was added, None for a KeyError.
LastOf(list, places) == IF places = {} THEN None ELSE list[Max(places)]
MutFind(kind, key) == LastOf(wsdl[kind], {k \in DOMAIN wsdl[kind] : wsdl[kind][k].name = key[2]})
Find(kind, key) ==
  LastOf(wsdl[kind], {k \in DOMAIN wsdl[kind] : <<wsdl[kind][k].ns, wsdl[kind][k].name>> = key})
Named(list, name) == LastOf(list, {k \in DOMAIN list : list[k].name = name})

\* One direction of callInfoFromWSDL: the parameters, or what it raises.
Answer(exception, params) == [raised |-> exception, params |-> params]
Parameters(message, body) ==
  IF body.parts = All THEN Answer(None, [k \in DOMAIN message.parts |-> message.parts[k].ref])
  ELSE IF \E k \in DOMAIN body.parts : Named(message.parts, body.parts[k]) = None
    THEN Answer("KeyError", <<>>)
  ELSE Answer(None, [k \in DOMAIN body.parts |-> Named(message.parts, body.parts[k]).ref])
HeaderFound(h) ==
  LET m == Find("message", h.message) IN m # None /\ Named(m.parts, h.part) # None
Direction(ref, role, missing) ==
  LET message == Find("message", ref) IN
  IF ref = None THEN Answer(None, <<>>)
  ELSE IF message = None THEN Answer(missing, <<>>)
  ELSE IF role = None THEN Answer("AttributeError", <<>>)
  ELSE IF role.mime THEN Answer("ValueError", <<>>)
  ELSE IF \E k \in DOMAIN role.headers : ~HeaderFound(role.headers[k]) THEN Answer("KeyError", <<>>)
  ELSE IF role.body = None THEN Answer("ValueError", <<>>)
  ELSE Parameters(message, role.body)

\* callInfoFromWSDL; an output message that is not there ends in a NameError.
callInfoFromWSDL(port, name) ==
  LET binding == Find("binding", port.binding)
      portType == Find("portType", binding.ref)
      operation == Named(portType.operations, name)
      opbinding == Named(binding.operations, name)
      input == Direction(operation.input, opbinding.input, "KeyError")
      output == Direction(operation.output, opbinding.output, "NameError")
      exception == IF binding = None THEN "KeyError"
                   ELSE IF portType = None THEN "KeyError"
                   ELSE IF operation = None \/ opbinding = None THEN "KeyError"
                   ELSE IF port.address = None THEN "WSDLError"
                   ELSE IF port.address # "soap" \/ ~binding.soap THEN "ValueError"
                   ELSE IF input.raised # None THEN input.raised
                   ELSE output.raised IN
  [raised |-> exception,
   in  |-> IF exception = None THEN input.params ELSE <<>>,
   out |-> IF exception = None THEN output.params ELSE <<>>]

------------------------------------------------------------------------------
(* Properties *)

(* load ends: documents that import one another, or themselves, do not keep *)
(* the loop over the imports going.                                         *)
LoadEnds == <>(phase \in {"loaded", "failed"})

\* The children of a document appear once, whatever paths of imports lead to it; those
\* of the main document once more when one of its imports imports it.
MergedOnce ==
  \A l \in DOMAIN repo.docs :
    Cardinality({k \in Standing : children[k].from = l})
      <= Len(repo.docs[l].items) * (IF l = repo.root THEN 2 ELSE 1)

\* What the documents say.  Reached: those on a path of imports from the root.
ImportsOf(l) == {i \in ToSet(repo.docs[l].items) : i.kind = "import" /\ i.at # None}
Closed(ls) == repo.root \in ls /\ \A l \in ls : {i.at : i \in ImportsOf(l)} \subseteq ls
Reached == {l \in DOMAIN repo.docs : \A ls \in SUBSET DOMAIN repo.docs : Closed(ls) => l \in ls}
Agreeing == \A l \in Reached : \A i \in ImportsOf(l) : repo.docs[i.at].tns = i.ns
Clashes(item, doc) == \E p \in DOMAIN item.own \cap DOMAIN doc.scope : item.own[p] # doc.scope[p]
Declared(kind) ==
  UNION {{Component([Original(i, repo.docs[l], l) EXCEPT !.tns = repo.docs[l].tns]) :
            i \in {j \in ToSet(repo.docs[l].items) : j.kind = kind}} : l \in Reached}
WithoutClashes ==
  \A l \in Reached : \A i \in ToSet(repo.docs[l].items) :
    i.kind \in Kinds => ~Clashes(i, repo.docs[l])

(* A WSDL that was loaded holds exactly the components of all documents it  *)
(* reaches, each under the namespace of its own document and with its        *)
(* references as that document means them, though all stand in one tree and  *)
(* the documents declare the same prefixes differently, and none merged      *)
(* twice on whatever paths it is reached.  Left out: imports                  *)
(* that misname a namespace, whose document is not merged, and components    *)
(* that redeclare a prefix of their root, whose declaration is lost.         *)
LoadedAsDeclared ==
  phase = "loaded" /\ Agreeing /\ WithoutClashes =>
    MergedOnce /\ \A kind \in Kinds : ToSet(wsdl[kind]) = Declared(kind)

\* One declaration for each name, and no operation overloaded.
Unambiguous ==
  /\ \A kind \in Kinds : \A x, y \in Declared(kind) : <<x.ns, x.name>> = <<y.ns, y.name>> => x = y
  /\ \A x \in Declared("portType") \cup Declared("binding") : \A j, k \in DOMAIN x.operations :
       x.operations[j].name = x.operations[k].name => j = k

\* The parameters are parts of the message, those that soap:body names or all, in order.
Listed(message, body, params) ==
  LET names == IF body.parts # All THEN body.parts
               ELSE [k \in DOMAIN message.parts |-> message.parts[k].name] IN
  /\ Len(names) = Len(params)
  /\ \A k \in DOMAIN names :
       \E p \in ToSet(message.parts) : p.name = names[k] /\ p.ref = params[k]

(* callInfoFromWSDL describes the call that the documents describe: what it  *)
(* lists for a direction are the parts of the message that the port type of   *)
(* the port's binding names, in the order of soap:body or of the message.     *)
(* Left out: two components of a name and overloaded operations, of which the  *)
(* last is taken.                                                            *)
CallsAsDeclared ==
  phase = "loaded" /\ Agreeing /\ WithoutClashes /\ Unambiguous =>
    \A s \in Declared("service"), b \in Declared("binding"), t \in Declared("portType") :
    \A port \in ToSet(s.ports), o \in ToSet(t.operations), ob \in ToSet(b.operations) :
      LET call == callInfoFromWSDL(port, o.name) IN
      /\ port.binding = <<b.ns, b.name>> /\ b.ref = <<t.ns, t.name>>
      /\ ob.name = o.name /\ call.raised = None
      => \A d \in {<<o.input, ob.input, call.in>>, <<o.output, ob.output, call.out>>} :
           d[1] # None =>
             \E m \in Declared("message") :
               <<m.ns, m.name>> = d[1] /\ Listed(m, d[2].body, d[3])
==============================================================================
