-------------------------------- MODULE Registry --------------------------------
(*****************************************************************************)
(* The registry of schema types and elements (ZSI/schema.py), and what the   *)
(* typecodes of generated modules read and write by it: fields by name,      *)
(* members of substitution groups, types that xsi:type substitutes, and      *)
(* wildcards (ZSI/TCcompound.py, AnyType and AnyElement of ZSI/TC.py, the    *)
(* classes that ZSI/generate/containers.py writes).                          *)
(*                                                                           *)
(* A name is a pair of namespace and local name.  A declaration says what it *)
(* is, "type" or "element", its name, its base (the type of an element),     *)
(* whether it restricts it, its fields, and the head of an element's group.  *)
(* A field has a form (leaf: a string; local: a type; ref: an element; any;  *)
(* anyType), tag, type, min, max, and contents (processContents).  A file    *)
(* declares whatever its declarations name.  A class is a pair of the kind   *)
(* and the name of its declaration; a typecode has a class, the tag it       *)
(* writes, typed, and its whats of.                                          *)
(* An element has qn, type (None, or prefix and name), nil, kids, text, and  *)
(* in a message ns, the prefixes, and id, which is the id() of its node.     *)
(*****************************************************************************)
EXTENDS Results, Naturals, Sequences, SequencesExt

CONSTANTS
  None,
  Files,       \* the generated modules: sequences of declarations, by name
  Documents,   \* records of the root of a document and its prefixes ns
  MaxPrefixes, \* MAXLEN of _resolve_prefix
  Frees,       \* whether nodes of a message that was read may be freed
  Reads        \* bound: how many documents are read

ASSUME RegistryAssumption == MaxPrefixes \in Nat /\ Frees \in BOOLEAN /\ Reads \in Nat

VARIABLES
  lazy,        \* whether the modules were generated with lazy=True
  imported,    \* the Files that are imported
  types, elements, \* SchemaInstanceType.types, .elements: declarations by name
  typecodes,   \* element_typecode_cache
  prefixes,    \* _resolve_prefix.cache
  last,        \* the last call and its result
  reads        \* how many documents were read

vars == <<lazy, imported, types, elements, typecodes, prefixes, last, reads>>

(* A definition Mut... is the one that follows it with a fault seeded in; no *)
(* specification uses it, a property is checked to reject it.                *)

-------------------------------------------------------------------------------
(* Classes.  SchemaInstanceType.__new__: the first class of a name stays.    *)

NamesIn(file, is) == { Files[file][i].name : i \in { j \in DOMAIN Files[file] : Files[file][j].is = is } }
DeclaredIn(file, is) ==
  [n \in NamesIn(file, is) |-> CHOOSE d \in ToSet(Files[file]) : d.is = is /\ d.name = n]
MutRegistered(old, new) == new @@ old
Registered(old, new) == old @@ new

DeclOf(cls) == IF cls[1] = "type" THEN types[cls[2]] ELSE elements[cls[2]]
TypeName(cls) == IF cls[1] = "type" THEN cls[2] ELSE elements[cls[2]].base

RECURSIVE Derived(_, _), Origin(_), Content(_, _, _), Endless(_, _)
Derived(s, t) == s = t \/ (types[s].base # None /\ Derived(types[s].base, t))
\* The class whose __init__ makes the pyclass.
Origin(cls) == IF DeclOf(cls).base = None THEN cls ELSE Origin(<<"type", DeclOf(cls).base>>)

\* The __init__ of the class and of its bases: TClist, given ofwhat.
Content(cls, ofwhat, restrict) ==
  LET d == DeclOf(cls)
      TClist == IF restrict THEN ofwhat ELSE d.fields \o ofwhat
  IN IF d.base = None THEN TClist ELSE Content(<<"type", d.base>>, TClist, d.restricts)
Whats(cls) == Content(cls, <<>>, FALSE)
Attr(what) == IF what.form = "any" THEN "any" ELSE what.tag[2]

\* The attributes that __init__ of the pyclass sets.
Defaults(cls) ==
  LET own == DeclOf(Origin(cls)).fields
      value(i) == IF own[i].max > 1 /\ own[i].form # "ref" THEN <<"list", <<>>>> ELSE <<"none">>
  IN [a \in { Attr(own[i]) : i \in DOMAIN own } |-> value(CHOOSE i \in DOMAIN own : Attr(own[i]) = a)]

\* Without lazy an instance makes instances for its whats, and these for theirs.
ClassOf(what) == <<IF what.form = "ref" THEN "element" ELSE "type", what.type>>
Endless(cls, outer) ==
  \/ cls \in outer
  \/ DeclOf(cls).base # None /\ Endless(<<"type", DeclOf(cls).base>>, outer)
  \/ \E what \in ToSet(DeclOf(cls).fields) :
       what.form \in {"local", "ref"} /\ Endless(ClassOf(what), outer \cup {cls})

Typecode(cls, tag, typed) == [cls |-> cls, tag |-> tag, typed |-> typed, of |-> Whats(cls)]
Instance(cls, tag, typed, st) ==
  IF ~lazy /\ Endless(cls, {})
  THEN Fail("RecursionError", st)
  ELSE Give(Typecode(cls, tag, typed), st)

\* getElementDeclaration without isref.
GED(name, st) ==
  IF name \in DOMAIN st.typecodes THEN Give(st.typecodes[name], st)
  ELSE IF name \notin DOMAIN elements THEN Give(None, st)
  ELSE Then(Instance(<<"element", name>>, name, FALSE, st), LAMBDA tc, s :
         Give(tc, [s EXCEPT !.typecodes = (name :> tc) @@ @]))

-------------------------------------------------------------------------------
(* Reading.                                                                  *)

\* _resolve_prefix; the prefix None is the default namespace.
PrefixKey(e, prefix) == <<e.id, prefix>>
Remember(key, uri, cache) == (key :> uri) @@ (IF Cardinality(DOMAIN cache) > MaxPrefixes THEN <<>> ELSE cache)
Resolve(e, prefix, st) ==
  LET key == PrefixKey(e, prefix)
  IN IF key \in DOMAIN st.prefixes THEN Give(st.prefixes[key], st)
     ELSE IF prefix \notin DOMAIN e.ns THEN Fail("EvaluateException", st)
     ELSE Give(e.ns[prefix], [st EXCEPT !.prefixes = Remember(key, e.ns[prefix], @)])

NameMatch(what, e) == what.tag[2] = e.qn[2] /\ what.tag[1] \in {None, e.qn[1]}
MutInGroup(what, e) == what.form = "ref" /\ e.qn \in DOMAIN elements /\ elements[e.qn].head # None
InGroup(what, e) ==
  what.form = "ref" /\ e.qn \in DOMAIN elements /\ elements[e.qn].head = what.tag

Put(at, what, v) ==
  LET a   == Attr(what)
      old == IF a \in DOMAIN at THEN at[a] ELSE <<"none">>
      new == IF what.max = 1 THEN v
             ELSE <<"list", IF old = <<"none">> THEN <<v>> ELSE Append(old[2], v)>>
  IN (a :> new) @@ at

\* Any: what has no declaration, by the types the elements name themselves.
OwnType(e) ==
  IF e.type = None THEN Ok(None)
  ELSE IF e.type[1] \notin DOMAIN e.ns THEN Raise("EvaluateException")
  ELSE Ok(<<e.ns[e.type[1]], e.type[2]>>)
RECURSIVE AnyValue(_), AnyDict(_, _)
AnyValue(e) ==
  After(OwnType(e), LAMBDA is :
    IF e.nil \/ is \notin {None, <<"xsd", "string">>} THEN Raise("EvaluateException")
    ELSE IF is = None /\ e.kids # <<>> THEN AnyDict(e.kids, <<>>)
    ELSE IF e.text = None THEN Ok(<<"none">>) ELSE Ok(<<"str", e.text>>))
AnyDict(kids, dict) ==
  IF kids = <<>> THEN Ok(<<"dict", dict>>)
  ELSE After(AnyValue(Head(kids)), LAMBDA v : AnyDict(Tail(kids), (Head(kids).qn[2] :> v) @@ dict))

\* WrapImmutable: a builtin that Any has read gets a typecode.
Wrapped(v) == IF v[1] = "str" THEN <<"wrapped", v[2]>> ELSE v
\* pyobj.typecode = what
WithTypecode(v, tc) == <<"object", [v[2] EXCEPT !.cls = tc.cls, !.tag = tc.tag, !.typed = tc.typed]>>

RECURSIVE ParseObject(_, _, _), ParseKids(_, _, _, _), TryWhats(_, _, _, _, _, _)

\* ComplexType.parse: the children one after the other.
ParseContent(tc, e, st) ==
  Then(ParseKids(tc, e.kids, Defaults(tc.cls), st), LAMBDA at, s :
    Give(<<"object", [cls |-> tc.cls, tag |-> tc.tag, typed |-> tc.typed, at |-> at]>>, s))

\* getSubstituteType; whether a type is derived shows once it has an instance.
Substitute(tc, is, e, st) ==
  IF TypeName(tc.cls) = None \/ is \notin DOMAIN types THEN Fail("EvaluateException", st)
  ELSE Then(Instance(<<"type", is>>, tc.tag, TRUE, st), LAMBDA sub, s :
         IF Derived(is, TypeName(tc.cls)) THEN ParseContent(sub, e, s)
         ELSE Fail("TypeError", s))
ParseObject(tc, e, st) ==
  Then([out |-> OwnType(e), st |-> st], LAMBDA is, s :
    IF is \in {None, TypeName(tc.cls)} THEN ParseContent(tc, e, s) ELSE Substitute(tc, is, e, s))

ParseText(e, st) ==
  IF e.kids # <<>> THEN Fail("EvaluateException", st) ELSE Give(<<"str", e.text>>, st)

\* AnyElement.parse of what has neither a declaration nor a type.  What Any refuses
\* is tried again, as a dict or as a String, which refuse it too unless it is nil
\* and has only text: no parts are then an empty list.
Undeclared(e) ==
  IF e.nil /\ e.kids = <<>> /\ e.text # None THEN Ok(<<"list", <<>>>>)
  ELSE After(AnyValue(e), LAMBDA v : Ok(Wrapped(v)))

\* AnyElement.parse with an xsi:type, and AnyType.parse.
ParseOfType(type, tag, e, st) ==
  IF type \in DOMAIN types
  THEN Then(Instance(<<"type", type>>, tag, TRUE, st), LAMBDA tc, s :
         Then(ParseObject(tc, e, s), LAMBDA v, s1 : Give(WithTypecode(v, tc), s1)))
  ELSE [out |-> After(AnyValue(e), LAMBDA v : Ok(Wrapped(v))), st |-> st]
ParseAnyElement(what, e, st) ==
  LET strict == what.contents # "skip"
  IN Then(GED(e.qn, st), LAMBDA ged, s :
       IF strict /\ ged # None
       THEN Then(ParseObject(ged, e, s), LAMBDA v, s1 : Give(WithTypecode(v, ged), s1))
       ELSE IF strict /\ e.type # None
       THEN Then(Resolve(e, e.type[1], s), LAMBDA uri, s1 :
              ParseOfType(<<uri, e.type[2]>>, e.qn, e, s1))
       ELSE IF strict THEN [out |-> Undeclared(e), st |-> s]
       ELSE Give(<<"node", e.qn>>, s))

\* AnyType.parse wants the name, not only a name that matches.
ParseAnyType(what, e, st) ==
  LET type == IF e.type = None THEN <<None, None>> ELSE e.type
      value(uri) == IF uri = "xsd" THEN AnyValue(e) ELSE AnyDict(e.kids, <<>>)
  IN IF e.qn # what.tag THEN Fail("EvaluateException", st)
     ELSE Then(Resolve(e, type[1], st), LAMBDA uri, s :
            IF <<uri, type[2]>> \in DOMAIN types THEN ParseOfType(<<uri, type[2]>>, what.tag, e, s)
            ELSE [out |-> value(uri), st |-> s])

ParseWhat(what, e, st) ==
  CASE what.form = "leaf"    -> ParseText(e, st)
    [] what.form = "any"     -> ParseAnyElement(what, e, st)
    [] what.form = "anyType" -> ParseAnyType(what, e, st)
    [] OTHER -> ParseObject(Typecode(ClassOf(what), what.tag, what.form = "ref"), e, st)

\* A child that matches a what which may occur again goes on to the next.
LastMissing(whats, at) == whats # <<>> /\ Last(whats).min > 0 /\ Attr(Last(whats)) \notin DOMAIN at
Taken(tc, i, e, at, st) ==
  IF tc.of[i].max = 1 THEN Give(at, st) ELSE TryWhats(tc, i + 1, e, at, TRUE, st)
\* _get_substitute_element looks the child up, whatever the group.
OfGroup(tc, i, e, at, took, ged, st) ==
  IF ~InGroup(tc.of[i], e) THEN TryWhats(tc, i + 1, e, at, took, st)
  ELSE Then(ParseObject(ged, e, st), LAMBDA v, s : Taken(tc, i, e, Put(at, tc.of[i], v), s))
TryWhats(tc, i, e, at, took, st) ==
  IF i > Len(tc.of)
  THEN IF ~took /\ LastMissing(tc.of, at) THEN Fail("EvaluateException", st) ELSE Give(at, st)
  ELSE IF tc.of[i].form = "any" \/ NameMatch(tc.of[i], e)
  THEN Then(ParseWhat(tc.of[i], e, st), LAMBDA v, s : Taken(tc, i, e, Put(at, tc.of[i], v), s))
  ELSE IF tc.of[i].form = "ref"
  THEN Then(GED(e.qn, st), LAMBDA ged, s : OfGroup(tc, i, e, at, took, ged, s))
  ELSE TryWhats(tc, i + 1, e, at, took, st)

\* Whats of the very name come first, and take a child alone.
Named(whats, e) == { i \in DOMAIN whats : whats[i].form # "any" /\ whats[i].tag = e.qn }
ParseKid(tc, e, at, st) ==
  IF Named(tc.of, e) = {} THEN TryWhats(tc, 1, e, at, FALSE, st)
  ELSE LET what == tc.of[CHOOSE i \in Named(tc.of, e) : \A j \in Named(tc.of, e) : i <= j]
       IN Then(ParseWhat(what, e, st), LAMBDA v, s : Give(Put(at, what, v), s))
ParseKids(tc, kids, at, st) ==
  IF kids = <<>> THEN Give(at, st)
  ELSE Then(ParseKid(tc, Head(kids), at, st), LAMBDA at1, s : ParseKids(tc, Tail(kids), at1, s))

-------------------------------------------------------------------------------
(* Writing.  A prefix that is written is the name of its namespace.          *)

Element(qn, type, kids, text) ==
  [qn |-> qn, type |-> type, nil |-> FALSE, kids |-> kids, text |-> text]
Nilled == [Element(<<None, "E">>, None, <<>>, None) EXCEPT !.nil = TRUE]

\* _get_type_or_substitute, for an object.
MutSubTag(what, obj) == IF what.form = "any" THEN obj.tag ELSE what.tag
SubTag(what, obj) == IF what.form \in {"local", "anyType"} THEN what.tag ELSE obj.tag
MaySubstitute(what, obj) ==
  CASE what.form = "ref" ->
         obj.cls[1] = "element" /\ (obj.cls[2] = what.type \/ elements[obj.cls[2]].head = what.tag)
    [] what.form = "local" -> obj.cls[1] = "type" /\ Derived(obj.cls[2], what.type)
    [] OTHER -> TRUE

\* Any.serialize of a dict: parts with the names of the keys, typed.
RECURSIVE AnyElements(_, _)
AnyElements(name, v) ==
  LET keys == SetToSeq(DOMAIN v[2])
  IN CASE v[1] = "dict" -> Element(name, None, [i \in DOMAIN keys |-> AnyElements(<<None, keys[i]>>, v[2][keys[i]])], None)
       [] v[1] = "str"  -> Element(name, <<"xsd", "string">>, <<>>, v[2])
       [] v[1] = "none" -> [Nilled EXCEPT !.qn = name]

RECURSIVE WriteObject(_, _), WriteField(_, _), WriteItems(_, _)

\* The wrapper of a builtin is not in Any's serialmap, whose typecode is Any;
\* XML.cb goes through the attributes of the parents as through a list.
WriteValue(what, v) ==
  CASE v[1] = "object" -> IF MaySubstitute(what, v[2]) THEN WriteObject(v[2], SubTag(what, v[2]))
                          ELSE Raise("TypeError")
    [] v[1] = "wrapped" -> Raise("RecursionError")
    [] v[1] = "node" -> Raise("KeyError")
    [] what.form = "leaf" -> Ok(<<Element(what.tag, None, <<>>, v[2])>>)
    [] what.form = "anyType" -> Ok(<<AnyElements(what.tag, v)>>)
    [] OTHER -> Ok(<<AnyElements(<<None, "E">>, v)>>)

Both(r, more) == After(r, LAMBDA es : After(more, LAMBDA fs : Ok(es \o fs)))
WriteItems(what, vs) ==
  IF vs = <<>> THEN Ok(<<>>) ELSE Both(WriteValue(what, Head(vs)), WriteItems(what, Tail(vs)))
\* ComplexType.cb, for one what.
WriteField(what, v) ==
  CASE v = <<"none">> -> IF what.min = 0 THEN Ok(<<>>) ELSE Raise("EvaluateException")
    [] v[1] = "list" /\ what.max > 1 ->
         After(WriteItems(what, v[2]), LAMBDA es :
           IF Len(v[2]) \in what.min..what.max THEN Ok(es) ELSE Raise("EvaluateException"))
    [] OTHER -> WriteValue(what, v)
RECURSIVE WriteFields(_, _)
WriteFields(whats, at) ==
  IF whats = <<>> THEN Ok(<<>>)
  ELSE LET a == Attr(Head(whats))
       IN Both(WriteField(Head(whats), IF a \in DOMAIN at THEN at[a] ELSE <<"none">>),
               WriteFields(Tail(whats), at))
WriteObject(obj, tag) ==
  After(WriteFields(Whats(obj.cls), obj.at), LAMBDA kids :
    Ok(<<Element(tag, IF obj.typed THEN TypeName(obj.cls) ELSE None, kids, None)>>))

-------------------------------------------------------------------------------
(* A program imports modules, reads documents and writes what it has read.   *)

NoCall == [op |-> "none", out |-> Raise("none")]

Init ==
  /\ lazy \in BOOLEAN
  /\ imported = {} /\ types = <<>> /\ elements = <<>>
  /\ typecodes = <<>> /\ prefixes = <<>>
  /\ last = NoCall /\ reads = 0

\* The class statements of a module, one after the other.
Import(file) ==
  /\ file \notin imported
  /\ imported' = imported \cup {file}
  /\ types' = Registered(types, DeclaredIn(file, "type"))
  /\ elements' = Registered(elements, DeclaredIn(file, "element"))
  /\ UNCHANGED <<lazy, typecodes, prefixes, last, reads>>

\* The nodes of a message; an id is the place of the node in its document.
RECURSIVE Located(_, _, _)
Located(e, ns, path) ==
  [qn |-> e.qn, type |-> e.type, nil |-> e.nil, text |-> e.text, ns |-> ns, id |-> path,
   kids |-> [i \in DOMAIN e.kids |-> Located(e.kids[i], ns, Append(path, i))]]
Message(doc) == Located(doc.root, doc.ns, <<>>)

\* ParsedSoap.Parse with the GED of the root; cache is what _resolve_prefix
\* remembers of nodes whose id those of the message have.
Parse(doc, cache) ==
  Then(GED(doc.root.qn, [typecodes |-> typecodes, prefixes |-> cache]), LAMBDA tc, st :
    ParseObject(tc, Message(doc), st))
Reading(doc, cache, call) ==
  LET r == Parse(doc, cache)
  IN /\ doc.root.qn \in DOMAIN elements
     /\ typecodes' = r.st.typecodes
     /\ prefixes' = IF Frees THEN r.st.prefixes ELSE <<>>
     /\ last' = [op |-> call.op, doc |-> doc, by |-> imported, value |-> call.value, out |-> r.out]
     /\ UNCHANGED <<lazy, imported, types, elements>>

\* The nodes of a message are new, or have the ids of nodes that were freed.
Read(doc, cache) ==
  /\ reads < Reads
  /\ reads' = reads + 1
  /\ Reading(doc, cache, [op |-> "read", value |-> None])

Write ==
  /\ last.op = "read" /\ IsOk(last.out)
  /\ last' = [op |-> "write", value |-> last.out[2],
              out |-> WriteObject(last.out[2][2], last.out[2][2].tag)]
  /\ UNCHANGED <<lazy, imported, types, elements, typecodes, prefixes, reads>>

Namespaces == { n[1] : n \in DOMAIN types } \cup {"xsd"}
ReadBack ==
  /\ last.op = "write" /\ IsOk(last.out)
  /\ Reading([root |-> last.out[2][1], ns |-> [n \in Namespaces |-> n]], <<>>,
             [op |-> "readback", value |-> last.value])
  /\ UNCHANGED reads

Next ==
  \/ \E file \in DOMAIN Files : Import(file)
  \/ \E doc \in Documents, cache \in {<<>>, prefixes} : Read(doc, cache)
  \/ Write
  \/ ReadBack

Spec == Init /\ [][Next]_vars

-------------------------------------------------------------------------------
(* Properties.                                                               *)

\* No child can be taken twice: after a what that takes one by a group, and
\* after a wildcard, the next whats that match take it, too.
Clear(whats) ==
  \A i, j \in DOMAIN whats : i < j /\ whats[j].form = "any" => whats[i].form \notin {"any", "ref"}

\* Where a child belongs: a field of its name, of its group, or any.
Home(whats, kid) ==
  LET first(S) == CHOOSE i \in S : \A j \in S : i <= j
      grouped == { i \in DOMAIN whats : whats[i].form = "ref" /\ kid.qn \in DOMAIN elements
                                            /\ elements[kid.qn].head = whats[i].tag }
      wild    == { i \in DOMAIN whats : whats[i].form = "any" }
  IN IF Named(whats, kid) # {} THEN first(Named(whats, kid))
     ELSE IF grouped # {} THEN first(grouped)
     ELSE IF wild # {} THEN first(wild) ELSE 0
Values(v) == IF v[1] = "list" THEN v[2] ELSE IF v = <<"none">> THEN <<>> ELSE <<v>>

\* The class that an element says it is of, in its own document.
Said(e, cls) ==
  IF e.type = None \/ OwnType(e)[2] = TypeName(cls) THEN cls ELSE <<"type", OwnType(e)[2]>>
RECURSIVE Fits(_, _, _), FitsWhat(_, _, _)
Fits(v, e, cls) ==
  Clear(Whats(cls)) =>
    \A i \in DOMAIN Whats(cls) :
      LET what == Whats(cls)[i]
          mine == SelectSeq(e.kids, LAMBDA kid : Home(Whats(cls), kid) = i)
          got  == Values(v[2].at[Attr(what)])
      IN mine # <<>> =>
           /\ Len(got) = Len(mine)
           /\ \A k \in DOMAIN mine : FitsWhat(got[k], mine[k], what)
FitsWhat(v, e, what) ==
  CASE what.form = "leaf"  -> v = <<"str", e.text>>
    [] what.form = "local" -> Fits(v, e, Said(e, ClassOf(what)))
    [] what.form = "ref"   -> Fits(v, e, Said(e, <<"element", e.qn>>))
    [] what.form = "any" /\ what.contents # "skip" /\ e.qn \in DOMAIN elements ->
         Fits(v, e, Said(e, <<"element", e.qn>>))
    [] what.form \in {"any", "anyType"} /\ e.type # None /\ OwnType(e)[2] \in DOMAIN types ->
         (what.form = "any" => what.contents # "skip") => Fits(v, e, <<"type", OwnType(e)[2]>>)
    [] OTHER -> TRUE

\* A message is read by the declarations the registry has: every child goes
\* to the field of its name, of its substitution group or to the wildcard,
\* alone and in order, and with the type that its own document says
\* (ComplexType.parse, getSubstituteType, getSubstitutionElement,
\* AnyElement.parse).
ReadsAsDeclared ==
  [][reads' # reads /\ IsOk(last'.out) =>
       LET e == Message(last'.doc) IN Fits(last'.out[2], e, Said(e, <<"element", e.qn>>))]_vars

\* Whatever the element names the files declare, and nothing was read by Any.
NamedBy(files, is) == UNION { NamesIn(file, is) : file \in files }
RECURSIVE Known(_, _), Certain(_)
Known(e, files) ==
  /\ e.qn[1] # None => e.qn \in NamedBy(files, "element")
  /\ e.type # None => OwnType(e)[2] \in NamedBy(files, "type") \cup {<<"xsd", "string">>}
  /\ \A i \in DOMAIN e.kids : Known(e.kids[i], files)
Certain(v) ==
  CASE v[1] = "object" -> \A a \in DOMAIN v[2].at : Certain(v[2].at[a])
    [] v[1] = "list" -> \A i \in DOMAIN v[2] : Certain(v[2][i])
    [] OTHER -> v[1] \notin {"dict", "wrapped"}
Answer(doc) == Parse(doc, <<>>).out

\* What a document was read as it is read as ever after, whatever modules
\* are imported later ("import order determines which class is loaded",
\* SchemaInstanceType, and the instances it caches).
SameAnswers ==
  last.op = "read" /\ IsOk(last.out) /\ Known(Message(last.doc), last.by) /\ Certain(last.out[2])
    => Answer(last.doc) = last.out

\* What a typecode writes as it was read: it has a what for every attribute
\* that is set, none of them twice, and whatever must occur.
RECURSIVE Writable(_, _)
Writable(what, v) ==
  CASE v[1] = "object" ->
         LET of == Whats(v[2].cls)
             set == { a \in DOMAIN v[2].at : Values(v[2].at[a]) # <<>> }
         IN /\ Clear(of) /\ set \subseteq { Attr(of[i]) : i \in DOMAIN of }
            /\ what.form = "ref" => v[2].cls[1] = "element"
            /\ \A i, j \in DOMAIN of : Attr(of[i]) = Attr(of[j]) => i = j
            /\ \A i \in DOMAIN of :
                 IF Attr(of[i]) \notin set THEN of[i].min = 0
                 ELSE /\ Len(Values(v[2].at[Attr(of[i])])) >= of[i].min
                      /\ \A k \in DOMAIN Values(v[2].at[Attr(of[i])]) :
                           Writable(of[i], Values(v[2].at[Attr(of[i])])[k])
    [] what.form = "anyType" -> v[1] = "str"
    [] OTHER -> v[1] \in {"str", "dict"}
Root == [form |-> "root", tag |-> None]

\* What was read can be written, and what is written is read as the same
\* again, with the types and elements that were substituted
\* (_get_type_or_substitute, AnyElement: "self-describing").
WrittenReadsBack ==
  /\ last.op = "write" /\ Writable(Root, last.value) => IsOk(last.out)
  /\ last.op = "readback" /\ Writable(Root, last.value) => last.out = Ok(last.value)

\* ZSI/__init__.py, _resolve_prefix: "resolve prefix to a namespaceURI": the
\* prefix of an xsi:type below a wildcard has the namespace that the document
\* of the element declares, whatever documents were read before.
PrefixesOfTheirDocument ==
  [][reads' # reads => last'.out = Answer(last'.doc)]_vars
================================================================================
