-------------------------------- MODULE Reading --------------------------------
(*****************************************************************************)
(* The parse methods of the typecodes (ZSI/TC.py, TCcompound.py,             *)
(* TCnumbers.py, TCapache.py): the value that an element of a message is     *)
(* read as.                                                                  *)
(*                                                                           *)
(* A typecode is a record; cls is its class, name and ns are pname and       *)
(* nspname, min, max, nillable and type its facets, and the others belong to *)
(* some classes: strip, choices, item (List), members and id (Union), aslist *)
(* (Any), of, inorder, holder, mixed, attrs (ComplexType), fill, sparse,     *)
(* undeclared, of (Array).  No pyclass is given, but holder = "object" means *)
(* that a ComplexType has one.  An element that refers to itself is not      *)
(* considered: reading it ends in a RecursionError.                          *)
(*****************************************************************************)
EXTENDS Envelope

Unbounded == 1000                                  \* maxOccurs = "unbounded"

\* TypeCode.__init__ and what the classes add to it: the defaults.
Typecode(cls, name) ==
  [cls |-> cls, name |-> name, ns |-> None, min |-> IF cls = "Any" THEN 0 ELSE 1, max |-> 1,
   nillable |-> FALSE, typed |-> TRUE, type |-> <<None, None>>, strip |-> TRUE, choices |-> {},
   item |-> None, id |-> None, members |-> <<>>, aslist |-> FALSE, of |-> <<>>,
   inorder |-> FALSE, holder |-> "dict", mixed |-> FALSE, attrs |-> <<>>, fill |-> Nil,
   sparse |-> FALSE, undeclared |-> FALSE, offset |-> FALSE, wrapped |-> TRUE]

XsdOrSoap(ns) == ns \in {"xsd"} \cup ENC

\* parselist of a class, which may be inherited; {} where it has none.
Parselist(tc) ==
  CASE tc.cls \in {"String", "Enumeration"} -> {<<None, "string">>}
    [] tc.cls = "Token" -> {<<None, "token">>}
    [] tc.cls = "URI" -> {<<None, "anyURI">>, <<"xsd", "anyURI">>}
    [] tc.cls = "QName" -> {<<None, "QName">>}
    [] tc.cls = "Base64String" ->
         {<<None, "base64Binary">>} \cup (ENC \X {"base64"})
    [] tc.cls = "Base64Binary" -> {<<None, "base64Binary">>}
    [] tc.cls = "HexBinaryString" -> {<<None, "hexBinary">>}
    [] tc.cls \in {"Integer", "IEnumeration"} ->
         {None} \X (IF tc.type[2] = None THEN DOMAIN Ranges ELSE {tc.type[2]})
    [] tc.cls = "Decimal" ->
         {None} \X (IF tc.type[2] = None THEN {"decimal", "float", "double"} ELSE {tc.type[2]})
    [] tc.cls = "FPEnumeration" -> {<<None, "float">>}
    [] tc.cls = "Boolean" -> {<<None, "boolean">>}
    [] tc.cls \in TimeClasses -> {<<None, tc.cls>>}
    [] tc.cls = "Map" -> {<<"apache", "Map">>}
    [] OTHER -> {}

CheckType(tc, e) ==
  LET type == Get(e, "type")
      uri  == e.ns[type[1]]
      is   == <<uri, type[2]>>
  IN IF type = None THEN Ok(<<None, None>>)
     ELSE IF type[1] \notin DOMAIN e.ns THEN Raise("EvaluateException")
     ELSE IF \/ Parselist(tc) = {} \/ is \in Parselist(tc)
             \/ XsdOrSoap(uri) /\ <<None, type[2]>> \in Parselist(tc)
          THEN Ok(is)
     ELSE Raise("EvaluateException")

\* The name of an element in the encoding's namespace is a type.
CheckName(tc, e) ==
  IF e.qn[1] \in ENC
  THEN IF Parselist(tc) = {} \/ {<<None, e.qn[2]>>, e.qn} \cap Parselist(tc) # {}
       THEN Ok(e.qn) ELSE Raise("EvaluateException")
  ELSE IF tc.ns \notin {None, e.qn[1]} \/ tc.name \notin {None, e.qn[2]}
       THEN Raise("EvaluateException")
  ELSE CheckType(tc, e)

NameMatch(tc, e) == tc.name = e.qn[2] /\ tc.ns \in {None, e.qn[1]}

\* nilled: an element that is nil is Nilled, or an error.
IsNil(e) == Get(e, "nil") \in {"1", "true"}
Nilled(tc, st) == IF tc.nillable THEN Give(Nil, st) ELSE Fail("EvaluateException", st)

TextOf(e) == IF Texts(e) = <<>> THEN None ELSE Head(Texts(e)).text
SimpleValue(e) ==
  IF ~ValidEncoding(e) \/ Bare(e) \/ Elements(e.kids) # <<>> THEN Raise("EvaluateException")
  ELSE Ok(TextOf(e))

\* Union.text_to_data: the member that accepts a text is tried first next time.
MutFirst(ms, i) == <<ms[i]>> \o Tail(ms)
First1(ms, i) == <<ms[i]>> \o RemoveAt(ms, i)
FirstAccepting(id, results, st) ==
  LET accepting == { i \in DOMAIN results : IsOk(results[i]) }
      i == Min(accepting)
  IN IF accepting = {} THEN Fail("EvaluateException", st)
     ELSE [out |-> results[i], st |-> [st EXCEPT !.order[id] = First1(@, i)]]
UnionText(tc, t, scope, st) ==
  LET ms == st.order[tc.id]
  IN FirstAccepting(tc.id, [i \in DOMAIN ms |-> TextToData(ms[i], t, scope)], st)

Convert(tc, t, e, st) ==
  IF tc.cls = "Union" THEN UnionText(tc, t, e.ns, st)
  ELSE [out |-> TextToData(tc, t, e.ns), st |-> st]

\* parse_attributes: the attributes that are there, one after the other.
RECURSIVE ParseAttributes(_, _, _, _)
ParseAttributes(tc, e, names, st) ==
  IF names = {} THEN Give(<<>>, st)
  ELSE LET a == CHOOSE a \in names : TRUE
           rest(r, st1) == IF r = None THEN ParseAttributes(tc, e, names \ {a}, st1)
                           ELSE Then(ParseAttributes(tc, e, names \ {a}, st1),
                                     LAMBDA more, st2 : Give((a :> r) @@ more, st2))
       IN IF Get(e, a) = None THEN rest(None, st)
          ELSE Then(Convert(tc.attrs[a], Get(e, a), e, st), rest)
Attributes(tc, e, st) == ParseAttributes(tc, e, DOMAIN tc.attrs, st)

-------------------------------------------------------------------------------
(* Simple types.                                                             *)

\* The rest of SimpleType.parse, for the element that has the text; a str, an
\* int or a tuple takes no attributes.
Content(tc, t, e, st) ==
  Then(Convert(tc, t, e, st), LAMBDA v, st1 :
    Then(Attributes(tc, e, st1), LAMBDA atts, st2 :
      IF atts = <<>> THEN Give(v, st2) ELSE Fail("AttributeError", st2)))

\* The results of checks that leave st as it is.
NameChecked(tc, e, st) == [out |-> CheckName(tc, e), st |-> st]
TypeChecked(tc, e, st) == [out |-> CheckType(tc, e), st |-> st]
SimpleText(e, st) == [out |-> SimpleValue(e), st |-> st]

ParseSimple(tc, e, st) ==
  LET href == Get(e, "href")
      value(x, s) == Then(IF Bare(x) THEN Give(None, s) ELSE SimpleText(x, s),
                          LAMBDA t, s1 : Content(tc, t, x, s1))
      target(x, s) == Then(TypeChecked(tc, x, s), LAMBDA type, s1 :
                        IF IsNil(x) THEN Nilled(tc, s1) ELSE value(x, s1))
  IN Then(NameChecked(tc, e, st), LAMBDA type, s :
       IF ~Bare(e) THEN value(e, s)
       ELSE IF href = None THEN IF IsNil(e) THEN Nilled(tc, s) ELSE Convert(tc, None, e, s)
       ELSE IF href[1] # "#" THEN ResolveHREF(href, s)
       ELSE Then(FindLocalHREF(href, TRUE, s), target))

\* Enumeration, IEnumeration and FPEnumeration.
Enumerations == {"Enumeration", "IEnumeration", "FPEnumeration"}
Chosen(tc, r) ==
  Then(r, LAMBDA v, st : IF tc.cls \in Enumerations => v \in tc.choices THEN r
                         ELSE Fail("EvaluateException", st))

\* The element with the value, or None.
SimpleHREF(tc, e, st) ==
  IF ~Bare(e) THEN Give(e, st)
  ELSE IF Get(e, "href") # None THEN FindLocalHREF(Get(e, "href"), FALSE, st)
  ELSE IF tc.min = 0 \/ (IsNil(e) /\ tc.nillable) THEN Give(None, st)
  ELSE Fail("EvaluateException", st)

\* Integer.parse asks only the element that refers whether it is nil.
ParseInteger(tc, e, st) ==
  LET number(type, x, st1) ==
        Then(SimpleText(x, st1), LAMBDA t, s :
          Then([out |-> IntegerOf(t), st |-> s], LAMBDA n, s1 :
            IF tc.type[2] \in {None, type} /\ InRange(type, n[2]) THEN Give(n, s1)
            ELSE Fail("EvaluateException", s1)))
  IN Then(NameChecked(tc, e, st), LAMBDA is, s :
       IF IsNil(e) THEN Nilled(tc, s)
       ELSE Then(SimpleHREF(tc, e, s), LAMBDA x, s1 :
              IF x = None THEN Give(Nil, s1)
              ELSE number(IF is[2] = None THEN tc.type[2] ELSE is[2], x, s1)))

\* Decimal.parse: only a type that the element names has a range; a text that
\* is no number is an AttributeError (args is a tuple).
ParseDecimal(tc, e, st) ==
  LET magic(t) == t \in { <<"word", "INF">>, <<"word", "-INF">> }
      outside(is, t, v) == \/ v \in {"inf", "-inf", "nan"}
                           \/ is[2] = "float" /\ v \in {"tiny", "huge"}
                           \/ v = "0" /\ Strip(t)[2] # "0"
      number(is, t, r, s) ==
        IF ~IsOk(r) THEN Fail("AttributeError", s)
        ELSE IF ~magic(t) /\ outside(is, t, r[2][2]) THEN Fail("EvaluateException", s)
        ELSE Give(r[2], s)
  IN Then(NameChecked(tc, e, st), LAMBDA is, s :
       Then(SimpleHREF(tc, e, s), LAMBDA x, s1 :
         IF x = None THEN Give(Nil, s1)
         ELSE IF tc.type[2] # None /\ is \notin {tc.type, <<None, None>>}
              THEN Fail("EvaluateException", s1)
         ELSE IF IsNil(x) THEN Nilled(tc, s1)
         ELSE Then(SimpleText(x, s1), LAMBDA t, s2 : number(is, t, FloatOf(t), s2))))

LowerCase(t) == IF t \in { <<"word", "True">>, <<"word", "TRUE">> } THEN <<"word", "true">> ELSE t
ParseBoolean(tc, e, st) ==
  Then(NameChecked(tc, e, st), LAMBDA is, s :
    Then(SimpleHREF(tc, e, s), LAMBDA x, s1 :
      IF x = None THEN Give(Nil, s1)
      ELSE IF IsNil(x) THEN Nilled(tc, s1)
      ELSE Then(SimpleText(x, s1), LAMBDA t, s2 : [out |-> BooleanOf(LowerCase(t)), st |-> s2])))

ParseList(tc, e, st) ==
  LET href == Get(e, "href")
      empty == <<"list", <<>>>>
      value(x, s) ==
        IF IsNil(x) THEN Nilled(tc, s)
        ELSE IF Bare(x) THEN Give(empty, s)
        ELSE Then(SimpleText(x, s), LAMBDA t, s1 : Convert(tc, t, x, s1))
  IN Then(NameChecked(tc, e, st), LAMBDA is, s :
       IF ~Bare(e) \/ href = None THEN value(e, s)
       ELSE IF href[1] # "#" THEN ResolveHREF(href, s)
       ELSE Then(FindLocalHREF(href, TRUE, s), LAMBDA x, s1 :
              Then(TypeChecked(tc, x, s1), LAMBDA type, s2 : value(x, s2))))

ParseAtomic(tc, e, st) ==
  Chosen(tc,
    CASE tc.cls \in {"Integer", "IEnumeration"} -> ParseInteger(tc, e, st)
      [] tc.cls \in {"Decimal", "FPEnumeration"} -> ParseDecimal(tc, e, st)
      [] tc.cls = "Boolean" -> ParseBoolean(tc, e, st)
      [] tc.cls = "List" -> ParseList(tc, e, st)
      [] OTHER -> ParseSimple(tc, e, st))

\* Union.parse: a member that fails may have found elements all the same.
\* Without a member that accepts, a bare raise raises a RuntimeError.
RECURSIVE TryMembers(_, _, _, _), Tried(_, _, _, _)
Tried(tc, e, i, r) == IF IsOk(r.out) THEN [r EXCEPT !.st.order[tc.id] = First1(@, i)]
                      ELSE TryMembers(tc, e, i + 1, r.st)
TryMembers(tc, e, i, st) ==
  LET ms == st.order[tc.id]
  IN IF i > Len(ms) THEN Fail("RuntimeError", st)
     ELSE Tried(tc, e, i, ParseAtomic(ms[i], e, st))
ParseUnion(tc, e, st) == Then(NameChecked(tc, e, st), LAMBDA is, s : TryMembers(tc, e, 1, s))

\* XML.parse: the nodes themselves.
ParseXML(tc, e, st) ==
  LET href == Get(e, "href")
      value(x, s) ==
        LET es == Elements(x.kids)
        IN IF Len(es) < tc.min \/ Len(es) > tc.max THEN Fail("EvaluateException", s)
           ELSE IF tc.max = 1 /\ es = <<>> THEN Fail("IndexError", s)
           ELSE Give(<<"xml", IF tc.max = 1 THEN <<es[1]>> ELSE es>>, s)
  IN IF ~tc.wrapped THEN Give(<<"xml", <<e>>>>, st)
     ELSE IF Elements(e.kids) # <<>> THEN value(e, st)
     ELSE IF href = None THEN IF tc.min = 0 THEN Give(Nil, st) ELSE Fail("EvaluateException", st)
     ELSE IF href[1] # "#" THEN ResolveHREF(href, st)
     ELSE Then(FindLocalHREF(href, TRUE, st), value)

-------------------------------------------------------------------------------
(* Compound types.                                                           *)

\* parsemap: the typecodes that ZSI/__init__.py registers.
Registered(tc, type) ==
  LET simple(cls, t) == [tc EXCEPT !.cls = cls, !.type = <<"xsd", t>>, !.name = None, !.ns = None,
                                   !.min = 0, !.nillable = FALSE, !.strip = TRUE]
      name == type[2]
  IN CASE type[2] = "string" -> {simple("String", name)}
       [] name = "anyURI" -> {simple("URI", name)}
       [] name = "base64Binary" \/ (type[1] \in ENC /\ name = "base64") ->
            {simple("Base64String", name)}
       [] name = "hexBinary" -> {simple("HexBinaryString", name)}
       [] name \in DOMAIN Ranges -> {simple("Integer", name)}
       [] name \in {"float", "double"} -> {simple("Decimal", name)}
       [] name = "boolean" -> {simple("Boolean", name)}
       [] name \in TimeClasses \ {"gMonth"} -> {simple(name, name)}
       [] OTHER -> {}
RegisteredFor(tc, type) ==
  IF XsdOrSoap(type[1]) THEN Registered(tc, type)
  ELSE IF type = <<"apache", "Map">>
       THEN {[tc EXCEPT !.cls = "Map", !.name = None, !.ns = None, !.nillable = FALSE]}
  ELSE {}

\* The Any for the elements inside: made from kwargs, without a name.
Inner(tc) == [tc EXCEPT !.name = None, !.ns = None, !.min = 0]

\* The whats of a ComplexType that take its j-th child, in order.  Among
\* unordered ones the first of the same name; else each that matches, to the
\* first that may occur once only.
Takers(tc, kid) ==
  LET exact   == { i \in DOMAIN tc.of : <<tc.of[i].ns, tc.of[i].name>> = kid.qn }
      matches == { i \in DOMAIN tc.of : NameMatch(tc.of[i], kid) }
      takes(i) == i \in matches /\ \A k \in matches : k < i => tc.of[k].max > 1
  IN IF ~tc.inorder /\ exact # {} THEN <<Min(exact)>>
     ELSE SelectSeq([i \in DOMAIN tc.of |-> i], takes)

\* With inorder, the j-th what must not be reached in vain by the j-th child.
OutOfOrder(tc, kid, j) ==
  /\ tc.inorder /\ j \in DOMAIN tc.of /\ ~NameMatch(tc.of[j], kid)
  /\ \A i \in 1..j-1 : NameMatch(tc.of[i], kid) => tc.of[i].max > 1

\* setattr, or append for a field that may occur again.
Put(fields, what, v) ==
  LET old == IF what.name \in DOMAIN fields THEN fields[what.name] ELSE Nil
  IN (what.name :> (IF what.max = 1 THEN v
                    ELSE <<"list", IF old = Nil THEN <<v>> ELSE Append(old[2], v)>>)) @@ fields

\* A child that no what takes is passed over, unless the last what is still
\* missing then.
Missing(tc, fields) ==
  tc.of # <<>> /\ Last(tc.of).min > 0 /\ Last(tc.of).name \notin DOMAIN fields

\* parse_offset and parse_position
Position(e, a) ==
  IF Get(e, a) = None THEN Ok(0)
  ELSE IF Get(e, a)[1] = "int" THEN Ok(Get(e, a)[2]) ELSE Raise("EvaluateException")

\* What an Array has after the item for position p.
PutItem(tc, items, offset, p, v) ==
  IF tc.sparse THEN Append(items, <<"pair", <<p, v>>>>)
  ELSE items \o [i \in 1..(p - offset) |-> tc.fill] \o <<v>>

RECURSIVE Parse(_, _, _), ParseAll(_, _, _), ParseDict(_, _, _, _), ParseFields(_, _, _, _, _),
          ParseTakers(_, _, _, _, _), ParseItems(_, _, _, _, _), ParsePairs(_, _, _, _)

ParseAll(tc, es, st) ==
  IF es = <<>> THEN Give(<<>>, st)
  ELSE Then(Parse(tc, Head(es), st), LAMBDA v, st1 :
         Then(ParseAll(tc, Tail(es), st1), LAMBDA vs, st2 : Give(<<v>> \o vs, st2)))

\* listify: of two elements of one name the later stays.
ParseDict(tc, es, dict, st) ==
  IF es = <<>> THEN Give(<<"dict", dict>>, st)
  ELSE Then(Parse(tc, Head(es), st), LAMBDA v, st1 :
         ParseDict(tc, Tail(es), (Head(es).qn[2] :> v) @@ dict, st1))

\* With the typecode that is registered for a type.
ParseFound(found, e, st) ==
  IF found = {} THEN Fail("EvaluateException", st) ELSE Parse(CHOOSE f \in found : TRUE, e, st)

\* Any.parse once the element and its type are known.
ParseTyped(tc, e, type, st) ==
  LET type1 == IF type[2] = None /\ e.qn[1] \in ENC THEN e.qn ELSE type
      es    == Elements(e.kids)
  IN IF type1[2] # None /\ type1 \notin ENC \X {"Array"}
     THEN ParseFound(RegisteredFor(tc, type1), e, st)
     ELSE IF tc.aslist \/ Get(e, "arrayType") # None
     THEN Then(ParseAll(Inner(tc), es, st), LAMBDA vs, s : Give(<<"list", vs>>, s))
     ELSE IF es = <<>> THEN Then(SimpleText(e, st), LAMBDA t, s : Give(<<"str", t>>, s))
     ELSE IF IsNil(e) THEN Nilled(tc, st)
     ELSE ParseDict(Inner(tc), es, <<>>, st)

ParseAny(tc, e, st) ==
  LET href == Get(e, "href")
      found(type) == IF XsdOrSoap(type[1]) THEN Registered(tc, <<"xsd", type[2]>>) ELSE {}
      empty(type) == IF type \in ENC \X {"Array"} \/ Get(e, "arrayType") = 0
                     THEN <<"list", <<>>>> ELSE Nil
  IN Then(NameChecked(tc, e, st), LAMBDA type, s :
       IF type[2] = None /\ IsNil(e) THEN Nilled(tc, s)
       ELSE IF ~Bare(e) THEN ParseTyped(tc, e, type, s)
       ELSE IF href # None
       THEN Then(FindLocalHREF(href, TRUE, s), LAMBDA x, s1 :
              Then(TypeChecked(tc, x, s1), LAMBDA type1, s2 : ParseTyped(tc, x, type1, s2)))
       ELSE IF tc.min > 0 THEN Fail("EvaluateException", s)
       ELSE IF found(type) = {} THEN Give(empty(type), s)
       ELSE ParseFound(found(type), e, s))

\* One child goes to each of the whats in turn.
ParseTakers(tc, kid, takers, fields, st) ==
  IF takers = <<>> THEN Give(fields, st)
  ELSE Then(Parse(tc.of[Head(takers)], kid, st), LAMBDA v, st1 :
         ParseTakers(tc, kid, Tail(takers), Put(fields, tc.of[Head(takers)], v), st1))

ParseFields(tc, kids, j, fields, st) ==
  LET late(i) == OutOfOrder(tc, kids[j], j) /\ i > j
      takers  == SelectSeq(Takers(tc, kids[j]), LAMBDA i : ~late(i))
  IN IF j > Len(kids) THEN Give(fields, st)
     ELSE Then(ParseTakers(tc, kids[j], takers, fields, st), LAMBDA fields1, st1 :
            IF \/ OutOfOrder(tc, kids[j], j)
               \/ takers = <<>> /\ Missing(tc, fields1)
            THEN Fail("EvaluateException", st1)
            ELSE ParseFields(tc, kids, j + 1, fields1, st1))

\* ComplexType.parse
ParseStruct(tc, e, st) ==
  LET href  == Get(e, "href")
      mixed(x) == IF tc.mixed THEN "_text" :> <<"str", TextOf(x)>> ELSE <<>>
      content(x, s) ==
        IF IsNil(x) THEN Nilled(tc, s)
        ELSE Then(Attributes(tc, x, s), LAMBDA atts, s1 :
          IF tc.mixed /\ ~ValidEncoding(x) THEN Fail("EvaluateException", s1)
          ELSE Then(ParseFields(tc, Elements(x.kids), 1,
                                mixed(x) @@ (IF atts = <<>> THEN <<>> ELSE "_attrs" :> <<"attrs", atts>>), s1),
                    LAMBDA fields, s2 : Give(<<tc.holder, fields>>, s2)))
  IN Then(NameChecked(tc, e, st), LAMBDA is, s :
       IF is \notin {tc.type, <<None, None>>} \/ (href # None /\ ~Bare(e))
       THEN Fail("EvaluateException", s)
       ELSE Then(IF href = None THEN Give(e, s) ELSE FindLocalHREF(href, TRUE, s), content))

ParseItems(tc, es, items, offset, st) ==
  IF es = <<>> THEN Give(<<"list", items>>, st)
  ELSE Then(Parse(tc.item, Head(es), st), LAMBDA v, st1 :
         LET at == Position(Head(es), "position")
             p  == IF at[2] = 0 THEN offset ELSE at[2]
             next == IF ~tc.sparse /\ p > offset THEN p ELSE offset
         IN IF ~IsOk(at) THEN Fail("EvaluateException", st1)
            ELSE ParseItems(tc, Tail(es), PutItem(tc, items, offset, p, v), next + 1, st1))

\* Array.parse
ParseArray(tc, e, st) ==
  LET href == Get(e, "href")
      content(x, s) ==
        LET offset == Position(x, "offset")
        IN IF IsNil(x) THEN Nilled(tc, s)
           ELSE IF (~tc.undeclared /\ Get(x, "arrayType") = None) \/ ~IsOk(offset)
                THEN Fail("EvaluateException", s)
           ELSE ParseItems(tc, Elements(x.kids),
                           IF tc.sparse THEN <<>> ELSE [i \in 1..offset[2] |-> tc.fill],
                           offset[2], s)
  IN IF href # None /\ ~Bare(e) THEN Fail("EvaluateException", st)
     ELSE Then(IF href = None THEN Give(e, st) ELSE FindLocalHREF(href, TRUE, st), content)

\* _Map.parse: a Struct of a key and a value for each element.
PairOf(tc) ==
  LET any(name) == [Inner(tc) EXCEPT !.cls = "Any", !.name = name, !.aslist = FALSE]
  IN [tc EXCEPT !.cls = "Struct", !.name = None, !.ns = None, !.type = <<None, None>>,
                !.holder = "dict", !.of = <<any("key"), any("value")>>]
ParsePairs(tc, es, map, st) ==
  IF es = <<>> THEN Give(<<"map", map>>, st)
  ELSE Then(Parse(PairOf(tc), Head(es), st), LAMBDA d, st1 :
         IF {"key", "value"} \subseteq DOMAIN d[2]
         THEN ParsePairs(tc, Tail(es), (d[2].key :> d[2].value) @@ map, st1)
         ELSE Fail("KeyError", st1))
ParseMap(tc, e, st) ==
  IF ~IsOk(CheckName(tc, e)) THEN Fail("EvaluateException", st)
  ELSE IF IsNil(e) THEN Nilled(tc, st)
  ELSE ParsePairs(tc, Elements(e.kids), <<>>, st)

Parse(tc, e, st) ==
  CASE tc.cls = "Any"    -> ParseAny(tc, e, st)
    [] tc.cls = "Struct" -> ParseStruct(tc, e, st)
    [] tc.cls = "Array"  -> ParseArray(tc, e, st)
    [] tc.cls = "Map"    -> ParseMap(tc, e, st)
    [] tc.cls = "XML"    -> ParseXML(tc, e, st)
    [] tc.cls = "Union"  -> ParseUnion(tc, e, st)
    [] OTHER -> ParseAtomic(tc, e, st)

-------------------------------------------------------------------------------
(* ParseHeaderElements.                                                      *)

RECURSIVE ParseHeaders(_, _)
ParseHeaders(tcs, st) ==
  IF tcs = <<>> THEN Give(<<>>, st)
  ELSE LET tc == Head(tcs)
           mine == SelectSeq(st.ps.headers, LAMBDA e : e.qn = <<tc.ns, tc.name>>)
       IN Then(ParseAll(tc, mine, st), LAMBDA vs, st1 :
            IF Len(vs) \notin tc.min..tc.max THEN Fail("EvaluateException", st1)
            ELSE Then(ParseHeaders(Tail(tcs), st1), LAMBDA more, st2 :
                   Give((tc.name :> (IF tc.max > 1 THEN <<"list", vs>>
                                     ELSE IF vs = <<>> THEN Nil ELSE vs[1])) @@ more, st2)))
================================================================================
