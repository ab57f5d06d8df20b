-------------------------------- MODULE Writing --------------------------------
(*****************************************************************************)
(* The serialize methods of the typecodes (ZSI/TC.py, TCcompound.py,         *)
(* TCapache.py): the elements that a value is written as.  What is written   *)
(* by reference, because it occurs more than once, is SoapWriter's matter;   *)
(* here every value stands where it occurs.  A Union is no part of another   *)
(* typecode.                                                                 *)
(*                                                                           *)
(* A typecode is a record as in Reading.  A prefix is the name of its        *)
(* namespace; an element declares those the Envelope does not.               *)
(*****************************************************************************)
EXTENDS Reading

Standard == {"ENV", "ENC", "xsd", "xsi", "ZSI"}
Declared(prefix) == IF prefix \in Standard \cup {None} THEN <<>> ELSE prefix :> prefix

Element(qn, atts, prefix, kids) ==
  [kind |-> "element", qn |-> qn, atts |-> atts, ns |-> Declared(prefix), kids |-> kids]
TextNode(t) == IF t = None THEN <<>> ELSE <<[kind |-> "text", text |-> t]>>

\* get_name; name is the caller's, or None.
NameOf(tc, name) == IF name # None THEN name ELSE <<tc.ns, tc.name>>
NilElement(qn) == Element(qn, [nil |-> "1"], None, <<>>)

XsiType(tc) ==
  CASE tc.cls \in {"String", "Enumeration"} -> <<"xsd", "string">>
    [] tc.cls = "Token"           -> <<"xsd", "token">>
    [] tc.cls = "URI"             -> <<"xsd", "anyURI">>
    [] tc.cls = "QName"           -> <<"xsd", "QName">>
    [] tc.cls = "Base64String"    -> <<"ENC", "base64">>
    [] tc.cls = "Base64Binary"    -> <<"xsd", "base64Binary">>
    [] tc.cls = "HexBinaryString" -> <<"xsd", "hexBinary">>
    [] tc.cls = "Boolean"         -> <<"xsd", "boolean">>
    [] tc.cls \in TimeClasses     -> <<"xsd", tc.cls>>
    [] OTHER -> tc.type
TypeAttribute(tc) ==
  IF tc.typed /\ XsiType(tc)[2] # None THEN "type" :> XsiType(tc) ELSE <<>>

\* Union.get_formatted_content: the first member that raises no TypeError.
\* tc.members is the present order; the members that raise one are moved to
\* the front, except the first.
Able(ms, v, prefix) == { i \in DOMAIN ms : Formatted(ms[i], v, prefix) # Raise("TypeError") }
UnionContent(tc, v, prefix) ==
  LET able == Able(tc.members, v, prefix)
  IN IF able = {} THEN Raise("RuntimeError") ELSE Formatted(tc.members[Min(able)], v, prefix)
UnionOrder(ms, v) ==
  LET able == Able(ms, v, None)
      n    == IF able = {} THEN Len(ms) + 1 ELSE Min(able)
  IN IF n = 1 THEN ms ELSE Reverse(SubSeq(ms, 2, n - 1)) \o <<ms[1]>> \o SubSeq(ms, n, Len(ms))

\* A QName is written with the prefix that its element has for the namespace.
SerializeSimple(tc, v, name) ==
  LET qn     == NameOf(tc, name)
      prefix == IF v[1] = "qname" THEN v[2][1] ELSE None
      text   == IF v = Nil THEN Ok(None)
                ELSE IF tc.cls = "Union" THEN UnionContent(tc, v, prefix)
                ELSE Formatted(tc, v, prefix)
  IN IF tc.nillable /\ v = Nil THEN Ok(<<NilElement(qn)>>)
     ELSE IF ~IsOk(text) THEN text
     ELSE Ok(<<Element(qn, TypeAttribute(tc), prefix, TextNode(text[2]))>>)

\* The error path of the numeric enumerations names an unknown variable.
SerializeChoice(tc, v, name) ==
  IF v \in tc.choices THEN SerializeSimple(tc, v, name)
  ELSE Raise(IF tc.cls = "Enumeration" THEN "EvaluateException" ELSE "NameError")

SerializeList(tc, v, name) ==
  LET text == Formatted(tc, v, None)
  IN IF v[1] \notin {"none", "list"} THEN Raise("EvaluateException")
     ELSE IF v = Nil THEN IF tc.nillable THEN Ok(<<NilElement(NameOf(tc, name))>>) ELSE Raise("TypeError")
     ELSE IF ~IsOk(text) THEN text
     ELSE Ok(<<Element(NameOf(tc, name), <<>>, None, TextNode(text[2]))>>)

\* _get_integer_fallback_serializer, and serialmap for the other types.
Serializer(tc, v) ==
  LET type == CASE v[1] = "int"   -> IF InRange("int", v[2]) THEN "int" ELSE "integer"
                [] v[1] = "float" -> "float"
                [] v[1] = "bool"  -> "boolean"
                [] v[1] \in {"str", "bytes"} -> "string"
  IN CHOOSE r \in Registered(tc, <<"xsd", type>>) : TRUE

\* set_attributes: only an object has attributes.
AttributesOf(tc, v) ==
  LET has   == v[1] = "object" /\ "_attrs" \in DOMAIN v[2]
      names == DOMAIN v[2]["_attrs"][2]
  IN IF ~has THEN Ok(<<>>)
     ELSE IF \E a \in names : ~IsOk(Formatted(tc.attrs[a], v[2]["_attrs"][2][a], None))
          THEN Raise("TypeError")
     ELSE Ok([a \in names |-> Formatted(tc.attrs[a], v[2]["_attrs"][2][a], None)[2]])

\* Only an object has a mixed text, too; in a dict it is not looked for.
MixedText(tc, v) ==
  IF tc.mixed /\ v[1] = "object" /\ "_text" \in DOMAIN v[2] THEN TextNode(v[2]["_text"][2]) ELSE <<>>

\* The items before the first that is no fill.
Filled(tc, items) ==
  LET others == { i \in DOMAIN items : items[i] # tc.fill }
  IN IF tc.sparse \/ ~tc.offset THEN 0
     ELSE IF others = {} THEN Len(items) ELSE Min(others) - 1

\* A sparse Array writes the positions onto itself: the last one stays.
LastPosition(tc, items) ==
  LET jumps == { i \in DOMAIN items :
                   items[i][2][1] # (IF i = 1 THEN 0 ELSE items[i-1][2][1] + 1) }
  IN IF tc.sparse /\ jumps # {} THEN "position" :> <<"int", items[Max(jumps)][2][1]>> ELSE <<>>

RECURSIVE Serialize(_, _, _)

Parts(results) == LET all == AllOk(results) IN IF IsOk(all) THEN Ok(FlattenSeq(all[2])) ELSE all
Around(qn, atts, prefix, before, parts) ==
  IF IsOk(parts) THEN Ok(<<Element(qn, atts, prefix, before \o parts[2])>>) ELSE parts

\* Any.serialize.  A list that is not written as an array has parts with
\* invented names.
SerializeAny(tc, v, name) ==
  LET qn   == NameOf(tc, name)
      keys == SetToSeq(DOMAIN v[2])
      part == IF tc.aslist THEN "element" ELSE "E"
  IN CASE v = Nil -> Ok(<<NilElement(qn)>>)
       [] v[1] = "list" ->
            Around(qn, IF tc.aslist THEN [type |-> <<"ENC", "Array">>, arrayType |-> Len(v[2])] ELSE <<>>,
                   None, <<>>,
                   Parts([i \in DOMAIN v[2] |-> Serialize(Inner(tc), v[2][i], <<None, part>>)]))
       [] v[1] = "dict" ->
            Around(qn, <<>>, None, <<>>,
                   Parts([i \in DOMAIN keys |-> Serialize(tc, v[2][keys[i]], <<None, keys[i]>>)]))
       [] OTHER -> SerializeSimple(Serializer(tc, v), v, qn)

\* ComplexType.cb, for one of its whats.
SerializeField(what, fields) ==
  LET v == IF what.name \in DOMAIN fields THEN fields[what.name] ELSE Nil
  IN IF v = Nil /\ what.min = 0 THEN Ok(<<>>)
     ELSE IF what.max > 1 /\ v # Nil
     THEN IF v[1] # "list" \/ Len(v[2]) \notin what.min..what.max THEN Raise("EvaluateException")
          ELSE Parts([i \in DOMAIN v[2] |-> Serialize(what, v[2][i], None)])
     ELSE IF v # Nil \/ what.nillable THEN Serialize(what, v, None)
     ELSE Raise("EvaluateException")

SerializeStruct(tc, v, name) ==
  LET qn   == NameOf(tc, name)
      atts == AttributesOf(tc, v)
  IN IF v = Nil THEN IF tc.nillable THEN Ok(<<NilElement(qn)>>) ELSE Raise("EvaluateException")
     ELSE IF tc.holder = "dict" /\ v[1] # "dict" THEN Raise("TypeError")
     ELSE IF ~IsOk(atts) THEN atts
     ELSE Around(qn, atts[2] @@ TypeAttribute(tc), XsiType(tc)[1], MixedText(tc, v),
                 Parts([i \in DOMAIN tc.of |-> SerializeField(tc.of[i], v[2])]))

\* The arrayType has no size.
SerializeArray(tc, v, name) ==
  LET qn    == NameOf(tc, name)
      from  == Filled(tc, v[2])
      item(i) == IF tc.sparse THEN v[2][i][2][2] ELSE v[2][from + i]
      part  == IF tc.item.name = None THEN <<tc.item.ns, "element">> ELSE None
      atts  == (IF from > 0 THEN "offset" :> <<"int", from>> ELSE <<>>)
               @@ (IF tc.undeclared THEN <<>> ELSE "arrayType" :> -1)
               @@ LastPosition(tc, v[2]) @@ TypeAttribute(tc)
  IN IF v = Nil THEN IF tc.nillable THEN Ok(<<NilElement(qn)>>) ELSE Raise("TypeError")
     ELSE Around(qn, atts, None, <<>>,
                 Parts([i \in 1..(Len(v[2]) - from) |-> Serialize(tc.item, item(i), part)]))

\* _Map.serialize
SerializeMap(tc, v, name) ==
  LET qn   == NameOf(tc, name)
      keys == SetToSeq(DOMAIN v[2])
      pair(i) == <<"dict", [key |-> keys[i], value |-> v[2][keys[i]]]>>
  IN IF v = Nil /\ tc.nillable THEN Ok(<<NilElement(qn)>>)
     ELSE Around(qn, TypeAttribute(tc), None, <<>>,
                 Parts([i \in DOMAIN keys |-> Serialize(PairOf(tc), pair(i), <<None, "item">>)]))

\* XML.serialize and cb: one node, in an element of its own or not.
SerializeXML(tc, v, name) ==
  IF Len(v[2]) # 1 THEN Raise("AttributeError")
  ELSE IF tc.wrapped THEN Ok(<<Element(NameOf(tc, name), <<>>, None, v[2])>>)
  ELSE Ok(v[2])

Serialize(tc, v, name) ==
  CASE tc.cls = "Any"    -> SerializeAny(tc, v, name)
    [] tc.cls = "Struct" -> SerializeStruct(tc, v, name)
    [] tc.cls = "Array"  -> SerializeArray(tc, v, name)
    [] tc.cls = "Map"    -> SerializeMap(tc, v, name)
    [] tc.cls = "XML"    -> SerializeXML(tc, v, name)
    [] tc.cls = "List"   -> SerializeList(tc, v, name)
    [] tc.cls \in {"Enumeration", "IEnumeration", "FPEnumeration"} -> SerializeChoice(tc, v, name)
    [] OTHER -> SerializeSimple(tc, v, name)

\* SoapWriter.serialize with header_pyobjs: Envelope, Header and Body.
Message(headers, body) ==
  Element(<<"ENV", "Envelope">>, <<>>, None,
          << Element(<<"ENV", "Header">>, <<>>, None, headers),
             Element(<<"ENV", "Body">>, <<>>, None, body) >>)
Envelopes(doc) == [doc EXCEPT !.ns = [p \in Standard |-> p]]
================================================================================
