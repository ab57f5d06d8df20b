---------------------------- MODULE MCMessageReader ----------------------------
(* Instances of MessageReader: typecodes of every class, with values that they *)
(* keep and values that they do not.                                           *)
EXTENDS MessageReader

Whole(n) == <<"int", n>>
Str(w) == <<"str", IF w = "" THEN None ELSE <<"word", w>>>>
Truth(b) == <<"bool", b>>
Float(f) == <<"float", f>>
Time(y, mo, d, h, m) == [Y |-> y, M |-> mo, D |-> d, h |-> h, m |-> m, s |-> 5, ms |-> 0]

Simple(cls, name) == Typecode(cls, name)
Integer(type, name) == [Typecode("Integer", name) EXCEPT !.type = <<"xsd", type>>]
Iint(name) == Integer("int", name)
FPfloat(name) == [Typecode("Decimal", name) EXCEPT !.type = <<"xsd", "float">>]
Anything(name) == Typecode("Any", name)
Nillable(tc) == [tc EXCEPT !.nillable = TRUE]
Optional(tc) == [tc EXCEPT !.min = 0]
Many(tc) == [tc EXCEPT !.min = 0, !.max = Unbounded]
Struct(of) == [Typecode("Struct", "r") EXCEPT !.of = of]
Object(of) == [Struct(of) EXCEPT !.holder = "object"]
Array(item) == [Typecode("Array", "r") EXCEPT !.item = item]
List(item) == [Typecode("List", "r") EXCEPT !.item = item]
Union(id, members) == [Typecode("Union", "r") EXCEPT !.id = id, !.members = members]

IntOrDate == Union("intOrDate", <<Iint("r"), Simple("date", "r")>>)
StringUriLong == Union("stringUriLong", <<Integer("long", "r"), Simple("String", "r"), Simple("URI", "r")>>)
FloatOrDate == Union("floatBoolDate", <<FPfloat("r"), Simple("Boolean", "r"), Simple("date", "r")>>)
MCUnions == {IntOrDate, StringUriLong, FloatOrDate}

P(tc, v, hrefs) == [tc |-> tc, v |-> v, hrefs |-> hrefs]

Date == <<"time", [Y |-> 2001, M |-> 2, D |-> 3, h |-> 0, m |-> 0, s |-> 0, ms |-> 0]>>
SimplePairs ==
  { P(Simple("String", "r"), Str("a"), 1), P(Simple("String", "r"), Str(""), 1),
    P(Simple("String", "r"), <<"str", <<"pad", <<"word", "a">>>>>>, 0),
    P(Nillable(Simple("String", "r")), Nil, 1), P(Simple("Token", "r"), Str("a"), 0),
    P(Simple("URI", "r"), <<"str", <<"pad", <<"word", "a">>>>>>, 0), P(Simple("URI", "r"), Str("wide"), 1),
    P([Simple("Enumeration", "r") EXCEPT !.choices = {Str("a"), Str("b")}], Str("b"), 1),
    P([Simple("Enumeration", "r") EXCEPT !.choices = {Str("a")}], Str("b"), 0),
    P([Simple("IEnumeration", "r") EXCEPT !.choices = {Whole("1")}], Whole("1"), 1),
    P([FPfloat("r") EXCEPT !.cls = "FPEnumeration", !.choices = {Float("half")}], Float("half"), 1),
    P(Iint("r"), Whole("127"), 1), P(Integer("byte", "r"), Whole("128"), 1), P(Integer("byte", "r"), Whole("-128"), 1),
    P(Integer("unsignedLong", "r"), Whole("2^64-1"), 0), P(Nillable(Iint("r")), Nil, 0),
    P(Integer("integer", "r"), Whole("2^64"), 0),
    P(FPfloat("r"), Float("half"), 1), P(FPfloat("r"), Float("inf"), 0), P(FPfloat("r"), Float("huge"), 0),
    P(FPfloat("r"), Float("small"), 0), P(FPfloat("r"), Float("nan"), 0),
    P(Simple("Decimal", "r"), Float("huge"), 0), P(Nillable(FPfloat("r")), Nil, 0),
    P(Simple("Boolean", "r"), Truth(TRUE), 1), P(Simple("Boolean", "r"), Truth(FALSE), 0),
    P(Simple("QName", "r"), <<"qname", <<"tns", <<"word", "a">>>>>>, 1),
    P(Simple("Base64String", "r"), Str("a"), 1), P(Simple("Base64String", "r"), Str("wide"), 0),
    P(Simple("Base64Binary", "r"), <<"bytes", <<"utf8", <<"word", "wide">>>>>>, 0),
    P(Simple("HexBinaryString", "r"), Str("a"), 1),
    P(Simple("date", "r"), Date, 1), P(Simple("duration", "r"), Date, 0),
    P(Simple("dateTime", "r"), <<"time", Time(2001, 12, 31, 23, 30)>>, 1),
    P(List(Iint(None)), <<"list", <<Whole("1"), Whole("127")>>>>, 1),
    P(List(Iint(None)), <<"list", <<>>>>, 1), P(Nillable(List(Iint(None))), Nil, 0),
    P(List(Simple("String", None)), <<"list", <<Str("a"), Str("")>>>>, 0) }

UnionPairs ==
  { P(IntOrDate, v, 1) : v \in {Whole("1"), Date} } \cup {P(IntOrDate, Str("a"), 0)}
    \cup { P(StringUriLong, v, 0) : v \in {Whole("127"), Str("a")} }
    \cup { P(FloatOrDate, v, 0) : v \in {Truth(TRUE), Date, Float("half")} }

OneStruct(a, b) == Struct(<<a, b>>)
Dict(a, b) == <<"dict", [a |-> a, b |-> b]>>
CompoundPairs ==
  { P(Anything("r"), Whole("127"), 1), P(Anything("r"), Whole("2^31"), 0), P(Anything("r"), Str(""), 0), P(Anything("r"), Truth(TRUE), 1),
    P(Nillable(Anything("r")), Nil, 0), P(Anything("r"), Dict(Whole("1"), Whole("1")), 1),
    P(Anything("r"), Dict(<<"dict", [c |-> Str("a")]>>, Str("a")), 2), P(Anything("r"), Dict(Nil, Whole("1")), 0),
    P([Anything("r") EXCEPT !.aslist = TRUE], <<"list", <<Whole("1"), <<"list", <<Str("a")>>>>, Whole("1")>>>>, 2),
    P([Anything("r") EXCEPT !.aslist = TRUE], <<"list", <<>>>>, 1), P(Anything("r"), <<"list", <<Whole("1")>>>>, 0),
    P(OneStruct(Iint("a"), Simple("String", "b")), Dict(Whole("1"), Str("a")), 2),
    P([OneStruct(Iint("a"), Simple("String", "b")) EXCEPT !.inorder = TRUE], Dict(Whole("1"), Str("a")), 1),
    P(OneStruct(Iint("a"), Optional(Simple("String", "b"))), <<"dict", [a |-> Whole("1")]>>, 1),
    P(OneStruct(Iint("a"), Nillable(Simple("String", "b"))), Dict(Whole("1"), Nil), 1),
    P(OneStruct(Many(Iint("a")), Simple("Boolean", "b")),
      Dict(<<"list", <<Whole("1"), Whole("127"), Whole("1")>>>>, Truth(FALSE)), 1),
    P(Nillable(Struct(<<Iint("a")>>)), Nil, 0),
    P([Object(<<Iint("a")>>) EXCEPT !.attrs = [lang |-> Simple("String", None)], !.type = <<"tns", "T">>],
      <<"object", "a" :> Whole("1") @@ "_attrs" :> <<"attrs", [lang |-> Str("a")]>>>>, 1),
    P([Struct(<<Iint("a")>>) EXCEPT !.mixed = TRUE], <<"dict", "a" :> Whole("1") @@ "_text" :> Str("b")>>, 0),
    P([Object(<<Iint("a")>>) EXCEPT !.mixed = TRUE], <<"object", "a" :> Whole("1") @@ "_text" :> Str("b")>>, 1),
    P(Struct(<<[Struct(<<Anything("a")>>) EXCEPT !.name = "b"]>>),
      <<"dict", [b |-> <<"dict", [a |-> Dict(Str("a"), Str("a"))]>>]>>, 1),
    P(Array(Iint(None)), <<"list", <<Whole("1"), Whole("127")>>>>, 1), P(Array(Anything(None)), <<"list", <<>>>>, 1),
    P([Array(Nillable(Simple("String", None))) EXCEPT !.offset = TRUE],
      <<"list", <<Nil, Nil, Str("a"), Nil>>>>, 1),
    P([Array(Simple("String", "s")) EXCEPT !.sparse = TRUE],
      <<"list", <<<<"pair", <<0, Str("a")>>>>, <<"pair", <<3, Str("b")>>>>>>>>, 0),
    P([Array(Struct(<<Iint("a")>>)) EXCEPT !.undeclared = TRUE],
      <<"list", <<<<"dict", [a |-> Whole("1")]>>, <<"dict", [a |-> Whole("1")]>>>>>>, 2),
    P([Simple("Map", "r") EXCEPT !.ns = None], <<"map", Whole("1") :> Str("a") @@ Str("b") :> Whole("1")>>, 0),
    P(Simple("XML", "r"), <<"xml", <<Element(<<"doc", "x">>, <<>>, "doc", <<>>)>>>>, 1) }

MCPairs == SimplePairs \cup UnionPairs \cup CompoundPairs

-------------------------------------------------------------------------------
\* A Header with an element that the Body does not need.
MCHeaderElements == <<Element(<<"tns", "H">>, [id |-> "h", type |-> <<"xsd", "int">>], "tns", TextNode(<<"int", "1">>))>>
MCHeaders == <<[Iint("H") EXCEPT !.ns = "tns"], Optional([Simple("String", "G") EXCEPT !.ns = "tns"])>>
MCResolved == "cid:1" :> Str("b")

R(atts, kids) == Element(<<None, "r">>, atts, None, kids)
Kid(name, atts, kids) == Element(<<None, name>>, atts, None, kids)
PI == [kind |-> "pi"]
Comment == [kind |-> "comment"]
Env(kids) == Envelopes(Element(<<"ENV", "Envelope">>, <<>>, None, kids))
BodyOf(kids) == Element(<<"ENV", "Body">>, <<>>, None, kids)
HeaderOf(kids) == Element(<<"ENV", "Header">>, <<>>, None, kids)
D(doc, tc) == [doc |-> doc, tc |-> tc, envelope |-> TRUE]
Href(id) == [href |-> <<"#", id>>]
One == TextNode(<<"int", "1">>)

Zone(neg, h, m) == [neg |-> neg, h |-> h, m |-> m]
Text(y, mo, d, h, m, tz) ==
  [kind |-> "dateTime", neg |-> FALSE, T |-> FALSE, Y |-> y, M |-> mo, D |-> d, h |-> h, m |-> m, s |-> 5,
   ms |-> None, tz |-> tz]
TimeTexts ==
  { Text(2001, 1, 1, 0, 30, tz) : tz \in {UTC, None, Zone(FALSE, 5, 30), Zone(TRUE, 5, 30), Zone(TRUE, 0, 30)} }
    \cup { Text(2001, 7, 1, 12, 0, tz) : tz \in {UTC, Zone(TRUE, 12, 0), Zone(FALSE, 14, 0)} }
    \cup { Text(2000, 2, 29, 23, 59, Zone(TRUE, 1, 15)), Text(1900, 2, 28, 23, 0, UTC), Text(2001, 2, 29, 0, 0, UTC),
           Text(2001, 3, 25, 1, 30, UTC), Text(1, 1, 1, 0, 0, UTC), Text(9999, 12, 31, 0, 0, UTC) }

UnionDocuments ==
  { D(Env(<<BodyOf(<<R(<<>>, TextNode(t))>>)>>), u) :
      u \in MCUnions, t \in {<<"int", "1">>, <<"int", "127">>, <<"word", "a">>, <<"pad", <<"word", "true">>>>,
                            <<"real", "half">>, <<"time", [Text(2001, 2, 3, None, None, None) EXCEPT !.kind = "date", !.s = None]>>} }
MCDocuments ==
  UnionDocuments \cup
  { D(Env(<<BodyOf(<<R(<<>>, TextNode(<<"time", t>>))>>)>>), Simple("dateTime", "r")) : t \in TimeTexts }
  \cup
  { D(Env(<<BodyOf(<<>>)>>), Iint("r")),
    D(Env(<<>>), Iint("r")), D(Env(<<HeaderOf(<<>>)>>), Iint("r")), D(Env(<<BodyOf(<<PI>>)>>), Iint("r")),
    D(Env(<<BodyOf(<<R(<<>>, One)>>), BodyOf(<<>>)>>), Iint("r")),
    D(Env(<<BodyOf(<<R([root |-> "1"], One), R([root |-> "1"], One)>>)>>), Iint("r")),
    D(Env(<<BodyOf(<<R([root |-> "2"], One)>>)>>), Iint("r")),
    D(Env(<<BodyOf(<<R([root |-> "0"], One)>>)>>), Iint("r")),
    D(Env(<<BodyOf(<<R([enc |-> {"other"}], One)>>)>>), Iint("r")),
    D(Env(<<BodyOf(<<R(<<>>, <<Comment>> \o One)>>)>>), Iint("r")),
    D(Env(<<HeaderOf(<<Kid("H", <<>>, <<>>)>>), BodyOf(<<>>)>>), Iint("r")),
    [doc |-> Env(<<>>), tc |-> Iint("r"), envelope |-> FALSE],
    [doc |-> Envelopes(R(Href("1"), <<>>)), tc |-> Simple("String", "r"), envelope |-> FALSE],
    \* An id in the Header that only a search with the Header finds.
    D(Env(<<HeaderOf(MCHeaderElements), BodyOf(<<R(Href("h"), <<>>)>>)>>), Iint("r")),
    D(Env(<<HeaderOf(MCHeaderElements), BodyOf(<<>>)>>), Iint("r")),
    \* An id that is there twice.
    D(Env(<<BodyOf(<<R(Href("1"), <<>>), Kid("x", [id |-> "1"], One),
                     Kid("y", [id |-> "1"], TextNode(<<"int", "127">>))>>)>>), Iint("r")),
    D(Env(<<HeaderOf(<<Element(<<"tns", "H">>, [id |-> "1"], "tns", One)>>),
            BodyOf(<<R(Href("1"), <<>>), Kid("x", [id |-> "1"], TextNode(<<"int", "127">>))>>)>>), Iint("r")),
    D(Env(<<BodyOf(<<R([href |-> <<"uri", "cid:1">>], <<>>)>>)>>), Simple("String", "r")),
    D(Env(<<BodyOf(<<R([href |-> <<"uri", "cid:2">>], <<>>)>>)>>), List(Iint(None))),
    D(Env(<<BodyOf(<<R(Href("9"), <<>>)>>)>>), Simple("Boolean", "r")),
    D(Env(<<BodyOf(<<R([type |-> <<"tns", "T">>], One)>>)>>), Iint("r")),
    D(Env(<<BodyOf(<<R([type |-> <<"xsd", "string">>], One)>>)>>), Iint("r")),
    D(Env(<<BodyOf(<<R([nil |-> "1"], <<>>)>>)>>), Iint("r")),
    D(Env(<<BodyOf(<<Element(<<"ENC", "int">>, <<>>, None, One)>>)>>), Anything("r")),
    D(Env(<<BodyOf(<<Element(<<"ENC", "string">>, <<>>, None, <<>>)>>)>>), Anything("r")),
    D(Env(<<BodyOf(<<R([type |-> <<"ENC", "Array">>, arrayType |-> 2, offset |-> <<"int", 1>>],
                       <<Kid("i", [position |-> <<"int", 3>>], One), Kid("i", <<>>, One)>>)>>)>>), Array(Iint(None))),
    D(Env(<<BodyOf(<<R([arrayType |-> 2, offset |-> <<"bad", "x">>], <<>>)>>)>>), Array(Iint(None))),
    D(Env(<<BodyOf(<<R(<<>>, <<Kid("b", <<>>, One), Kid("z", <<>>, <<>>), Kid("a", <<>>, One)>>)>>)>>),
      Struct(<<Iint("a"), Iint("b")>>)),
    D(Env(<<BodyOf(<<R(<<>>, <<Kid("b", <<>>, One), Kid("a", <<>>, One)>>)>>)>>),
      [Struct(<<Iint("a"), Iint("b")>>) EXCEPT !.inorder = TRUE]),
    D(Env(<<BodyOf(<<R([lang |-> <<"word", "a">>], One)>>)>>),
      [Iint("r") EXCEPT !.cls = "String", !.attrs = [lang |-> Simple("String", None)]]),
    D(Env(<<BodyOf(<<R(<<>>, <<Kid("item", <<>>, <<Kid("key", <<>>, One)>>)>>)>>)>>), Simple("Map", "r")) }
================================================================================
