------------------------------- MODULE MCRegistry -------------------------------
(* Two generated modules that share a namespace, and the documents that a    *)
(* program reads with them.                                                  *)
EXTENDS Registry

Field(form, tag, type) == [form |-> form, tag |-> tag, type |-> type, min |-> 0, max |-> 1, contents |-> "strict"]
Leaf(tag) == [Field("leaf", <<None, tag>>, None) EXCEPT !.min = 1]
Local(tag, type) == Field("local", <<None, tag>>, type)
Ref(name) == Field("ref", name, name)
Wild(contents) == [Field("any", None, None) EXCEPT !.contents = contents]
AnyTyped(tag) == Field("anyType", <<None, tag>>, None)
Many(field) == [field EXCEPT !.max = 1000]
Maybe(field) == [field EXCEPT !.min = 0]

A(local) == <<"a", local>>
B(local) == <<"b", local>>
Type(name, base, fields) ==
  [is |-> "type", name |-> name, base |-> base, restricts |-> FALSE, fields |-> fields, head |-> None]
Elem(name, base, head) ==
  [is |-> "element", name |-> name, base |-> base, restricts |-> FALSE, fields |-> <<>>, head |-> head]
Outer(name, fields) == [Elem(name, None, None) EXCEPT !.fields = fields]

First == <<
  Type(A("Base"), None, <<Leaf("x")>>),
  Type(A("Derived"), A("Base"), <<Maybe(Leaf("y")), Local("more", A("Base"))>>),
  [Type(A("Less"), A("Derived"), <<Leaf("x")>>) EXCEPT !.restricts = TRUE],
  [Type(A("Few"), A("Base"), <<Maybe(Leaf("x"))>>) EXCEPT !.restricts = TRUE],
  Type(A("Other"), None, <<Leaf("x")>>),
  Type(A("Tree"), None, <<Maybe(Leaf("x")), Many(Local("sub", A("Tree")))>>),
  Elem(A("head"), A("Base"), None), Elem(A("member"), A("Derived"), A("head")),
  Elem(A("lone"), A("Other"), None), Elem(A("solo"), A("Other"), A("lone")), Elem(A("tree"), A("Tree"), None),
  Outer(A("locals"), <<Many(Local("item", A("Base"))), Local("one", A("Base"))>>),
  Outer(A("refs"), <<Many(Ref(A("head"))), Ref(A("lone"))>>),
  Outer(A("wild"), <<Maybe(Leaf("x")), Many(Wild("strict"))>>),
  Outer(A("skips"), <<Wild("skip")>>),
  Outer(A("both"), <<Many(Ref(A("head"))), Many(Wild("strict"))>>),
  Outer(A("typed"), <<AnyTyped("t")>>) >>
Second == <<
  Type(A("Base"), None, <<Leaf("z")>>),
  Type(A("New"), A("Base"), <<Leaf("x")>>),
  Type(B("Derived"), A("Base"), <<Maybe(Leaf("w"))>>),
  Elem(A("head"), A("Base"), None), Elem(B("member"), B("Derived"), A("head")),
  Outer(A("locals"), <<Many(Local("item", B("Derived")))>>),
  Outer(A("wild"), <<Many(Wild("lax"))>>) >>
MCFiles == [first |-> First, second |-> Second]

-------------------------------------------------------------------------------
E(name, kids) == Element(<<None, name>>, None, kids, None)
T(name, text) == Element(<<None, name>>, None, <<>>, text)
Q(qn, kids) == Element(qn, None, kids, None)
Typed(e, prefix, name) == [e EXCEPT !.type = <<prefix, name>>]
\* The prefix p is the namespace a, or in some documents b.
Doc(e) == [root |-> e, ns |-> [p |-> "a", q |-> "b", s |-> "xsd"]]
DocB(e) == [root |-> e, ns |-> [p |-> "b", s |-> "xsd"]]

X == T("x", "1")
XY == <<X, T("y", "2")>>
Z == T("z", "3")
WildKids == {
  Q(A("head"), <<X>>), Q(A("member"), XY), Typed(Q(A("head"), XY), "p", "Derived"),
  Typed(E("foo", XY), "p", "Derived"), Typed(E("foo", <<X>>), "p", "Nope"),
  Typed(T("foo", "1"), "s", "string"), T("foo", "1"), E("foo", <<X, E("k", <<X>>)>>), E("foo", <<>>),
  Typed(E("foo", <<X>>), "r", "Base"), Typed(E("foo", <<X>>), None, "Base") }
MCDocuments ==
  { Doc(Q(A("wild"), <<k>>)) : k \in WildKids }
    \cup { Doc(Q(A("locals"), <<Typed(E("item", kids), "p", name), E("item", <<X>>)>>)) :
             kids \in {XY, <<Z>>}, name \in {"Base", "Derived", "Less", "Few", "Other", "Nope", "New"} }
    \cup
  { Doc(Q(A("locals"), <<E("item", <<X>>), E("one", <<X>>), Typed(E("item", XY), "p", "Derived")>>)),
    Doc(Q(A("locals"), <<Typed(E("item", <<Z, T("w", "4")>>), "q", "Derived")>>)),
    Doc(Q(A("locals"), <<Typed(E("item", <<X>>), "r", "Base")>>)),
    Doc(Q(A("refs"), <<Q(A("head"), <<X>>), Q(A("lone"), <<X>>), Q(A("member"), XY \o <<E("more", <<X>>)>>), Q(A("wild"), <<>>)>>)),
    Doc(Q(A("refs"), <<Q(A("solo"), <<X>>), Q(A("member"), <<X>>)>>)),
    Doc(Q(A("wild"), <<Typed(E("foo", XY), "p", "Derived"), Typed(E("bar", XY), "p", "Base"), Typed(E("foo", <<Z>>), "q", "Derived")>>)),
    Doc(Q(A("refs"), <<Typed(Q(A("head"), XY), "p", "Derived")>>)), Doc(Q(A("refs"), <<Q(B("member"), <<X, Z>>)>>)),
    Doc(Q(A("refs"), <<Q(A("tree"), <<>>), Typed(Q(A("head"), <<X>>), "p", "Base")>>)),
    Doc(Q(A("both"), <<Q(A("head"), <<X>>), Q(A("lone"), <<X>>)>>)), Doc(Q(A("both"), <<Q(A("member"), XY)>>)),
    Doc(Q(A("wild"), <<X, Q(A("lone"), <<X>>), Q(A("member"), XY)>>)), Doc(Q(A("skips"), <<Q(A("head"), <<X>>)>>)),
    Doc(Q(A("typed"), <<Typed(E("t", XY), "p", "Derived")>>)), Doc(Q(A("typed"), <<Typed(T("t", "1"), "s", "string")>>)),
    Doc(Q(A("typed"), <<Typed(E("t", <<X>>), "p", "Nope")>>)), Doc(Q(A("typed"), <<E("t", <<X>>)>>)),
    Doc(Q(A("tree"), <<X, E("sub", <<E("sub", <<X>>)>>), E("sub", <<>>)>>)), Doc(Typed(Q(A("head"), XY), "p", "Derived")),
    Doc(Q(A("head"), <<>>)), Doc(Q(A("head"), <<T("u", "1")>>)), Doc(Q(A("member"), <<T("u", "1"), X>>)), Doc(Q(A("head"), <<E("x", <<X>>)>>)),
    DocB(Q(A("wild"), <<Typed(E("foo", <<Z, T("w", "4")>>), "p", "Derived")>>)) }

\* Two messages in which the prefix p is of another namespace.
PrefixDocuments ==
  { Doc(Q(A("wild"), <<Typed(E("foo", XY), "p", "Derived")>>)), DocB(Q(A("wild"), <<Typed(E("foo", XY), "p", "Derived")>>)) }
================================================================================
