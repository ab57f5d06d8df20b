---------------------------- MODULE MCWSDLLoading ----------------------------
(* Repositories for WSDLLoading.  The document that is loaded, "main", has a   *)
(* binding and a service; it reaches "abstract", which has the messages and a  *)
(* port type, and "other".  Both declare the prefixes x and y, with the        *)
(* namespaces exchanged.                                                       *)
EXTENDS WSDLLoading, TLC

Ref(prefix, name) == [prefix |-> prefix, name |-> name]
ImportOf(ns, at) == [kind |-> "import", own |-> <<>>, ns |-> ns, at |-> at]
MessageOf(parts) == [kind |-> "message", own |-> <<>>, name |-> "m", parts |-> parts]
TwoParts == <<[name |-> "p", ref |-> Ref("x", "p")], [name |-> "q", ref |-> Ref("y", "p")]>>
OnePart(ref) == <<[name |-> "q", ref |-> ref]>>
PortTypeOf(own, input, output) == [kind |-> "portType", own |-> own, name |-> "t",
  operations |-> <<[name |-> "o", input |-> input, output |-> output]>>]
Plain == [mime |-> FALSE, headers |-> <<>>, body |-> [use |-> TRUE, parts |-> All]]
BindingOf(ref, soap, input, output) == [kind |-> "binding", own |-> <<>>, name |-> "b", ref |-> ref,
  soap |-> soap, operations |-> <<[name |-> "o", input |-> input, output |-> output]>>]
ServiceOf(binding, address) == [kind |-> "service", own |-> <<>>, name |-> "s",
  ports |-> <<[name |-> "p", binding |-> binding, address |-> address]>>]

Doc(tns, scope, items) == [tns |-> tns, scope |-> scope, items |-> items]
InMain == ("x" :> "urn:main") @@ ("y" :> "urn:abstract")
InAbstract == ("x" :> "urn:abstract") @@ ("y" :> "urn:main")
TheService == ServiceOf(Ref("x", "b"), "soap")
TheBinding == BindingOf(Ref("y", "t"), TRUE, Plain, Plain)
ThePortType == PortTypeOf(<<>>, Ref("x", "m"), Ref("y", "m"))

Three(main, abstract, other, tns) ==
  [root |-> "main", files |-> FALSE,
   docs |-> ("main" :> Doc("urn:main", InMain, main))
         @@ ("abstract" :> Doc("urn:abstract", InAbstract, abstract))
         @@ ("other" :> Doc(tns, InAbstract, other))]

\* Every arrangement of up to two imports of each document.
SomeImports == {ImportOf("urn:abstract", "abstract"), ImportOf("urn:main", "other"),
                ImportOf("urn:abstract", "other"), ImportOf("urn:main", "main"),
                ImportOf("urn:main", "abstract")}
BadImports == {ImportOf(None, "abstract"), ImportOf("urn:main", "missing")}
Arranged ==
  LET UpTo2(s) == {<<>>} \cup {<<i>> : i \in s} \cup {<<i, j>> : i, j \in s} IN
  {Three(a \o <<TheBinding, MessageOf(OnePart(Ref("x", "p"))), TheService>>,
         b \o <<MessageOf(TwoParts), ThePortType>>,
         c \o <<MessageOf(TwoParts)>>, "urn:main") :
     a \in UpTo2(SomeImports) \cup {<<i>> : i \in BadImports},
     b \in UpTo2(SomeImports), c \in {<<>>} \cup {<<i>> : i \in SomeImports}}

\* Imports without a location, of URLs and of files.
Unlocated ==
  LET some == {ImportOf("urn:abstract", "abstract"), ImportOf("urn:main", "main"), ImportOf("urn:main", None)} IN
  {[Three(<<i, j, TheBinding, TheService>>, b \o <<MessageOf(TwoParts), ThePortType>>, <<>>, "urn:main")
      EXCEPT !.files = f] :
     i \in some, j \in some, b \in {<<>>} \cup {<<ImportOf(ns, None)>> : ns \in {"urn:abstract", None}},
     f \in BOOLEAN}

\* Every way to write a reference, declared or not, in each place that has one.
SomeRefs == {Ref(p, "m") : p \in {"x", "y", "z", NoPrefix}}
Owns == {<<>>, "z" :> "urn:main", "x" :> "urn:main"}
Referring ==
  {Three(<<ImportOf("urn:abstract", "abstract"), BindingOf(t, TRUE, Plain, Plain), s>> \o m,
         <<MessageOf(OnePart(p)), PortTypeOf(own, i, o)>>, <<>>, "urn:main") :
     m \in {<<>>, <<MessageOf(TwoParts)>>},
     t \in {Ref(x, "t") : x \in {"y", "z", NoPrefix}} \cup {None},
     s \in {ServiceOf(r, "soap") : r \in {Ref(NoPrefix, "b"), Ref("y", "b"), None}},
     p \in {Ref("x", "p"), Ref("z", "p"), None},
     own \in Owns, i \in SomeRefs \cup {None}, o \in {Ref("y", "m"), Ref("x", "p"), None}}

\* Every combination of soap extensions.
Roles == {None, [Plain EXCEPT !.mime = TRUE], [Plain EXCEPT !.body = None]}
  \cup {[Plain EXCEPT !.body.parts = ps] : ps \in {All, <<>>, <<"q">>, <<"q", "p">>, <<"s">>}}
  \cup {[Plain EXCEPT !.headers = <<[message |-> Ref(x, "m"), part |-> n]>>] :
         x \in {"x", "y", "z"}, n \in {"p", "q"}}
  \cup {[Plain EXCEPT !.body.use = FALSE]}
Called ==
  {Three(<<ImportOf("urn:abstract", "abstract"), BindingOf(Ref("y", "t"), soap, i, o),
           ServiceOf(Ref("x", "b"), a)>> \o m,
         <<MessageOf(TwoParts), ThePortType>>, <<>>, "urn:main") :
     soap \in BOOLEAN, a \in {"soap", "http", None}, i \in Roles, o \in Roles,
     m \in {<<>>, <<MessageOf(OnePart(Ref("x", "p")))>>}}

\* A schema that is imported, and one that only stands among the definitions.
SchemaOf(ns) == [kind |-> "schema", own |-> <<>>, tns |-> ns]
Schemas ==
  {Three(a \o <<SchemaOf(ns), [kind |-> "types", own |-> <<>>]>>, <<SchemaOf(other)>>, <<>>,
         "urn:main") :
     a \in {<<>>, <<ImportOf("urn:abstract", "abstract")>>},
     ns \in {"urn:main", "urn:abstract"}, other \in {"urn:main", "urn:abstract"}}

McRepositories == {Arranged, Unlocated, Referring, Called, Schemas}
==============================================================================
