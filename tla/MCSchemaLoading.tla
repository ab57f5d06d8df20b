--------------------------- MODULE MCSchemaLoading ---------------------------
(* Instance of SchemaLoading for TLC: three documents that import and include  *)
(* one another in all ways, and a WSDL with two schemas of its own.            *)
EXTENDS SchemaLoading, TLC

CONSTANTS A, B, C, W, x, y, docA, docB, docC, docP, docQ

MCNs == {A, B, C, W}
MCNames == {x, y}
MCLocs == {docA, docB, docC, docP, docQ}
MCCalls == {<<docA, {}>>, <<docB, {}>>, <<docA, {docB}>>}

E(name) == [do |-> "element", name |-> name]
I(ns, at) == [do |-> "import", ns |-> ns, at |-> at]
U(at) == [do |-> "include", at |-> at]
M == [do |-> "malformed"]
Doc(tns, stmts) == [tns |-> tns, stmts |-> stmts]

\* docA is where a program starts; docB and docC go back, across, on, or are bad.
DocsA == {Doc(A, s) : s \in {<<E(x), I(B, docB), I(C, docC)>>, <<U(docC), U(docB), E(x)>>, <<U(docB), U(docC), U(docB)>>,
                              <<I(B, NoLoc), E(x)>>}}
DocsB == {Doc(B, s) : s \in {<<E(x), I(C, docC), E(y)>>, <<I(A, docA), E(x)>>, <<I(C, NoLoc), I(C, docC)>>, <<M>>,
                              <<I(NoNs, docC)>>, <<U(docC), E(x)>>}}
         \cup {Doc(A, <<U(docC), E(x)>>), Doc(NoNs, <<E(x), I(C, docC)>>)}
DocsC == {Doc(C, s) : s \in {<<E(y)>>, <<I(A, docA), M>>, <<I(B, docB), E(y)>>}}
         \cup {Doc(NoNs, s) : s \in {<<E(x), E(y)>>, <<U(docB)>>}}
         \cup {Doc(A, s) : s \in {<<U(docA)>>, <<U(docB), I(B, docB)>>}}

\* docP and docQ are in <types>; docQ has the namespace of docC.
P == Doc(W, <<I(C, NoLoc), I(B, docB), E(x)>>)
Q == Doc(C, <<I(W, NoLoc), E(x)>>)

Rest == (docP :> P) @@ (docQ :> Q)
Three == {(docA :> a) @@ (docB :> b) @@ (docC :> c) @@ Rest : a \in DocsA, b \in DocsB, c \in DocsC}
Two == {(docA :> a) @@ (docB :> b) @@ Rest : a \in DocsA, b \in DocsB}

MCRepositories ==
  {[docs |-> d, files |-> f, types |-> t] :
     d \in Three \cup Two, f \in {{}, {docB}}, t \in {<<docP, docQ>>, <<docQ, docP>>}}
==============================================================================
