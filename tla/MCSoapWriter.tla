----------------------------- MODULE MCSoapWriter -----------------------------
(* Instance of SoapWriter for TLC: messages of three objects, of all typecodes *)
(* and a few shapes: shared parts, a cycle, None, and headers.                 *)
EXTENDS SoapWriter, TLC

CONSTANTS top, mid, leaf

MCObjects == {top, mid, leaf}

\* What the constructors make of their arguments, one typecode of each effect.
Of(kind, unique, mutable, inline) ==
  [kind |-> kind, unique |-> unique, mutable |-> mutable, inline |-> inline]
Shareables == {Of("simple", u, FALSE, FALSE) : u \in BOOLEAN}
Containers ==
  {Of("struct", TRUE, TRUE, TRUE), Of("struct", FALSE, FALSE, TRUE), Of("any", FALSE, FALSE, FALSE)}
    \cup {Of("struct", u, FALSE, FALSE) : u \in BOOLEAN}
    \cup {Of("array", u, m, FALSE) : u, m \in BOOLEAN}

Shape(t, m, l) == (top :> t) @@ (mid :> m) @@ (leaf :> l)
Typecodes == [MCObjects -> Containers \cup Shareables]

\* Parts: mid twice, leaf at two depths; or a cycle of top and mid.
Tree  == Shape(<<mid, leaf, mid>>, <<leaf, leaf>>, <<>>)
Cycle == Shape(<<mid, leaf>>, <<top>>, <<>>)

\* A cycle has to pass a type that is not inline, or Python's stack ends it.
Ends(tc) == \E o \in {top, mid} : tc[o].kind = "struct" /\ ~tc[o].mutable

Bodies ==
  {[typecode |-> tc, parts |-> Tree, none |-> {}, body |-> top, headers |-> <<>>, more |-> later] :
     tc \in {f \in Typecodes : f[top].kind # "simple" /\ f[mid].kind # "simple"},
     later \in {<<>>, <<mid>>}}
  \cup
  {[typecode |-> tc, parts |-> Cycle, none |-> {}, body |-> top, headers |-> headers, more |-> <<>>] :
     tc \in {f \in Typecodes : f[top].kind # "simple" /\ f[mid].kind # "simple" /\ Ends(f)},
     headers \in {<<>>, <<leaf, mid>>}}
  \cup
  {[typecode |-> tc, parts |-> Tree, none |-> {leaf}, body |-> top, headers |-> <<>>, more |-> <<>>] :
     tc \in {f \in Typecodes : f[top].kind # "simple" /\ f[mid].kind # "simple"}}

MCMessages == Bodies
==============================================================================
