------------------------------- MODULE Envelope -------------------------------
(*****************************************************************************)
(* ParsedSoap (ZSI/parse.py): what it makes of a document, and how it finds  *)
(* the element that an href refers to.                                       *)
(*                                                                           *)
(* A node has a kind, "element", "text", "comment" or "pi".  An element has  *)
(* its name qn, a pair of namespace and local name, its attributes, a        *)
(* function atts, the prefixes ns that it declares and its nodes kids.       *)
(* A namespace stands for its URI; None is none.  An href is <<"#", id>> or  *)
(* <<"uri", u>>, a type a pair of prefix and name, enc the set of encoding   *)
(* styles.  The reader of the XML sees to it that there is one root element. *)
(*****************************************************************************)
EXTENDS SimpleTypes

ENV == {"ENV", "ENV12"}
ENC == {"ENC", "ENC12"}

Get(e, a) == IF a \in DOMAIN e.atts THEN e.atts[a] ELSE None
IsElement(n) == n.kind = "element"
Elements(nodes) == SelectSeq(nodes, IsElement)
Texts(e) == SelectSeq(e.kids, LAMBDA n : n.kind = "text")
Bare(e) == e.kids = <<>>                                   \* no _children

ValidEncoding(e) ==
  LET enc == Get(e, "enc") IN enc = None \/ enc \cap ENC # {}

-------------------------------------------------------------------------------
(* ParsedSoap.__init__.  The state st that a call leaves is the message ps,  *)
(* the elements found so far cache (id_cache) and the members that unions    *)
(* try, in order.                                                            *)

\* GetElementNSdict of every element: the prefixes it inherits and declares.
RECURSIVE Scoped(_, _)
Scoped(n, above) ==
  IF ~IsElement(n) THEN n
  ELSE LET here == n.ns @@ above
       IN [n EXCEPT !.ns = here, !.kids = [i \in DOMAIN @ |-> Scoped(@[i], here)]]

\* _check_for_legal_children
IllegalChild(e, mustqualify) ==
  \E i \in DOMAIN e.kids :
    LET n == e.kids[i]
    IN \/ n.kind = "pi"
       \/ n.kind = "text" /\ Strip(n.text) # None
       \/ IsElement(n) /\ mustqualify /\ n.qn[1] = None

RECURSIVE HasPI(_)
HasPI(nodes) == \E i \in DOMAIN nodes :
                  nodes[i].kind = "pi" \/ (IsElement(nodes[i]) /\ HasPI(nodes[i].kids))

UnqualifiedAttributes == {"href", "lang"}
IsNamed(e, name) == e.qn[2] = name /\ e.qn[1] \in ENV

BadEnvelope(e) ==
  \/ ~IsNamed(e, "Envelope") \/ IllegalChild(e, TRUE)
  \/ DOMAIN e.atts \cap UnqualifiedAttributes # {}
  \/ ~ValidEncoding(e)

BadHeader(e) == IllegalChild(e, TRUE) \/ HasPI(e.kids)
BadBody(e) == ~IsNamed(e, "Body") \/ IllegalChild(e, FALSE) \/ HasPI(e.kids) \/ ~ValidEncoding(e)
BadTrailers(es, trailers) ==
  IF trailers THEN \E i \in DOMAIN es : es[i].qn[1] = None ELSE es # <<>>

\* The serialization root: the one marked 1, or the first not marked 0.
Marked(es, marks) == { i \in DOMAIN es : Get(es[i], "root") \in marks }
BadMarks(es) == Cardinality(Marked(es, {"1"})) > 1 \/ Marked(es, {"0", "1", None}) # DOMAIN es
MutRootIndex(es) ==
  IF Marked(es, {"1", None}) # {} THEN Min(Marked(es, {"1", None})) ELSE 0
RootIndex(es) ==
  IF Marked(es, {"1"}) # {} THEN CHOOSE i \in Marked(es, {"1"}) : TRUE
  ELSE IF Marked(es, {None}) # {} THEN Min(Marked(es, {None}))
  ELSE 0

\* Every message has an id_cache of its own; before is that of the last one.
MutIdCache(before) == before
IdCache(before) == <<>>

NoRoot == [kind |-> "none", kids |-> <<>>]                          \* None

\* The exceptions are ParseExceptions all.
ParsedSoap(doc, trailers, envelope) ==
  LET top    == Scoped(doc, "" :> "")
      es     == Elements(top.kids)
      headed == es # <<>> /\ IsNamed(es[1], "Header")
      after  == IF headed THEN Tail(es) ELSE es
      body   == Head(after)
      parts  == Elements(body.kids)
      i      == RootIndex(parts)
      bad    == \/ BadEnvelope(top) \/ es = <<>>
                \/ headed /\ BadHeader(es[1])
                \/ after = <<>> \/ BadBody(body) \/ BadTrailers(Tail(after), trailers)
                \/ BadMarks(parts)
                \/ i # 0 /\ ~ValidEncoding(parts[i])
  IN IF ~envelope
     THEN Ok([root |-> top, data |-> None, headers |-> None])
     ELSE IF bad THEN Raise("ParseException")
     ELSE Ok([root |-> IF i = 0 THEN NoRoot ELSE parts[i],
              data |-> IF i = 0 THEN <<>> ELSE RemoveAt(parts, i),
              headers |-> IF headed THEN Elements(es[1].kids) ELSE <<>>])

-------------------------------------------------------------------------------
(* FindLocalHREF.                                                            *)

\* The nodes in the order they are popped: the last first, children before
\* the nodes in front of their parent.
RECURSIVE Visit(_)
Visit(nodes) ==
  IF nodes = <<>> THEN <<>>
  ELSE LET n == Last(nodes)
       IN <<n>> \o (IF n.kind \in {"element", "none"} THEN Visit(n.kids) ELSE <<>>)
               \o Visit(Front(nodes))

\* id_cache after the first n nodes have been seen: the last of an id stays.
Remembered(seen, n, frag, cache) ==
  LET with(id) == { i \in 1..n : IsElement(seen[i]) /\ Get(seen[i], "id") = id }
      ids == { Get(seen[i], "id") : i \in { j \in 1..n : IsElement(seen[j]) } } \ {None}
  IN [id \in ids |-> seen[Max(with(id))]] @@ cache

\* Without an envelope there are no data_elements to look in, and an empty
\* Body has no root: both are AttributeErrors.
FindIn(seen, frag, st) ==
  LET stops == { i \in DOMAIN seen :
                   seen[i].kind = "none" \/ (IsElement(seen[i]) /\ Get(seen[i], "id") = frag) }
      n     == IF stops = {} THEN Len(seen) ELSE Min(stops)
      found == IF stops = {} THEN Raise("EvaluateException")
               ELSE IF seen[n].kind = "none" THEN Raise("AttributeError")
               ELSE Ok(seen[n])
  IN [out |-> found, st |-> [st EXCEPT !.cache = Remembered(seen, n, frag, @)]]
FindLocalHREF(href, headers, st) ==
  LET nodes == st.ps.data \o <<st.ps.root>> \o (IF headers THEN st.ps.headers ELSE <<>>)
  IN IF href[1] # "#" THEN Fail("EvaluateException", st)
     ELSE IF href[2] \in DOMAIN st.cache THEN Give(st.cache[href[2]], st)
     ELSE IF st.ps.data = None THEN Fail("AttributeError", st)
     ELSE FindIn(Visit(nodes), href[2], st)

\* ResolveHREF: st.resolved are the URIs for which the caller's resolver has
\* an answer; without a resolver none has one.
ResolveHREF(href, st) ==
  IF href[2] \in DOMAIN st.resolved THEN Give(st.resolved[href[2]], st)
  ELSE Fail("EvaluateException", st)
================================================================================
