----------------------------- MODULE MessageReader -----------------------------
(*****************************************************************************)
(* Messages as they come in, and what a program reads from them: ParsedSoap  *)
(* and the typecodes' parse methods, one call after the other on one         *)
(* message, and the typecodes over several messages.                         *)
(*                                                                           *)
(* A message is one that ZSI has written, in which any sender may have moved *)
(* values out of their place: those of an element reached by an href stand   *)
(* in an element of the Body of their own, before or behind the root, which  *)
(* is then marked; equal values may share one; and the elements of a         *)
(* structure may stand in another order.  Or it is a given document.         *)
(* What stays over messages is the order in which a Union tries its members. *)
(*****************************************************************************)
EXTENDS Writing

CONSTANTS
  Pairs,      \* what programs write: records of a typecode tc, a value v and hrefs,
              \* how many elements a sender moves at most
  Unions,     \* the Union typecodes among them
  Headers,    \* typecodes that the Header is read with
  HeaderElements, \* the elements of the Header of every written message
  Documents,  \* records of a document doc and the typecode tc it is read with
  Resolved,   \* URIs for which the resolver of the program has a value
  Messages    \* bound: how many messages come in

VARIABLES
  message,   \* the document, or None
  origin,    \* a Pair or a Document; and where the message is from
  st,        \* ps, cache, order and resolved, see Envelope
  last,      \* the last call on the message, its first argument and its result
  messages   \* how many messages came in

vars == <<message, origin, st, last, messages>>

NoCall == [op |-> "none", arg |-> None, out |-> Ok(Nil)]

Init ==
  /\ message = None /\ messages = 0
  /\ origin = [is |-> "none"]
  /\ st = [ps |-> None, cache |-> <<>>, resolved |-> Resolved,
           order |-> [id \in {u.id : u \in Unions} |->
                        (CHOOSE u \in Unions : u.id = id).members]]
  /\ last = NoCall

-------------------------------------------------------------------------------
(* The sender.                                                               *)

\* The paths to the elements below e that are not XML content.
RECURSIVE Paths(_)
Paths(e) ==
  {<<>>} \cup UNION { { <<i>> \o p : p \in Paths(e.kids[i]) } :
                      i \in { j \in DOMAIN e.kids : IsElement(e.kids[j]) /\ e.kids[j].qn[1] # "doc" } }

RECURSIVE At(_, _), Replaced(_, _, _)
At(e, path) == IF path = <<>> THEN e ELSE At(e.kids[Head(path)], Tail(path))
Replaced(e, path, new) ==
  IF path = <<>> THEN new
  ELSE [e EXCEPT !.kids[Head(path)] = Replaced(@, Tail(path), new)]

IsPrefixOf(p, q) == Len(p) <= Len(q) /\ SubSeq(q, 1, Len(p)) = p
Content1(e) == <<e.atts, e.kids>>
Reference(e, id) == [e EXCEPT !.atts = [href |-> <<"#", id>>], !.kids = <<>>]
WithId(e, id) == [e EXCEPT !.atts = @ @@ ("id" :> id)]

\* Elements that stay in place: a Map follows no href, and an Integer whose
\* target is nil is no Nilled.  An array's type says that it is one.
Movable(e) == Get(e, "nil") = None /\ (e.kids = <<>> => Get(e, "arrayType") # None)

\* Moved out: below an element multiRef of its own, which a bare reference
\* stands for.
MovedOut(e, path, id) ==
  [rest |-> Replaced(e, path, Reference(At(e, path), id)),
   data |-> WithId([At(e, path) EXCEPT !.qn = <<None, "multiRef">>], id)]

\* Shared: the later of two elements of equal content refers to the former.
Sharable(e) ==
  { pq \in Paths(e) \X Paths(e) :
      /\ pq[1] # pq[2] /\ ~IsPrefixOf(pq[1], pq[2]) /\ ~IsPrefixOf(pq[2], pq[1])
      /\ Movable(At(e, pq[1])) /\ Content1(At(e, pq[1])) = Content1(At(e, pq[2])) }
Shared(e, pq, id) ==
  Replaced(Replaced(e, pq[1], WithId(At(e, pq[1]), id)), pq[2], Reference(At(e, pq[2]), id))

\* The bodies that a sender makes of one element.
MoveOne(e) ==
  { <<MovedOut(e, p, "1").rest, <<MovedOut(e, p, "1").data>>>> :
      p \in { q \in Paths(e) : Movable(At(e, q)) } }
MoveTwo(e) ==
  UNION { { LET b == MovedOut(a[1], p, "2") IN <<b.rest, a[2] \o <<b.data>>>> :
              p \in { q \in Paths(a[1]) : Movable(At(a[1], q)) /\ Get(At(a[1], q), "href") = None } } :
          a \in MoveOne(e) }
Share(e) == { <<Shared(e, pq, "1"), <<>>>> : pq \in Sharable(e) }
Sendings(e, hrefs) ==
  {<<e, <<>>>>} \cup (IF hrefs > 0 THEN MoveOne(e) \cup Share(e) ELSE {})
               \cup (IF hrefs > 1 THEN MoveTwo(e) ELSE {})

Mark(e, root) == [e EXCEPT !.atts = @ @@ ("root" :> root)]
\* The Body with its root in front, or marked and somewhere else.
Bodies(root, data) ==
  {<<root>> \o data}
    \cup (IF data = <<>> THEN {}
          ELSE { data \o <<Mark(root, "1")>>,
                 [i \in DOMAIN data |-> Mark(data[i], "0")] \o <<root>> })

Reorderings(tc, e) ==
  IF tc.cls = "Struct" /\ ~tc.inorder /\ \A i \in DOMAIN tc.of : tc.of[i].max = 1
  THEN {e, [e EXCEPT !.kids = SelectSeq(@, LAMBDA n : ~IsElement(n))
                              \o Reverse(Elements(@))]}
  ELSE {e}

Opened(doc, envelope) ==
  LET p == ParsedSoap(doc, FALSE, envelope)
  IN /\ message' = doc
     /\ st' = [st EXCEPT !.ps = IF IsOk(p) THEN p[2] ELSE None, !.cache = IdCache(@),
                         !.order = IF origin'.is = "written" /\ origin'.tc.cls = "Union"
                                   THEN [@ EXCEPT ![origin'.tc.id] = UnionOrder(@, origin'.v)]
                                   ELSE @]
     /\ last' = [op |-> "open", arg |-> envelope, out |-> IF IsOk(p) THEN Ok(Nil) ELSE p]
     /\ messages' = messages + 1

\* The bound of the messages.  Nothing but the order of a Union outlives a
\* message: more than one come only where all are of Unions.
More(tc) ==
  /\ messages < Messages
  /\ messages > 0 => tc.cls = "Union"
  /\ origin.is # "none" => origin.tc.cls = "Union"

\* SoapWriter.serialize, and the ParsedSoap of what arrives.
Present(tc) == IF tc.cls = "Union" THEN [tc EXCEPT !.members = st.order[tc.id]] ELSE tc
Write(p) ==
  LET written == Serialize(Present(p.tc), p.v, None)
  IN /\ More(p.tc)
     /\ IsOk(written) /\ Len(written[2]) = 1
     /\ \E e \in Reorderings(p.tc, written[2][1]) : \E s \in Sendings(e, p.hrefs) :
        \E b \in Bodies(s[1], s[2]) :
          /\ origin' = [is |-> "written", tc |-> p.tc, v |-> p.v]
          /\ Opened(Envelopes(Message(HeaderElements, b)), TRUE)

\* A value that cannot be written changes the order of the members, too.
WriteFails(p) ==
  LET written == Serialize(Present(p.tc), p.v, None)
  IN /\ More(p.tc)
     /\ ~IsOk(written)
     /\ messages' = messages + 1
     /\ last' = [op |-> "write", arg |-> p.tc, out |-> written]
     /\ st' = IF p.tc.cls = "Union"
              THEN [st EXCEPT !.order[p.tc.id] = UnionOrder(@, p.v)] ELSE st
     /\ UNCHANGED <<message, origin>>

Receive(d) ==
  /\ More(d.tc)
  /\ origin' = [is |-> "document", tc |-> d.tc]
  /\ Opened(d.doc, d.envelope)

-------------------------------------------------------------------------------
(* The program.                                                              *)

Answers(op, arg, r) ==
  /\ last' = [op |-> op, arg |-> arg, out |-> r.out]
  /\ st' = r.st
  /\ UNCHANGED <<message, origin, messages>>

HasMessage == st.ps # None
HasBody == HasMessage /\ st.ps.root.kind # "none"

\* ParsedSoap.Parse; an empty Body is None.
ParseOf(tc, s) == IF s.ps.root.kind = "none" THEN Give(Nil, s) ELSE Parse(tc, s.ps.root, s)
ParseBody == HasMessage /\ Answers("parse", origin.tc, ParseOf(origin.tc, st))

ReadHeaders ==
  /\ HasMessage /\ st.ps.headers # None
  /\ Answers("headers", None, ParseHeaders(Headers, st))

\* A program may look for an element itself.
Ids == {"1", "h"}
Find(id, headers) ==
  HasMessage /\ Answers("find", id, FindLocalHREF(<<"#", id>>, headers, st))

Next ==
  \/ \E p \in Pairs : Write(p) \/ WriteFails(p)
  \/ \E d \in Documents : Receive(d)
  \/ ParseBody
  \/ ReadHeaders
  \/ \E id \in Ids, headers \in BOOLEAN : Find(id, headers)

Spec == Init /\ [][Next]_vars

-------------------------------------------------------------------------------
(* Properties.                                                               *)

Word(t) == Split(t) = <<t>>
Kept1 == {"0", "1", "half", "inf", "-inf"}

\* Not within the hours in which the zone of the program changes.
Steady(wall) == \A change \in {DstStart, DstEnd} : wall < change - 60 \/ change + 120 < wall
KeptTime(cls, v) ==
  LET local == [p \in Places |-> CASE p \in Fields(cls) -> v[p] [] p = "Y" -> 2
                                   [] p \in {"M", "D"} -> 1 [] OTHER -> 0]
  IN IF cls = "duration" THEN v.ms = 0 /\ v.s >= 0 /\ \A p \in Places : v[p] # None
     ELSE /\ \A p \in Places : v[p] = local[p] /\ v[p] >= 0
          /\ v.ms = 0 \/ cls \in Fixing
          /\ cls \in Fixing => Valid(v) /\ Steady(Minute(v))

\* The values that a typecode gives back as they were.
RECURSIVE Keeps(_, _)
Keeps(tc, v) ==
  LET items == tc.cls \in {"List", "Array"}
      any   == [Typecode("Any", None) EXCEPT !.min = 0]
      fields == { tc.of[i].name : i \in DOMAIN tc.of }
  IN CASE v = Nil -> tc.nillable /\ tc.cls \notin {"Enumeration", "IEnumeration", "FPEnumeration", "XML", "Union"}
       [] tc.cls \in {"String", "Token"} -> v[1] = "str" /\ (tc.strip => Strip(v[2]) = v[2])
       [] tc.cls = "URI" -> v[1] = "str" /\ Strip(v[2]) = v[2]
       [] tc.cls \in {"Enumeration", "IEnumeration", "FPEnumeration"} -> v \in tc.choices
       [] tc.cls = "Integer" -> v[1] = "int" /\ InRange(tc.type[2], v[2])
       [] tc.cls = "Decimal" -> v[1] = "float" /\ v[2] \in Kept1
       [] tc.cls = "Boolean" -> v[1] = "bool"
       [] tc.cls = "QName" -> v[1] = "qname" /\ Word(v[2][2])
       [] tc.cls \in {"Base64String", "HexBinaryString"} -> v[1] = "str" /\ ~Wide(v[2])
       [] tc.cls = "Base64Binary" -> v[1] = "bytes"
       [] tc.cls \in TimeClasses -> v[1] = "time" /\ KeptTime(tc.cls, v[2])
       [] tc.cls = "List" -> \A i \in DOMAIN v[2] :
            Keeps(tc.item, v[2][i]) /\ Word(Formatted(tc.item, v[2][i], None)[2])
       [] tc.cls = "Array" -> ~tc.sparse /\ \A i \in DOMAIN v[2] :
            Keeps(tc.item, v[2][i]) \/ (v[2][i] = tc.fill /\ i <= Filled(tc, v[2]))
       [] tc.cls = "Map" -> \A k \in DOMAIN v[2] : Keeps(any, k) /\ Keeps(any, v[2][k])
       [] tc.cls = "Any" ->
            /\ tc.typed
            /\ CASE v[1] \in {"int", "bool"} -> TRUE
                 [] v[1] = "float" -> v[2] \in Kept1
                 [] v[1] = "str"   -> Strip(v[2]) = v[2] /\ (v[2] = None => tc.min = 0)
                 [] v[1] = "list"  -> /\ tc.aslist /\ (v[2] = <<>> => tc.min = 0)
                                      /\ \A i \in DOMAIN v[2] : Keeps(Inner(tc), v[2][i])
                 [] v[1] = "dict"  -> /\ ~tc.aslist /\ DOMAIN v[2] # {}
                                      /\ \A k \in DOMAIN v[2] : Keeps(Inner(tc), v[2][k])
                 [] OTHER -> FALSE
       [] tc.cls = "Struct" ->
            /\ v[1] = tc.holder /\ DOMAIN v[2] \subseteq fields \cup {"_attrs", "_text"}
            /\ tc.mixed = ("_text" \in DOMAIN v[2]) /\ (tc.mixed => v[1] = "object")
            /\ "_attrs" \in DOMAIN v[2] => v[1] = "object" /\ v[2]["_attrs"][2] # <<>>
            /\ \A i \in DOMAIN tc.of :
                 LET what == tc.of[i]
                     f    == IF what.name \in DOMAIN v[2] THEN v[2][what.name] ELSE Nil
                 IN IF what.name \notin DOMAIN v[2] THEN what.min = 0
                    ELSE IF what.max > 1 THEN f # Nil /\ f[2] # <<>> /\ \A k \in DOMAIN f[2] : Keeps(what, f[2][k])
                    ELSE Keeps(what, f) /\ ~(f = Nil /\ what.min = 0)
       [] OTHER -> FALSE

\* What a program wrote is what the other reads, wherever the sender has put
\* the parts of it, whatever marks say which element is the root, in whatever
\* order the members of a structure stand, and whatever else has been looked
\* up in the message before (ParsedSoap, FindLocalHREF, parse and serialize
\* of the typecodes).
ReadAsWritten ==
  last.op = "parse" /\ origin.is = "written" /\ Keeps(origin.tc, origin.v)
    => last.out = Ok(origin.v)

RECURSIVE Below(_)
Below(e) == {e} \cup UNION { Below(e.kids[i]) : i \in { j \in DOMAIN e.kids : IsElement(e.kids[j]) } }
Body1 == <<st.ps.root>> \o st.ps.data
IdsOf(es) == { Get(e, "id") : e \in es } \ {None}
InBody == UNION { Below(Body1[i]) : i \in DOMAIN Body1 }
InHeader == UNION { Below(st.ps.headers[i]) : i \in DOMAIN st.ps.headers }
\* No id is there twice, and no href of the Body leads into the Header.
Regular ==
  /\ IdsOf(InBody) \cap IdsOf(InHeader) = {}
  /\ \A e, f \in InBody : Get(e, "id") # None /\ Get(e, "id") = Get(f, "id") => e = f
  /\ \A e \in InBody : Get(e, "href") # None => Get(e, "href")[2] \notin IdsOf(InHeader)

\* Reading a message gives what reading it first would have given: what
\* FindLocalHREF remembers of earlier searches, with the Header and without,
\* makes no difference to a regular message.
FirstReadAnswers ==
  last.op = "parse" /\ HasBody /\ st.ps.headers # None /\ Regular
    => last.out = ParseOf(origin.tc, [st EXCEPT !.cache = <<>>]).out

\* A text that only one member of a Union accepts is read by that member, in
\* whatever order the values before have brought the members
\* (memberTypeCodes in Union.parse and get_formatted_content).
SoleMember ==
  last.op = "parse" /\ HasBody /\ origin.tc.cls = "Union" =>
    \A u \in {x \in Unions : x.id = origin.tc.id} :
      LET accepting == { i \in DOMAIN u.members : IsOk(ParseAtomic(u.members[i], st.ps.root, st).out) }
      IN Cardinality(accepting) = 1 =>
           last.out = ParseAtomic(u.members[Min(accepting)], st.ps.root, st).out

\* A dateTime that is read and written again is the same instant, whatever
\* zone it was written in and whatever zone the program runs in.  Left out are
\* the hours of a change, and zones of less than an hour west, which are read
\* as east (_tz_to_tzinfo).
InstantsKept ==
  LET text  == TextOf(st.ps.root)[2]
      again == WriteTime("dateTime", last.out[2][2])
      rereadable ==
        /\ last.op = "parse" /\ HasBody /\ origin.tc.cls = "dateTime" /\ IsOk(last.out)
        /\ ~Bare(st.ps.root) /\ text.tz # None /\ text.Y \in 2..9998
        /\ ~(text.tz.neg /\ text.tz.h = 0)
        /\ Steady(Minute(last.out[2][2]))
  IN rereadable => IsOk(again) /\ InstantOf(again[2]) = InstantOf(text)
================================================================================
