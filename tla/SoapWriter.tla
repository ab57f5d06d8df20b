------------------------------ MODULE SoapWriter ------------------------------
(***************************************************************************)
(* Writing one message: SoapWriter (ZSI/writer.py) and the serialize       *)
(* methods of the typecodes (ZSI/TC.py, ZSI/TCcompound.py).                *)
(*                                                                         *)
(* An object that occurs several times in a message may be written once,   *)
(* under an id, and referred to by href elsewhere.  The writer remembers   *)
(* the objects it has Known, by their Python id; a ComplexType that is not *)
(* inline leaves an href where it occurs and a callback that writes it     *)
(* when the writer is closed, and the callback may add more callbacks.     *)
(* Who remembers an object, and what the writer does with an object it     *)
(* knows, differ from typecode to typecode.                                *)
(*                                                                         *)
(* Recursion over the message is a list of things still to write.  Names,  *)
(* attributes and text are left out.  An object always has one typecode.   *)
(***************************************************************************)
EXTENDS Integers, Sequences

(* A definition Mut... is the one that follows it with a fault seeded in; no *)
(* specification uses it, a property is checked to reject it.                *)

CONSTANTS
  Objects,   \* Python objects
  Messages,  \* what callers write, see AnyMessage
  Closes     \* bound: how often a writer is closed, by str and when it is deleted

\* simple: SimpleType.  struct: ComplexType.  array: Array.  any: Any, for a
\* list or dictionary; for another value Any uses the typecode of its type.
Kinds == {"simple", "struct", "array", "any"}
Typecode == [kind : Kinds, unique : BOOLEAN, mutable : BOOLEAN, inline : BOOLEAN]

\* parts: the members of an object in the order they are written.  none: the
\* objects that are None, written by a nillable typecode.  headers: those
\* passed to serialize as header_pyobjs, more: to serialize_header after it.
AnyMessage ==
  [typecode : [Objects -> Typecode], parts : [Objects -> Seq(Objects)],
   none : SUBSET Objects, body : Objects, headers : Seq(Objects), more : Seq(Objects)]

\* A simple value has no parts, and neither has None.
ASSUME MessagesAssumption ==
  /\ Closes \in Nat
  /\ Messages \subseteq AnyMessage
  /\ \A m \in Messages, o \in Objects :
       m.typecode[o].kind = "simple" \/ o \in m.none => m.parts[o] = <<>>

Roots == {"header", "body"}

\* An element: its parent (0 is the SOAP Header or Body), whether it has the
\* object's content, an href to it, or xsi:nil, and whether it has an id.
Element == [obj : Objects, root : Roots, parent : Nat,
            form : {"content", "href", "nil"}, id : BOOLEAN, late : BOOLEAN]

\* Something still to be written, below which element, with unique among its
\* keyword arguments or not, and by a callback or not.
Item == [obj : Objects, root : Roots, parent : Nat, unique : BOOLEAN, late : BOOLEAN]

VARIABLES
  message,    \* the message that is written
  elements,   \* the document, in the order its elements are made
  memo,       \* memo: the objects that are Known
  callbacks,  \* callbacks: the items they write
  called,     \* callbacks called by the close that runs, or by the last one
  closed,     \* closed
  todo,       \* Items that the running call has still to write
  more,       \* header objects not yet passed to serialize_header
  pc,         \* what the caller of the writer does
  broken,     \* a call has raised
  closes      \* how often close was called

vars == <<message, elements, memo, callbacks, called, closed, todo, more, pc, broken, closes>>

\* "returned": str has returned the document.
Steps == {"new", "writing", "ready", "closing", "returned"}

Init ==
  /\ message \in Messages
  /\ elements = <<>> /\ memo = {} /\ callbacks = <<>>
  /\ called = 0 /\ closed = FALSE
  /\ todo = <<>> /\ more = message.more
  /\ pc = "new" /\ broken = FALSE /\ closes = 0

ItemFor(o, root, parent, unique, late) ==
  [obj |-> o, root |-> root, parent |-> parent, unique |-> unique, late |-> late]

Items(objs, root, parent, unique) ==
  [i \in 1..Len(objs) |-> ItemFor(objs[i], root, parent, unique, FALSE)]

------------------------------------------------------------------------------
\* The item at the head of todo, its object and typecode.
It == Head(todo)
Tc == message.typecode[It.obj]
Nil == It.obj \in message.none

\* ComplexType.__init__: mutable implies inline.
InPlace == Tc.inline \/ Tc.mutable

\* SoapWriter.Known, and what it leaves behind.
Known == It.obj \in memo
Remember == memo' = memo \cup {It.obj}

\* An element is made for the item, and the given items come before the others.
Appends(form, id) ==
  elements' = Append(elements, [obj |-> It.obj, root |-> It.root, parent |-> It.parent,
                                form |-> form, id |-> id, late |-> It.late])
Makes(form, id, parts) ==
  /\ Appends(form, id)
  /\ todo' = parts \o Tail(todo)
  /\ UNCHANGED <<message, called, closed, more, pc, broken, closes>>

Drops ==
  /\ todo' = Tail(todo)
  /\ UNCHANGED <<message, elements, memo, callbacks, called, closed, more, pc, broken, closes>>

\* The parts of the object, below the element being made for it.
MutParts(unique) ==
  LET ps == message.parts[It.obj]
  IN Items([i \in 1..Len(ps) |-> ps[Len(ps) + 1 - i]], It.root, Len(elements) + 1, unique)
Parts(unique) == Items(message.parts[It.obj], It.root, Len(elements) + 1, unique)

\* The object may be referred to rather than written in place: unique is
\* neither set on the typecode nor passed by serialize_header.
Shared == ~Tc.unique /\ ~It.unique

------------------------------------------------------------------------------
\* The serialize methods.

\* SimpleType: an href if the object is Known, which only shared ones ask.
Simple ==
  /\ Tc.kind = "simple"
  /\ UNCHANGED callbacks
  /\ IF Nil THEN Makes("nil", FALSE, <<>>) /\ UNCHANGED memo
     ELSE IF Shared /\ Known THEN Makes("href", FALSE, <<>>) /\ UNCHANGED memo
     ELSE /\ Makes("content", ~Tc.unique, <<>>)
          /\ IF Shared THEN Remember ELSE UNCHANGED memo

\* Array: one that is not mutable and is Known is not written again.  When it
\* is not Known, that very question makes it so, and the second question
\* answers yes: an href is written if it is shared.
Array ==
  /\ Tc.kind = "array"
  /\ IF ~Tc.mutable /\ Known THEN Drops
     ELSE /\ UNCHANGED callbacks
          /\ IF Nil THEN Makes("nil", FALSE, <<>>)
             ELSE IF Shared /\ (Known \/ ~Tc.mutable) THEN Makes("href", FALSE, <<>>)
             ELSE Makes("content", ~Tc.unique, Parts(FALSE))
          /\ IF ~Tc.mutable \/ (Shared /\ ~Nil) THEN Remember ELSE UNCHANGED memo

\* Any, for a list or dictionary: never an id, never remembered.
AnyContainer ==
  /\ Tc.kind = "any"
  /\ IF Nil THEN Makes("nil", FALSE, <<>>) ELSE Makes("content", FALSE, Parts(It.unique))
  /\ UNCHANGED <<memo, callbacks>>

\* ComplexType.serialize of a type that is not inline: the callback has no
\* keyword arguments, so it knows nothing of unique.
MutPostpone ==
  /\ Tc.kind = "struct" /\ ~InPlace /\ ~It.late
  /\ Makes("href", FALSE, <<>>)
  /\ callbacks' = IF Known THEN callbacks
                  ELSE Append(callbacks, ItemFor(It.obj, It.root, It.parent, FALSE, TRUE))
  /\ Remember
Postpone ==
  /\ Tc.kind = "struct" /\ ~InPlace /\ ~It.late
  /\ Makes("href", FALSE, <<>>)
  /\ callbacks' = Append(callbacks, ItemFor(It.obj, It.root, It.parent, FALSE, TRUE))
  /\ UNCHANGED memo

\* ComplexType.cb, called in place or as a callback: one that is not mutable
\* is written once.
MutAgain == FALSE
Again == ~Tc.mutable /\ Known

Struct ==
  /\ Tc.kind = "struct" /\ (InPlace \/ It.late)
  /\ IF ~Nil /\ Again THEN Drops
     ELSE /\ Nil \/ InPlace \/ ~Tc.unique
          /\ UNCHANGED callbacks
          /\ IF Nil THEN Makes("nil", FALSE, <<>>) ELSE Makes("content", ~InPlace, Parts(It.unique))
          /\ IF Nil \/ Tc.mutable THEN UNCHANGED memo ELSE Remember

\* ComplexType.cb raises for a type that is neither inline nor shared, when
\* it has made the element.
NotInlineButUnique ==
  /\ todo # <<>>
  /\ Tc.kind = "struct" /\ It.late /\ Tc.unique /\ ~Nil /\ ~Again
  /\ Appends("content", FALSE)
  /\ Remember
  /\ todo' = <<>> /\ broken' = TRUE /\ pc' = "ready"
  /\ UNCHANGED <<message, callbacks, called, closed, more, closes>>

Write ==
  /\ todo # <<>>
  /\ Simple \/ Array \/ AnyContainer \/ Postpone \/ Struct

------------------------------------------------------------------------------
\* The calls of a writer, in the order of client.Send, _Dispatch and
\* Fault.AsSOAP: serialize, serialize_header for each further header, str.

Serialize ==
  /\ pc = "new"
  /\ todo' = Items(message.headers, "header", 0, TRUE) \o Items(<<message.body>>, "body", 0, FALSE)
  /\ pc' = "writing"
  /\ UNCHANGED <<message, elements, memo, callbacks, called, closed, more, broken, closes>>

SerializeHeader ==
  /\ pc = "ready" /\ more # <<>> /\ ~broken
  /\ todo' = Items(<<Head(more)>>, "header", 0, TRUE)
  /\ more' = Tail(more)
  /\ pc' = "writing"
  /\ UNCHANGED <<message, elements, memo, callbacks, called, closed, broken, closes>>

Serialized ==
  /\ pc = "writing" /\ todo = <<>>
  /\ pc' = "ready"
  /\ UNCHANGED <<message, elements, memo, callbacks, called, closed, todo, more, broken, closes>>

\* str, or the deletion of the writer, closes it: it calls all callbacks from
\* the first, also if an earlier close has raised.
Close ==
  /\ pc = "ready" /\ (more = <<>> \/ broken)
  /\ pc' = "closing"
  /\ called' = 0
  /\ closes < Closes /\ closes' = closes + 1
  /\ UNCHANGED <<message, elements, memo, callbacks, closed, todo, more, broken>>

Advance == called' = called + 1

CallBack ==
  /\ pc = "closing" /\ todo = <<>> /\ called < Len(callbacks)
  /\ todo' = <<callbacks[called + 1]>>
  /\ Advance
  /\ UNCHANGED <<message, elements, memo, callbacks, closed, more, pc, broken, closes>>

Closed ==
  /\ pc = "closing" /\ todo = <<>> /\ called = Len(callbacks)
  /\ closed' = TRUE
  /\ pc' = "returned"
  /\ UNCHANGED <<message, elements, memo, callbacks, called, todo, more, broken, closes>>

\* Writing raises: a value is refused by its typecode, or one is missing.  What
\* was made and remembered stays.
Raise ==
  /\ pc \in {"writing", "closing"}
  /\ todo' = <<>> /\ broken' = TRUE /\ pc' = "ready"
  /\ UNCHANGED <<message, elements, memo, callbacks, called, closed, more, closes>>

------------------------------------------------------------------------------
\* A call on the writer goes on.
Runs ==
  \/ Write \/ NotInlineButUnique
  \/ Serialized
  \/ CallBack \/ Closed

Next == Serialize \/ SerializeHeader \/ Close \/ Runs \/ Raise

\* The calls are sequential code that waits for nothing.
Spec == Init /\ [][Next]_vars /\ WF_vars(Runs)

------------------------------------------------------------------------------
TypeOK ==
  /\ message \in Messages
  /\ elements \in Seq(Element)
  /\ memo \subseteq Objects
  /\ callbacks \in Seq(Item) /\ called \in 0..Len(callbacks) /\ closed \in BOOLEAN
  /\ todo \in Seq(Item) /\ (pc \notin {"writing", "closing"} => todo = <<>>)
  /\ more \in Seq(Objects)
  /\ pc \in Steps /\ broken \in BOOLEAN /\ closes \in 0..Closes

Written == pc = "returned" /\ ~broken
Kind(o) == message.typecode[o].kind
Mutable(o) == message.typecode[o].mutable
IsInline(o) == message.typecode[o].inline \/ Mutable(o)

\* Every href of a document that str returns leads to an element with that id,
\* also through the callbacks of callbacks and in cyclic messages.  Not so for
\* arrays that are not mutable, and for None as a type that is not inline.
HrefsResolve ==
  Written =>
    \A i \in 1..Len(elements) :
      LET o == elements[i].obj IN
      elements[i].form = "href" /\ o \notin message.none /\ (Kind(o) = "array" => Mutable(o)) =>
        \E j \in 1..Len(elements) :
          elements[j].obj = o /\ elements[j].form = "content" /\ elements[j].id

\* No id is given twice, even when a close has raised half way and the
\* callbacks are all called again.  Values in the header that are not
\* structures are the exception: unique makes the writer not remember them.
IdsOnce ==
  \A i, j \in 1..Len(elements) :
    /\ i < j /\ elements[i].id /\ elements[j].id
    /\ elements[i].obj = elements[j].obj
    => Kind(elements[i].obj) # "struct" /\ "header" \in {elements[i].root, elements[j].root}

\* An occurrence of these may be passed over without leaving an element.
PassedOver(o) ==
  ~Mutable(o) /\ (Kind(o) = "array" \/ (Kind(o) = "struct" /\ IsInline(o)))

\* The parts of the i-th element's object that are due, and the elements below
\* it that its parts have left, without those that callbacks appended there.
Due(parts) == {k \in DOMAIN parts : ~PassedOver(parts[k])}
Below(i) ==
  {j \in DOMAIN elements :
     elements[j].parent = i /\ ~elements[j].late /\ ~PassedOver(elements[j].obj)}

\* The content of an object has an element for each of its parts in their
\* order, content or href, however writing was spread over the callbacks.
PartsInOrder ==
  Written =>
    \A i \in 1..Len(elements) : elements[i].form = "content" =>
      LET parts == message.parts[elements[i].obj] IN
      \E place \in [Due(parts) -> Below(i)] :
        /\ \A k \in Due(parts) : elements[place[k]].obj = parts[k]
        /\ \A k, m \in Due(parts) : k < m => place[k] < place[m]
        /\ \A j \in Below(i) : \E k \in Due(parts) : place[k] = j
==============================================================================
