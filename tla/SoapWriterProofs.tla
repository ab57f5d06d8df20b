--------------------------- MODULE SoapWriterProofs ---------------------------
(***************************************************************************)
(* Proofs about SoapWriter: its types, that no id is given twice, that     *)
(* every href resolves and that parts are written in their order, for      *)
(* messages of any objects, shapes and typecodes.                          *)
(* An element gets its id in one of two ways: its object was not Known and *)
(* now is, or the item was marked unique, which only happens in the        *)
(* header.  An href is made to an object that was written with its id, or  *)
(* together with the callback that will write it.  The elements written    *)
(* and the items still to write, one behind the other, have the parts of   *)
(* every object in order, and writing only moves places of this line.      *)
(***************************************************************************)
EXTENDS SoapWriter, SequenceTheorems, TLAPS

\* Only items of the header are marked unique.
InHeader(items) == \A k \in 1..Len(items) : items[k].unique => items[k].root = "header"
UniqueInv == InHeader(todo) /\ InHeader(callbacks)

\* An element with an id has an object that is Known, or stems from the header.
IdInv ==
  \A i \in 1..Len(elements) :
    elements[i].id =>
      \/ elements[i].obj \in memo
      \/ Kind(elements[i].obj) # "struct" /\ elements[i].root = "header"

IInv == TypeOK /\ UniqueInv /\ IdInv /\ IdsOnce

------------------------------------------------------------------------------
\* Types of the message and of what is made of it.

LEMMA MessageType ==
  ASSUME message \in Messages
  PROVE  /\ message.typecode \in [Objects -> Typecode]
         /\ message.parts \in [Objects -> Seq(Objects)]
         /\ message.body \in Objects
         /\ message.headers \in Seq(Objects) /\ message.more \in Seq(Objects)
<1>1. message \in AnyMessage
  BY MessagesAssumption
<1> QED BY <1>1 DEF AnyMessage

\* Items of a list of objects are a list of items, all marked the same.
LEMMA ItemsType ==
  ASSUME NEW objs \in Seq(Objects), NEW root \in Roots, NEW parent \in Nat, NEW unique \in BOOLEAN,
         unique => root = "header"
  PROVE  /\ Items(objs, root, parent, unique) \in Seq(Item)
         /\ InHeader(Items(objs, root, parent, unique))
<1> DEFINE items == Items(objs, root, parent, unique)
<1>1. \A i \in 1..Len(objs) : ItemFor(objs[i], root, parent, unique, FALSE) \in Item
  BY DEF ItemFor, Item
<1>2. items \in [1..Len(objs) -> Item]
  BY <1>1 DEF Items
<1>3. \A i \in 1..Len(objs) : items[i].unique = unique /\ items[i].root = root
  BY DEF Items, ItemFor
<1> HIDE DEF items
<1>4. Len(objs) \in Nat
  BY LenProperties
<1>5. items \in Seq(Item)
  BY <1>2, <1>4
<1>6. Len(items) = Len(objs)
  BY <1>2, <1>4, <1>5, LenProperties
<1>7. InHeader(items)
  BY <1>3, <1>6 DEF InHeader
<1> QED BY <1>5, <1>7 DEF items

\* Lists of items that are marked only in the header are closed under \o and Tail.
LEMMA ConcatInHeader ==
  ASSUME NEW s \in Seq(Item), NEW t \in Seq(Item), InHeader(s), InHeader(t)
  PROVE  s \o t \in Seq(Item) /\ InHeader(s \o t)
<1>1. s \o t \in Seq(Item) /\ Len(s \o t) = Len(s) + Len(t)
  BY ConcatProperties
<1>2. \A i \in 1..Len(s \o t) : (s \o t)[i] = IF i <= Len(s) THEN s[i] ELSE t[i - Len(s)]
  BY ConcatProperties
<1>3. ASSUME NEW i \in 1..Len(s \o t), (s \o t)[i].unique PROVE (s \o t)[i].root = "header"
  <2>1. CASE i <= Len(s)
    BY <1>1, <1>2, <1>3, <2>1 DEF InHeader
  <2>2. CASE i > Len(s)
    <3>1. i - Len(s) \in 1..Len(t)
      BY <1>1, <2>2
    <3> QED BY <1>2, <1>3, <2>2, <3>1 DEF InHeader
  <2> QED BY <2>1, <2>2, <1>1
<1> QED BY <1>1, <1>3 DEF InHeader

LEMMA HeadTail ==
  ASSUME NEW s \in Seq(Item), s # <<>>, InHeader(s)
  PROVE  /\ Head(s) \in Item /\ (Head(s).unique => Head(s).root = "header")
         /\ Tail(s) \in Seq(Item) /\ InHeader(Tail(s))
<1>1. Head(s) = s[1] /\ Len(s) \in Nat \ {0} /\ s[1] \in Item
  BY EmptySeq, LenProperties
<1>2. Tail(s) \in Seq(Item) /\ Len(Tail(s)) = Len(s) - 1
        /\ \A i \in 1..Len(Tail(s)) : Tail(s)[i] = s[i + 1]
  BY HeadTailProperties
<1>3. ASSUME NEW i \in 1..Len(Tail(s)), Tail(s)[i].unique PROVE Tail(s)[i].root = "header"
  <2>1. i + 1 \in 1..Len(s)
    BY <1>1, <1>2
  <2> QED BY <1>2, <1>3, <2>1 DEF InHeader
<1> QED BY <1>1, <1>2, <1>3 DEF InHeader
------------------------------------------------------------------------------
\* Steps that make an element.

\* An element that gets an id: its object becomes Known, or it is of the header.
NewId(e) ==
  e.id => \/ e.obj \notin memo /\ e.obj \in memo'
          \/ Kind(e.obj) # "struct" /\ e.root = "header"

\* An element is added, or none.
AtMostOne ==
  \/ elements' = elements
  \/ \E e \in Element : elements' = Append(elements, e) /\ NewId(e)

\* What a step of writing leaves of the invariant.
Keeps ==
  /\ UNCHANGED message
  /\ memo' \subseteq Objects /\ memo \subseteq memo'
  /\ todo' \in Seq(Item) /\ InHeader(todo')
  /\ callbacks' \in Seq(Item) /\ InHeader(callbacks') /\ Len(callbacks') >= Len(callbacks)
  /\ AtMostOne

LEMMA ItType ==
  ASSUME TypeOK, UniqueInv, todo # <<>>
  PROVE  /\ It \in Item /\ (It.unique => It.root = "header")
         /\ Tail(todo) \in Seq(Item) /\ InHeader(Tail(todo))
         /\ It.obj \in Objects /\ Tc \in Typecode
         /\ message.parts[It.obj] \in Seq(Objects)
<1>1. todo \in Seq(Item) /\ InHeader(todo) /\ message \in Messages
  BY DEF TypeOK, UniqueInv
<1>2. /\ It \in Item /\ (It.unique => It.root = "header")
      /\ Tail(todo) \in Seq(Item) /\ InHeader(Tail(todo))
  BY <1>1, HeadTail DEF It
<1>3. It.obj \in Objects
  BY <1>2 DEF Item
<1> QED BY <1>1, <1>2, <1>3, MessageType DEF Tc

\* An object's parts are marked unique only where the object is.
LEMMA PartsType ==
  ASSUME TypeOK, UniqueInv, todo # <<>>, NEW unique \in BOOLEAN, unique => It.unique
  PROVE  Parts(unique) \in Seq(Item) /\ InHeader(Parts(unique))
<1>1. It.root \in Roots /\ (unique => It.root = "header")
  BY ItType DEF Item
<1>2. Len(elements) + 1 \in Nat
  BY LenProperties DEF TypeOK
<1> QED BY <1>1, <1>2, ItType, ItemsType DEF Parts

\* The element a step appends.
LEMMA AppendsType ==
  ASSUME TypeOK, UniqueInv, todo # <<>>,
         NEW form \in {"content", "href", "nil"}, NEW id \in BOOLEAN, Appends(form, id)
  PROVE  \E e \in Element : /\ elements' = Append(elements, e)
                            /\ e.obj = It.obj /\ e.root = It.root /\ e.id = id
<1> DEFINE e == [obj |-> It.obj, root |-> It.root, parent |-> It.parent,
                 form |-> form, id |-> id, late |-> It.late]
<1>1. e \in Element
  BY ItType DEF Item, Element
<1> QED BY <1>1 DEF Appends

LEMMA MakesType ==
  ASSUME TypeOK, UniqueInv, todo # <<>>,
         NEW form \in {"content", "href", "nil"}, NEW id \in BOOLEAN,
         NEW parts \in Seq(Item), InHeader(parts), Makes(form, id, parts)
  PROVE  /\ todo' \in Seq(Item) /\ InHeader(todo') /\ UNCHANGED message
         /\ \E e \in Element : /\ elements' = Append(elements, e)
                               /\ e.obj = It.obj /\ e.root = It.root /\ e.id = id
<1>1. Appends(form, id) /\ todo' = parts \o Tail(todo) /\ UNCHANGED message
  BY DEF Makes
<1>2. todo' \in Seq(Item) /\ InHeader(todo')
  BY <1>1, ItType, ConcatInHeader
<1> QED BY <1>1, <1>2, AppendsType

LEMMA NoParts == <<>> \in Seq(Item) /\ InHeader(<<>>)
BY DEF InHeader

LEMMA DropsType ==
  ASSUME TypeOK, UniqueInv, todo # <<>>, Drops
  PROVE  Keeps
BY ItType DEF Drops, Keeps, AtMostOne, TypeOK, UniqueInv

LEMMA SimpleKeeps ==
  ASSUME TypeOK, UniqueInv, todo # <<>>, Simple
  PROVE  Keeps
<1>1. /\ callbacks' \in Seq(Item) /\ InHeader(callbacks') /\ Len(callbacks') >= Len(callbacks)
  <2>1. UNCHANGED callbacks /\ callbacks \in Seq(Item) /\ InHeader(callbacks) /\ Len(callbacks) \in Nat
    BY LenProperties DEF Simple, TypeOK, UniqueInv
  <2> QED BY <2>1
<1>2. memo' \in {memo, memo \cup {It.obj}} /\ memo \subseteq Objects /\ It.obj \in Objects
  BY ItType DEF Simple, Remember, TypeOK
<1>3. PICK form \in {"content", "href", "nil"}, id \in BOOLEAN :
        /\ Makes(form, id, <<>>)
        /\ id => (Shared => It.obj \notin memo /\ It.obj \in memo') /\ ~Tc.unique
  BY ItType DEF Simple, Known, Remember, Typecode
<1>4. /\ todo' \in Seq(Item) /\ InHeader(todo') /\ UNCHANGED message
      /\ \E e \in Element : /\ elements' = Append(elements, e)
                            /\ e.obj = It.obj /\ e.root = It.root /\ e.id = id
  BY <1>3, NoParts, MakesType
<1>5. Kind(It.obj) = "simple"
  BY DEF Simple, Tc, Kind
<1>6. id /\ ~Shared => It.root = "header"
  BY <1>3, ItType DEF Shared
<1>7. AtMostOne
  BY <1>3, <1>4, <1>5, <1>6 DEF AtMostOne, NewId
<1> QED BY <1>1, <1>2, <1>4, <1>7 DEF Keeps

LEMMA ArrayKeeps ==
  ASSUME TypeOK, UniqueInv, todo # <<>>, Array
  PROVE  Keeps
<1>1. CASE ~Tc.mutable /\ Known
  BY <1>1, DropsType DEF Array
<1>2. CASE ~(~Tc.mutable /\ Known)
  <2>1. /\ callbacks' \in Seq(Item) /\ InHeader(callbacks') /\ Len(callbacks') >= Len(callbacks)
    <3>1. UNCHANGED callbacks /\ callbacks \in Seq(Item) /\ InHeader(callbacks) /\ Len(callbacks) \in Nat
      BY <1>2, LenProperties DEF Array, TypeOK, UniqueInv
    <3> QED BY <3>1
  <2>2. memo' \in {memo, memo \cup {It.obj}} /\ memo \subseteq Objects /\ It.obj \in Objects
    BY <1>2, ItType DEF Array, Remember, TypeOK
  <2>3. Parts(FALSE) \in Seq(Item) /\ InHeader(Parts(FALSE))
    BY PartsType
  <2>4. PICK form \in {"content", "href", "nil"}, id \in BOOLEAN, parts \in {<<>>, Parts(FALSE)} :
          /\ Makes(form, id, parts)
          /\ id => (Shared => It.obj \notin memo /\ It.obj \in memo') /\ ~Tc.unique
    BY <1>2, ItType DEF Array, Known, Remember, Typecode
  <2>5. /\ todo' \in Seq(Item) /\ InHeader(todo') /\ UNCHANGED message
        /\ \E e \in Element : /\ elements' = Append(elements, e)
                              /\ e.obj = It.obj /\ e.root = It.root /\ e.id = id
    BY <2>3, <2>4, NoParts, MakesType
  <2>6. Kind(It.obj) = "array"
    BY DEF Array, Tc, Kind
  <2>7. id /\ ~Shared => It.root = "header"
    BY <2>4, ItType DEF Shared
  <2>8. AtMostOne
    BY <2>4, <2>5, <2>6, <2>7 DEF AtMostOne, NewId
  <2> QED BY <2>1, <2>2, <2>5, <2>8 DEF Keeps
<1> QED BY <1>1, <1>2

LEMMA AnyContainerKeeps ==
  ASSUME TypeOK, UniqueInv, todo # <<>>, AnyContainer
  PROVE  Keeps
<1>1. It.unique \in BOOLEAN
  BY ItType DEF Item
<1>2. Parts(It.unique) \in Seq(Item) /\ InHeader(Parts(It.unique))
  BY <1>1, PartsType
<1>3. PICK form \in {"content", "href", "nil"}, parts \in {<<>>, Parts(It.unique)} :
        Makes(form, FALSE, parts)
  BY DEF AnyContainer
<1>4. /\ todo' \in Seq(Item) /\ InHeader(todo') /\ UNCHANGED message
      /\ \E e \in Element : elements' = Append(elements, e) /\ ~e.id
  BY <1>2, <1>3, NoParts, MakesType
<1>5. AtMostOne
  BY <1>4 DEF AtMostOne, NewId
<1>6. /\ UNCHANGED <<memo, callbacks>> /\ memo \subseteq Objects
      /\ callbacks \in Seq(Item) /\ InHeader(callbacks) /\ Len(callbacks) \in Nat
  BY LenProperties DEF AnyContainer, TypeOK, UniqueInv
<1> QED BY <1>4, <1>5, <1>6 DEF Keeps

\* The callback is an item that is not marked.
LEMMA PostponeKeeps ==
  ASSUME TypeOK, UniqueInv, todo # <<>>, Postpone
  PROVE  Keeps
<1> DEFINE i == ItemFor(It.obj, It.root, It.parent, FALSE, TRUE)
<1>1. i \in Item /\ ~i.unique
  BY ItType DEF ItemFor, Item
<1>2. callbacks \in Seq(Item) /\ InHeader(callbacks) /\ callbacks' = Append(callbacks, i)
  BY DEF Postpone, TypeOK, UniqueInv
<1> HIDE DEF i
<1>3. callbacks' \in Seq(Item) /\ Len(callbacks') = Len(callbacks) + 1
  BY <1>1, <1>2, AppendProperties
<1>4. /\ \A k \in 1..Len(callbacks) : callbacks'[k] = callbacks[k]
      /\ callbacks'[Len(callbacks) + 1] = i
  BY <1>1, <1>2, AppendProperties
<1>5. InHeader(callbacks') /\ Len(callbacks') >= Len(callbacks)
  BY <1>1, <1>2, <1>3, <1>4, LenProperties DEF InHeader
<1>6. /\ todo' \in Seq(Item) /\ InHeader(todo') /\ UNCHANGED message
      /\ \E e \in Element : elements' = Append(elements, e) /\ ~e.id
  BY NoParts, MakesType DEF Postpone
<1>7. AtMostOne
  BY <1>6 DEF AtMostOne, NewId
<1> QED BY <1>3, <1>5, <1>6, <1>7 DEF Keeps, Postpone, TypeOK

LEMMA StructKeeps ==
  ASSUME TypeOK, UniqueInv, todo # <<>>, Struct
  PROVE  Keeps
<1>1. CASE ~Nil /\ Again
  BY <1>1, DropsType DEF Struct
<1>2. CASE ~(~Nil /\ Again)
  <2>1. /\ callbacks' \in Seq(Item) /\ InHeader(callbacks') /\ Len(callbacks') >= Len(callbacks)
    <3>1. UNCHANGED callbacks /\ callbacks \in Seq(Item) /\ InHeader(callbacks) /\ Len(callbacks) \in Nat
      BY <1>2, LenProperties DEF Struct, TypeOK, UniqueInv
    <3> QED BY <3>1
  <2>2. memo' \in {memo, memo \cup {It.obj}} /\ memo \subseteq Objects /\ It.obj \in Objects
    BY <1>2, ItType DEF Struct, Remember, TypeOK
  <2>3. It.unique \in BOOLEAN
    BY ItType DEF Item
  <2>4. Parts(It.unique) \in Seq(Item) /\ InHeader(Parts(It.unique))
    BY <2>3, PartsType
  <2>5. InPlace \in BOOLEAN /\ (Tc.mutable => InPlace)
    BY ItType DEF InPlace, Typecode
  <2>6. PICK form \in {"content", "href", "nil"}, id \in BOOLEAN,
             parts \in {<<>>, Parts(It.unique)} :
          Makes(form, id, parts) /\ (id => It.obj \notin memo /\ It.obj \in memo')
    BY <1>2, <2>5 DEF Struct, Again, Known, Remember
  <2>7. /\ todo' \in Seq(Item) /\ InHeader(todo') /\ UNCHANGED message
        /\ \E e \in Element : /\ elements' = Append(elements, e)
                              /\ e.obj = It.obj /\ e.root = It.root /\ e.id = id
    BY <2>4, <2>6, NoParts, MakesType
  <2>8. AtMostOne
    BY <2>6, <2>7 DEF AtMostOne, NewId
  <2> QED BY <2>1, <2>2, <2>7, <2>8 DEF Keeps
<1> QED BY <1>1, <1>2

LEMMA WriteKeeps ==
  ASSUME TypeOK, UniqueInv, Write
  PROVE  Keeps
BY SimpleKeeps, ArrayKeeps, AnyContainerKeeps, PostponeKeeps, StructKeeps DEF Write

LEMMA NotInlineButUniqueKeeps ==
  ASSUME TypeOK, UniqueInv, NotInlineButUnique
  PROVE  Keeps
<1>1. \E e \in Element : elements' = Append(elements, e) /\ ~e.id
  BY AppendsType DEF NotInlineButUnique
<1>2. AtMostOne
  BY <1>1 DEF AtMostOne, NewId
<1>3. /\ UNCHANGED callbacks
      /\ callbacks \in Seq(Item) /\ InHeader(callbacks) /\ Len(callbacks) \in Nat
  BY LenProperties DEF NotInlineButUnique, TypeOK, UniqueInv
<1> QED BY <1>2, <1>3, NoParts, ItType DEF NotInlineButUnique, Keeps, Remember, TypeOK
------------------------------------------------------------------------------
\* Every step keeps the types.

\* Steps that make no element: they replace the list of items.
LEMMA OthersKeep ==
  ASSUME TypeOK, UniqueInv, UNCHANGED <<message, elements, memo, callbacks>>,
         todo' \in Seq(Item), InHeader(todo')
  PROVE  Keeps
<1>1. Len(callbacks) \in Nat
  BY LenProperties DEF TypeOK
<1> QED BY <1>1 DEF Keeps, AtMostOne, TypeOK, UniqueInv

LEMMA StepKeeps ==
  ASSUME TypeOK, UniqueInv, [Next]_vars
  PROVE  Keeps
<1>1. CASE Serialize
  <2>1. message \in Messages
    BY DEF TypeOK
  <2>2. message.headers \in Seq(Objects) /\ <<message.body>> \in Seq(Objects)
    BY <2>1, MessageType
  <2>3. /\ Items(message.headers, "header", 0, TRUE) \in Seq(Item)
        /\ InHeader(Items(message.headers, "header", 0, TRUE))
    BY <2>2, ItemsType DEF Roots
  <2>4. /\ Items(<<message.body>>, "body", 0, FALSE) \in Seq(Item)
        /\ InHeader(Items(<<message.body>>, "body", 0, FALSE))
    BY <2>2, ItemsType DEF Roots
  <2>5. todo' \in Seq(Item) /\ InHeader(todo')
    BY <1>1, <2>3, <2>4, ConcatInHeader DEF Serialize
  <2> QED BY <1>1, <2>5, OthersKeep DEF Serialize
<1>2. CASE SerializeHeader
  <2>1. <<Head(more)>> \in Seq(Objects)
    <3>1. more \in Seq(Objects) /\ more # <<>>
      BY <1>2 DEF SerializeHeader, TypeOK
    <3>2. Head(more) \in Objects
      BY <3>1, HeadTailProperties
    <3> QED BY <3>2
  <2>2. todo' \in Seq(Item) /\ InHeader(todo')
    BY <1>2, <2>1, ItemsType DEF SerializeHeader, Roots
  <2> QED BY <1>2, <2>2, OthersKeep DEF SerializeHeader
<1>3. CASE Close
  BY <1>3, OthersKeep DEF Close, TypeOK, UniqueInv
<1>4. CASE Write
  BY <1>4, WriteKeeps
<1>5. CASE NotInlineButUnique
  BY <1>5, NotInlineButUniqueKeeps
<1>6. CASE Serialized
  BY <1>6, OthersKeep DEF Serialized, TypeOK, UniqueInv
<1>7. CASE CallBack
  <2>1. called + 1 \in 1..Len(callbacks) /\ callbacks \in Seq(Item)
    BY <1>7, LenProperties DEF CallBack, TypeOK
  <2>2. callbacks[called + 1] \in Item
    BY <2>1, ElementOfSeq
  <2>3. callbacks[called + 1].unique => callbacks[called + 1].root = "header"
    BY <2>1 DEF UniqueInv, InHeader
  <2>4. todo' = <<callbacks[called + 1]>>
    BY <1>7 DEF CallBack
  <2>5. todo' \in Seq(Item) /\ Len(todo') = 1 /\ todo'[1] = callbacks[called + 1]
    BY <2>2, <2>4
  <2>6. InHeader(todo')
    BY <2>3, <2>5 DEF InHeader
  <2> QED BY <1>7, <2>5, <2>6, OthersKeep DEF CallBack
<1>8. CASE Closed
  BY <1>8, OthersKeep DEF Closed, TypeOK, UniqueInv
<1>9. CASE Raise
  BY <1>9, OthersKeep, NoParts DEF Raise
<1>10. CASE UNCHANGED vars
  BY <1>10, OthersKeep DEF vars, TypeOK, UniqueInv
<1> QED BY <1>1, <1>2, <1>3, <1>4, <1>5, <1>6, <1>7, <1>8, <1>9, <1>10 DEF Next, Runs

\* Items are written during a call only, and writing changes no other variable.
LEMMA WriteFrame ==
  ASSUME TypeOK, Write
  PROVE  UNCHANGED <<called, closed, more, pc, broken, closes>> /\ pc \in {"writing", "closing"}
<1>1. pc \in {"writing", "closing"}
  BY DEF Write, TypeOK
<1> QED BY <1>1 DEF Write, Simple, Array, AnyContainer, Postpone, Struct, Makes, Drops

\* The progress of the calls.
Progress ==
  /\ closed \in BOOLEAN /\ broken \in BOOLEAN /\ closes \in 0..Closes
  /\ called \in Nat /\ called <= Len(callbacks)
  /\ pc \in Steps /\ (pc \notin {"writing", "closing"} => todo = <<>>)
  /\ more \in Seq(Objects)

LEMMA StepProgress ==
  ASSUME TypeOK, [Next]_vars, Keeps
  PROVE  Progress'
<1>1. Progress /\ Len(callbacks) \in Nat /\ Closes \in Nat
  BY LenProperties, MessagesAssumption DEF TypeOK, Progress
<1>2. Len(callbacks') \in Nat /\ Len(callbacks') >= Len(callbacks)
  BY LenProperties DEF Keeps
<1>3. CASE Serialize
  BY <1>1, <1>3 DEF Serialize, Progress, Steps
<1>4. CASE SerializeHeader
  <2>1. more' \in Seq(Objects)
    BY <1>1, <1>4, HeadTailProperties DEF SerializeHeader, Progress
  <2> QED BY <1>1, <1>4, <2>1 DEF SerializeHeader, Progress, Steps
<1>5. CASE Close
  BY <1>1, <1>5 DEF Close, Progress, Steps
<1>6. CASE Write
  BY <1>1, <1>2, <1>6, WriteFrame DEF Progress
<1>7. CASE NotInlineButUnique
  BY <1>1, <1>7 DEF NotInlineButUnique, Progress, Steps
<1>8. CASE Serialized
  BY <1>1, <1>8 DEF Serialized, Progress, Steps
<1>9. CASE CallBack
  <2>1. called' = called + 1 /\ called < Len(callbacks)
    BY <1>9 DEF CallBack, Advance
  <2> QED BY <1>1, <1>9, <2>1 DEF CallBack, Progress, Steps
<1>10. CASE Closed
  BY <1>1, <1>10 DEF Closed, Progress, Steps
<1>11. CASE Raise
  BY <1>1, <1>11 DEF Raise, Progress, Steps
<1>12. CASE UNCHANGED vars
  BY <1>1, <1>12 DEF vars, Progress
<1> QED BY <1>3, <1>4, <1>5, <1>6, <1>7, <1>8, <1>9, <1>10, <1>11, <1>12 DEF Next, Runs

LEMMA StepElements ==
  ASSUME TypeOK, Keeps
  PROVE  elements' \in Seq(Element)
<1>1. elements \in Seq(Element)
  BY DEF TypeOK
<1>2. \A e \in Element : Append(elements, e) \in Seq(Element)
  BY <1>1, AppendProperties
<1> QED BY <1>1, <1>2 DEF Keeps, AtMostOne

LEMMA StepType ==
  ASSUME TypeOK, UniqueInv, [Next]_vars
  PROVE  TypeOK' /\ UniqueInv'
<1>1. Keeps
  BY StepKeeps
<1>2. Progress' /\ elements' \in Seq(Element)
  BY <1>1, StepProgress, StepElements
<1> QED BY <1>1, <1>2 DEF Keeps, TypeOK, UniqueInv, Progress

LEMMA InitType == Init => TypeOK /\ UniqueInv
<1> SUFFICES ASSUME Init PROVE TypeOK /\ UniqueInv
  OBVIOUS
<1>1. message \in Messages /\ Closes \in Nat
  BY MessagesAssumption DEF Init
<1>2. more \in Seq(Objects)
  BY <1>1, MessageType DEF Init
<1>3. todo = <<>> /\ callbacks = <<>> /\ elements = <<>> /\ called = 0
  BY DEF Init
<1>4. elements \in Seq(Element) /\ called \in 0..Len(callbacks)
  BY <1>3
<1>5. UniqueInv /\ todo \in Seq(Item) /\ callbacks \in Seq(Item)
  BY <1>3, NoParts DEF UniqueInv
<1>6. memo \subseteq Objects /\ closed \in BOOLEAN /\ broken \in BOOLEAN
  BY DEF Init
<1>7. pc \in Steps /\ closes \in 0..Closes
  BY <1>1 DEF Init, Steps
<1> QED BY <1>1, <1>2, <1>3, <1>4, <1>5, <1>6, <1>7 DEF TypeOK

\* Every variable of the writer keeps its type, for any set of messages; in
\* particular close never runs past the callbacks, which grow while it runs.
THEOREM TypeCorrect == Spec => []TypeOK
<1>1. TypeOK /\ UniqueInv /\ [Next]_vars => TypeOK' /\ UniqueInv'
  BY StepType
<1> QED BY <1>1, InitType, PTL DEF Spec

------------------------------------------------------------------------------
\* Ids.

\* An element that is added has no id that is there already.
LEMMA StepIds ==
  ASSUME TypeOK, IdInv, IdsOnce, Keeps
  PROVE  IdInv' /\ IdsOnce'
<1>1. message' = message /\ memo \subseteq memo'
  BY DEF Keeps
<1>2. CASE elements' = elements
  BY <1>1, <1>2 DEF IdInv, IdsOnce, Kind
<1>3. CASE \E e \in Element : elements' = Append(elements, e) /\ NewId(e)
  <2>1. PICK e \in Element : elements' = Append(elements, e) /\ NewId(e)
    BY <1>3
  <2> DEFINE n == Len(elements)
  <2>2. n \in Nat /\ elements \in Seq(Element)
    BY LenProperties DEF TypeOK
  <2>3. Len(elements') = n + 1 /\ elements'[n + 1] = e
          /\ \A i \in 1..n : elements'[i] = elements[i]
    BY <2>1, <2>2, AppendProperties
  <2>4. IdInv'
    <3> SUFFICES ASSUME NEW i \in 1..(n + 1), elements'[i].id
                 PROVE  \/ elements'[i].obj \in memo'
                        \/ Kind(elements'[i].obj) # "struct" /\ elements'[i].root = "header"
      BY <1>1, <2>3 DEF IdInv, Kind
    <3>1. CASE i \in 1..n
      BY <1>1, <2>3, <3>1 DEF IdInv
    <3>2. CASE i = n + 1
      BY <2>1, <2>3, <3>2 DEF NewId
    <3> QED BY <2>2, <3>1, <3>2
  <2>5. IdsOnce'
    <3> SUFFICES ASSUME NEW i \in 1..(n + 1), NEW j \in 1..(n + 1), i < j,
                        elements'[i].id, elements'[j].id, elements'[i].obj = elements'[j].obj
                 PROVE  Kind(elements'[i].obj) # "struct"
                          /\ "header" \in {elements'[i].root, elements'[j].root}
      BY <1>1, <2>3 DEF IdsOnce, Kind
    <3>1. i \in 1..n /\ elements'[i] = elements[i]
      BY <2>2, <2>3
    <3>2. CASE j \in 1..n
      <4>1. elements'[j] = elements[j]
        BY <2>3, <3>2
      <4> QED BY <3>1, <3>2, <4>1 DEF IdsOnce
    <3>3. CASE j = n + 1
      <4>1. elements'[j] = e
        BY <2>3, <3>3
      <4>2. \/ elements[i].obj \in memo
            \/ Kind(elements[i].obj) # "struct" /\ elements[i].root = "header"
        BY <3>1 DEF IdInv
      <4> QED BY <2>1, <3>1, <4>1, <4>2 DEF NewId
    <3> QED BY <2>2, <3>2, <3>3
  <2> QED BY <2>4, <2>5
<1> QED BY <1>2, <1>3 DEF Keeps, AtMostOne

\* No id is given twice, whatever the message, however often writing raised and
\* the writer was closed again: the callbacks that ran find their objects Known.
THEOREM IdsOnceAlways == Spec => []IdsOnce
<1>1. Init => IInv
  BY InitType DEF Init, IInv, IdInv, IdsOnce
<1>2. IInv /\ [Next]_vars => IInv'
  BY StepType, StepKeeps, StepIds DEF IInv
<1>3. IInv => IdsOnce
  BY DEF IInv
<1> QED BY <1>1, <1>2, <1>3, PTL DEF Spec

------------------------------------------------------------------------------
\* Hrefs.

\* The object has an element with its content and an id.
Answered(o) ==
  \E j \in 1..Len(elements) :
    elements[j].obj = o /\ elements[j].form = "content" /\ elements[j].id

\* It has one after the step.
Gains(o) ==
  \E j \in 1..Len(elements') :
    elements'[j].obj = o /\ elements'[j].form = "content" /\ elements'[j].id

\* An object that HrefsResolve speaks of and whose typecode writes hrefs.
Referable(o) ==
  /\ o \notin message.none
  /\ \/ Kind(o) = "simple"
     \/ Kind(o) = "array" /\ Mutable(o)
     \/ Kind(o) = "struct" /\ ~IsInline(o)

\* The object is among the items that a callback has to write.
Holds(items, o) == \E k \in 1..Len(items) : items[k].obj = o /\ items[k].late
Listed(o) ==
  \E k \in 1..Len(callbacks) :
    callbacks[k].obj = o /\ (pc \in {"closing", "returned"} => k > called)

\* The content of a structure is still to come.
Owed(o) == Kind(o) = "struct" /\ (Holds(todo, o) \/ Listed(o))

LateInv == \A k \in 1..Len(callbacks) : callbacks[k].late

\* As long as nothing was raised, a Known object was written with its id, and
\* the object of an href was too, or will be by a callback.
RememberedInv == ~broken => \A o \in memo : Referable(o) => Answered(o)
HrefInv ==
  ~broken =>
    \A i \in 1..Len(elements) :
      LET o == elements[i].obj IN
      elements[i].form = "href" /\ o \notin message.none /\ (Kind(o) = "array" => Mutable(o)) =>
        Referable(o) /\ (Answered(o) \/ Owed(o))

ReferInv == LateInv /\ RememberedInv /\ HrefInv

\* An item that a callback has to write is at the head or behind it.
LEMMA HoldsHead ==
  ASSUME NEW s \in Seq(Item), s # <<>>, NEW o, Holds(s, o)
  PROVE  (Head(s).obj = o /\ Head(s).late) \/ Holds(Tail(s), o)
<1>1. PICK k \in 1..Len(s) : s[k].obj = o /\ s[k].late
  BY DEF Holds
<1>2. Head(s) = s[1] /\ Len(s) \in Nat \ {0}
  BY EmptySeq, LenProperties
<1>3. CASE k = 1
  BY <1>1, <1>2, <1>3
<1>4. CASE k # 1
  <2>1. Len(Tail(s)) = Len(s) - 1 /\ \A i \in 1..Len(Tail(s)) : Tail(s)[i] = s[i + 1]
    BY HeadTailProperties
  <2>2. k - 1 \in 1..Len(Tail(s)) /\ (k - 1) + 1 = k
    BY <1>2, <1>4, <2>1
  <2>3. Tail(s)[k - 1] = s[k]
    BY <2>1, <2>2
  <2> QED BY <1>1, <2>2, <2>3 DEF Holds
<1> QED BY <1>3, <1>4

\* Items put before it leave it where it is.
LEMMA HoldsBehind ==
  ASSUME NEW s \in Seq(Item), NEW t \in Seq(Item), NEW o, Holds(t, o)
  PROVE  Holds(s \o t, o)
<1>1. PICK k \in 1..Len(t) : t[k].obj = o /\ t[k].late
  BY DEF Holds
<1>2. Len(s) \in Nat /\ Len(t) \in Nat /\ Len(s \o t) = Len(s) + Len(t)
  BY ConcatProperties, LenProperties
<1>3. \A i \in 1..Len(s \o t) : (s \o t)[i] = IF i <= Len(s) THEN s[i] ELSE t[i - Len(s)]
  BY ConcatProperties
<1>4. Len(s) + k \in 1..Len(s \o t) /\ ~(Len(s) + k <= Len(s)) /\ (Len(s) + k) - Len(s) = k
  BY <1>2
<1>5. (s \o t)[Len(s) + k] = t[k]
  BY <1>3, <1>4
<1> QED BY <1>1, <1>4, <1>5 DEF Holds

\* What writing the item at the head of todo does, as far as hrefs go: what
\* was written, listed or held stays; the object becomes Known only with an
\* element that has its content and id; an href is made only to an object that
\* is Known or with a callback; and a callback leaves its object Known or written.
Answers ==
  /\ UNCHANGED <<message, called, pc, broken>>
  /\ \A o : Answered(o) => Gains(o)
  /\ \A o : Holds(Tail(todo), o) => Holds(todo', o)
  /\ \A k \in 1..Len(callbacks) : k \in 1..Len(callbacks') /\ callbacks'[k] = callbacks[k]
  /\ LateInv'
  /\ memo' \subseteq memo \cup {It.obj}
  /\ It.obj \in memo' /\ It.obj \notin memo /\ Referable(It.obj) => Gains(It.obj)
  /\ \A i \in 1..Len(elements') :
       \/ i \in 1..Len(elements) /\ elements'[i] = elements[i]
       \/ /\ elements'[i].obj = It.obj
          /\ elements'[i].form = "href" /\ ~Nil /\ (Tc.kind = "array" => Tc.mutable) =>
               /\ Referable(It.obj)
               /\ \/ It.obj \in memo
                  \/ /\ Tc.kind = "struct" /\ Len(callbacks') > Len(callbacks)
                     /\ callbacks'[Len(callbacks')].obj = It.obj
  /\ It.late /\ Tc.kind = "struct" /\ Referable(It.obj) => It.obj \in memo \/ Gains(It.obj)

\* The elements there are stay, and the new one is the last.
LEMMA AppendsElements ==
  ASSUME TypeOK, UniqueInv, todo # <<>>,
         NEW form \in {"content", "href", "nil"}, NEW id \in BOOLEAN, Appends(form, id)
  PROVE  /\ \A o : Answered(o) => Gains(o)
         /\ \A i \in 1..Len(elements') :
              \/ i \in 1..Len(elements) /\ elements'[i] = elements[i]
              \/ elements'[i].obj = It.obj /\ elements'[i].form = form
         /\ form = "content" /\ id => Gains(It.obj)
<1> DEFINE e == [obj |-> It.obj, root |-> It.root, parent |-> It.parent,
                 form |-> form, id |-> id, late |-> It.late]
           n == Len(elements)
<1>1. e \in Element
  BY ItType DEF Item, Element
<1>2. n \in Nat /\ elements \in Seq(Element) /\ elements' = Append(elements, e)
  BY LenProperties DEF TypeOK, Appends
<1>3. e.obj = It.obj /\ e.form = form /\ e.id = id
  OBVIOUS
<1> HIDE DEF e
<1>4. /\ Len(elements') = n + 1 /\ elements'[n + 1] = e
      /\ \A i \in 1..n : elements'[i] = elements[i]
  BY <1>1, <1>2, AppendProperties
<1>5. \A i \in 1..Len(elements') :
        \/ i \in 1..n /\ elements'[i] = elements[i]
        \/ elements'[i].obj = It.obj /\ elements'[i].form = form
  BY <1>2, <1>3, <1>4
<1>6. \A i \in 1..n : i \in 1..Len(elements')
  BY <1>2, <1>4
<1>7. \A o : Answered(o) => Gains(o)
  BY <1>4, <1>6 DEF Answered, Gains
<1>8. n + 1 \in 1..Len(elements')
  BY <1>2, <1>4
<1>9. form = "content" /\ id => Gains(It.obj)
  BY <1>3, <1>4, <1>8 DEF Gains
<1> QED BY <1>5, <1>7, <1>9

LEMMA MakesElements ==
  ASSUME TypeOK, UniqueInv, todo # <<>>,
         NEW form \in {"content", "href", "nil"}, NEW id \in BOOLEAN,
         NEW parts \in Seq(Item), Makes(form, id, parts)
  PROVE  /\ UNCHANGED <<message, called, pc, broken>>
         /\ \A o : Answered(o) => Gains(o)
         /\ \A o : Holds(Tail(todo), o) => Holds(todo', o)
         /\ \A i \in 1..Len(elements') :
              \/ i \in 1..Len(elements) /\ elements'[i] = elements[i]
              \/ elements'[i].obj = It.obj /\ elements'[i].form = form
         /\ form = "content" /\ id => Gains(It.obj)
<1>1. /\ Appends(form, id) /\ todo' = parts \o Tail(todo)
      /\ UNCHANGED <<message, called, pc, broken>>
  BY DEF Makes
<1>2. Tail(todo) \in Seq(Item)
  BY ItType
<1>3. \A o : Holds(Tail(todo), o) => Holds(todo', o)
  BY <1>1, <1>2, HoldsBehind
<1> QED BY <1>1, <1>3, AppendsElements

\* The object that the item at the head of todo is for.
LEMMA ItReferable ==
  ASSUME TypeOK, UniqueInv, todo # <<>>
  PROVE  /\ Referable(It.obj) <=>
              /\ ~Nil
              /\ \/ Tc.kind = "simple"
                 \/ Tc.kind = "array" /\ Tc.mutable
                 \/ Tc.kind = "struct" /\ ~InPlace
         /\ Tc.mutable \in BOOLEAN /\ Tc.unique \in BOOLEAN /\ Tc.inline \in BOOLEAN
         /\ It.late \in BOOLEAN /\ It.unique \in BOOLEAN
         /\ InPlace \in BOOLEAN /\ (Tc.mutable => InPlace)
<1>1. /\ Tc.mutable \in BOOLEAN /\ Tc.unique \in BOOLEAN /\ Tc.inline \in BOOLEAN
      /\ It.late \in BOOLEAN /\ It.unique \in BOOLEAN
  BY ItType DEF Typecode, Item
<1> QED BY <1>1 DEF Referable, Kind, Mutable, IsInline, InPlace, Tc, Nil

LEMMA DropsAnswers ==
  ASSUME TypeOK, UniqueInv, LateInv, todo # <<>>, Drops, Known
  PROVE  Answers
<1>1. UNCHANGED <<message, called, pc, broken, elements, memo, callbacks>> /\ todo' = Tail(todo)
  BY DEF Drops
<1> QED BY <1>1 DEF Answers, Answered, Gains, Holds, LateInv, Known

\* Callbacks that do not change.
LEMMA SameCallbacks ==
  ASSUME LateInv, UNCHANGED callbacks
  PROVE  /\ \A k \in 1..Len(callbacks) : k \in 1..Len(callbacks') /\ callbacks'[k] = callbacks[k]
         /\ LateInv'
BY DEF LateInv

LEMMA SimpleAnswers ==
  ASSUME TypeOK, UniqueInv, LateInv, todo # <<>>, Simple
  PROVE  Answers
<1>1. Tc.kind = "simple" /\ UNCHANGED callbacks
  BY DEF Simple
<1>2. PICK form \in {"content", "href", "nil"}, id \in BOOLEAN :
        /\ Makes(form, id, <<>>)
        /\ form = "href" => ~Nil /\ It.obj \in memo
        /\ \/ memo' = memo
           \/ memo' = memo \cup {It.obj} /\ form = "content" /\ id
  BY ItReferable DEF Simple, Shared, Known, Remember
<1> QED BY <1>1, <1>2, NoParts, MakesElements, SameCallbacks, ItReferable DEF Answers

LEMMA ArrayAnswers ==
  ASSUME TypeOK, UniqueInv, LateInv, todo # <<>>, Array
  PROVE  Answers
<1>1. CASE ~Tc.mutable /\ Known
  BY <1>1, DropsAnswers DEF Array
<1>2. CASE ~(~Tc.mutable /\ Known)
  <2>1. Tc.kind = "array" /\ UNCHANGED callbacks
    BY <1>2 DEF Array
  <2>2. Parts(FALSE) \in Seq(Item) /\ <<>> \in Seq(Item)
    BY PartsType, NoParts
  <2>3. PICK form \in {"content", "href", "nil"}, id \in BOOLEAN, parts \in {<<>>, Parts(FALSE)} :
          /\ Makes(form, id, parts)
          /\ form = "href" /\ Tc.mutable => It.obj \in memo
          /\ memo' \subseteq memo \cup {It.obj}
          /\ It.obj \in memo' /\ It.obj \notin memo /\ Tc.mutable => form = "content" /\ id
    BY <1>2, ItReferable DEF Array, Shared, Known, Remember
  <2> QED BY <2>1, <2>2, <2>3, MakesElements, SameCallbacks, ItReferable DEF Answers
<1> QED BY <1>1, <1>2

LEMMA AnyContainerAnswers ==
  ASSUME TypeOK, UniqueInv, LateInv, todo # <<>>, AnyContainer
  PROVE  Answers
<1>1. Parts(It.unique) \in Seq(Item) /\ <<>> \in Seq(Item)
  BY PartsType, NoParts, ItReferable
<1>2. PICK form \in {"content", "nil"}, parts \in {<<>>, Parts(It.unique)} :
        Makes(form, FALSE, parts)
  BY DEF AnyContainer
<1>3. UNCHANGED <<memo, callbacks>> /\ Tc.kind = "any"
  BY DEF AnyContainer
<1> QED BY <1>1, <1>2, <1>3, MakesElements, SameCallbacks DEF Answers

\* The href comes with its callback.
LEMMA PostponeAnswers ==
  ASSUME TypeOK, UniqueInv, LateInv, todo # <<>>, Postpone
  PROVE  Answers
<1> DEFINE c == ItemFor(It.obj, It.root, It.parent, FALSE, TRUE)
           n == Len(callbacks)
<1>1. c \in Item /\ c.obj = It.obj /\ c.late
  BY ItType DEF ItemFor, Item
<1>2. callbacks \in Seq(Item) /\ callbacks' = Append(callbacks, c) /\ n \in Nat
  BY LenProperties DEF Postpone, TypeOK
<1> HIDE DEF c
<1>3. /\ Len(callbacks') = n + 1 /\ callbacks'[n + 1] = c
      /\ \A k \in 1..n : callbacks'[k] = callbacks[k]
  BY <1>1, <1>2, AppendProperties
<1>4. \A k \in 1..n : k \in 1..Len(callbacks')
  BY <1>2, <1>3
<1>5. \A k \in 1..Len(callbacks') : k \in 1..n \/ k = n + 1
  BY <1>2, <1>3
<1>6. LateInv'
  BY <1>1, <1>3, <1>5 DEF LateInv
<1>7. Len(callbacks') > n /\ callbacks'[Len(callbacks')].obj = It.obj
  BY <1>1, <1>2, <1>3
<1>8. /\ Makes("href", FALSE, <<>>) /\ memo' = memo
      /\ Tc.kind = "struct" /\ ~InPlace /\ ~It.late
  BY DEF Postpone
<1> QED BY <1>3, <1>4, <1>6, <1>7, <1>8, NoParts, MakesElements, ItReferable DEF Answers

LEMMA StructAnswers ==
  ASSUME TypeOK, UniqueInv, LateInv, todo # <<>>, Struct
  PROVE  Answers
<1>1. CASE ~Nil /\ Again
  BY <1>1, DropsAnswers DEF Struct, Again
<1>2. CASE ~(~Nil /\ Again)
  <2>1. Tc.kind = "struct" /\ UNCHANGED callbacks
    BY <1>2 DEF Struct
  <2>2. Parts(It.unique) \in Seq(Item) /\ <<>> \in Seq(Item)
    BY PartsType, NoParts, ItReferable
  <2>3. PICK form \in {"content", "nil"}, id \in BOOLEAN, parts \in {<<>>, Parts(It.unique)} :
          /\ Makes(form, id, parts)
          /\ memo' \subseteq memo \cup {It.obj}
          /\ ~Nil /\ ~InPlace => form = "content" /\ id
    BY <1>2, ItReferable DEF Struct, Again, Known, Remember
  <2> QED BY <2>1, <2>2, <2>3, MakesElements, SameCallbacks, ItReferable DEF Answers
<1> QED BY <1>1, <1>2

LEMMA WriteAnswers ==
  ASSUME TypeOK, UniqueInv, LateInv, Write
  PROVE  Answers /\ todo # <<>>
BY SimpleAnswers, ArrayAnswers, AnyContainerAnswers, PostponeAnswers, StructAnswers DEF Write

\* The item that is written is Known or gets its content; nothing else that is
\* owed is forgotten.
LEMMA WriteOwes ==
  ASSUME TypeOK, UniqueInv, RememberedInv, ~broken, todo # <<>>, Answers,
         NEW o, Referable(o), Owed(o)
  PROVE  Gains(o) \/ Owed(o)'
<1>1. Kind(o) = "struct" /\ message' = message /\ UNCHANGED <<pc, called>>
  BY DEF Answers, Owed
<1>2. CASE Listed(o)
  <2>1. Listed(o)'
    BY <1>1, <1>2 DEF Listed, Answers
  <2> QED BY <1>1, <2>1 DEF Owed, Kind
<1>3. CASE Holds(todo, o)
  <2>1. todo \in Seq(Item)
    BY DEF TypeOK
  <2>2. CASE It.obj = o /\ It.late
    <3>1. Tc.kind = "struct"
      BY <1>1, <2>2 DEF Kind, Tc
    <3>2. CASE It.obj \in memo
      BY <2>2, <3>2 DEF RememberedInv, Answers
    <3>3. CASE Gains(It.obj)
      BY <2>2, <3>3
    <3> QED BY <2>2, <3>1, <3>2, <3>3 DEF Answers
  <2>3. CASE Holds(Tail(todo), o)
    <3>1. Holds(todo', o)
      BY <2>3 DEF Answers
    <3>2. Holds(todo, o)'
      BY <3>1 DEF Holds
    <3> QED BY <1>1, <3>2 DEF Owed, Kind
  <2> QED BY <1>3, <2>1, <2>2, <2>3, HoldsHead DEF It
<1> QED BY <1>2, <1>3 DEF Owed

\* Writing an item keeps the invariant.
LEMMA WriteRefers ==
  ASSUME TypeOK, UniqueInv, ReferInv, todo # <<>>, Keeps, Answers
  PROVE  ReferInv'
<1>1. LateInv'
  BY DEF Answers
<1>2. /\ message' = message /\ broken' = broken
      /\ \A o : (Referable(o)' <=> Referable(o)) /\ (Kind(o)' = Kind(o)) /\ (Mutable(o)' = Mutable(o))
  BY DEF Answers, Referable, Kind, Mutable, IsInline
<1>3. \A o : (Answered(o)' <=> Gains(o)) /\ (Answered(o) => Gains(o))
  BY DEF Answers, Answered, Gains
<1>4. RememberedInv'
  <2> SUFFICES ASSUME ~broken, NEW o \in memo', Referable(o) PROVE Gains(o)
    BY <1>2, <1>3 DEF RememberedInv
  <2>1. CASE o \in memo
    BY <1>3, <2>1 DEF ReferInv, RememberedInv
  <2>2. CASE o \notin memo
    BY <2>2 DEF Answers
  <2> QED BY <2>1, <2>2
<1>5. HrefInv'
  <2> DEFINE Concerns(o) == o \notin message.none /\ (Kind(o) = "array" => Mutable(o))
  <2>1. SUFFICES ASSUME ~broken, NEW i \in 1..Len(elements'), elements'[i].form = "href",
                        NEW o, o = elements'[i].obj, Concerns(o)
                 PROVE  Referable(o) /\ (Gains(o) \/ Owed(o)')
    BY <1>2, <1>3 DEF HrefInv
  <2>2. CASE i \in 1..Len(elements) /\ elements'[i] = elements[i]
    <3>1. Referable(o) /\ (Answered(o) \/ Owed(o))
      BY <2>1, <2>2 DEF ReferInv, HrefInv
    <3> QED BY <1>3, <2>1, <3>1, WriteOwes DEF ReferInv
  <2>3. CASE ~(i \in 1..Len(elements) /\ elements'[i] = elements[i])
    <3>1. o = It.obj
      BY <2>1, <2>3 DEF Answers
    <3>2. ~Nil /\ (Tc.kind = "array" => Tc.mutable)
      BY <2>1, <3>1 DEF Nil, Tc, Kind, Mutable
    <3>3. /\ Referable(o)
          /\ \/ o \in memo
             \/ /\ Tc.kind = "struct" /\ Len(callbacks') > Len(callbacks)
                /\ callbacks'[Len(callbacks')].obj = o
      BY <2>1, <2>3, <3>1, <3>2 DEF Answers
    <3>4. CASE o \in memo
      BY <1>3, <2>1, <3>3, <3>4 DEF ReferInv, RememberedInv
    <3>5. CASE /\ Tc.kind = "struct" /\ Len(callbacks') > Len(callbacks)
               /\ callbacks'[Len(callbacks')].obj = o
      <4>1. Len(callbacks) \in Nat /\ called \in Nat /\ called <= Len(callbacks)
        BY LenProperties DEF TypeOK
      <4>3. Len(callbacks') \in Nat
        BY LenProperties DEF Keeps
      <4>4. called' = called /\ Kind(o) = "struct"
        BY <3>1, <3>5 DEF Answers, Kind, Tc
      <4>5. Len(callbacks') \in 1..Len(callbacks') /\ Len(callbacks') > called'
        BY <3>5, <4>1, <4>3, <4>4
      <4>6. Listed(o)'
        BY <3>5, <4>5 DEF Listed
      <4> QED BY <1>2, <3>3, <4>4, <4>6 DEF Owed
    <3> QED BY <3>3, <3>4, <3>5
  <2> QED BY <2>2, <2>3
<1> QED BY <1>1, <1>4, <1>5 DEF ReferInv

\* Steps between the items only pass on what is owed.
LEMMA CallOwes ==
  ASSUME TypeOK, ReferInv, UNCHANGED <<message, elements, memo, callbacks, broken>>,
         \A o : Owed(o) => Owed(o)'
  PROVE  ReferInv'
<1>1. /\ \A o : (Referable(o)' <=> Referable(o)) /\ (Kind(o)' = Kind(o)) /\ (Mutable(o)' = Mutable(o))
      /\ \A o : Answered(o)' <=> Answered(o)
  BY DEF Referable, Kind, Mutable, IsInline, Answered
<1>2. LateInv' /\ RememberedInv'
  BY <1>1 DEF ReferInv, LateInv, RememberedInv
<1>3. HrefInv'
  BY <1>1 DEF ReferInv, HrefInv
<1> QED BY <1>2, <1>3 DEF ReferInv

LEMMA StepRefers ==
  ASSUME TypeOK, UniqueInv, ReferInv, Keeps, [Next]_vars
  PROVE  ReferInv'
<1>1. CASE Write
  BY <1>1, WriteAnswers, WriteRefers DEF ReferInv
<1>2. CASE NotInlineButUnique \/ Raise
  <2>1. broken' = TRUE /\ callbacks' = callbacks
    BY <1>2 DEF NotInlineButUnique, Raise
  <2> QED BY <2>1 DEF ReferInv, LateInv, RememberedInv, HrefInv
<1>3. CASE Serialize \/ SerializeHeader \/ Close
  <2>1. /\ UNCHANGED <<message, elements, memo, callbacks, broken>>
        /\ todo = <<>> /\ pc \notin {"closing", "returned"}
        /\ pc' = "writing" \/ (pc' = "closing" /\ called' = 0)
    BY <1>3 DEF Serialize, SerializeHeader, Close, TypeOK
  <2>2. \A o : ~Holds(todo, o)
    BY <2>1 DEF Holds
  <2>3. \A o : Listed(o) => Listed(o)'
    BY <2>1 DEF Listed
  <2>4. \A o : Owed(o) => Owed(o)'
    BY <2>1, <2>2, <2>3 DEF Owed, Kind
  <2> QED BY <2>1, <2>4, CallOwes
<1>4. CASE Serialized \/ Closed
  <2>1. /\ UNCHANGED <<message, elements, memo, callbacks, broken, todo, called>>
        /\ pc' = "returned" => pc = "closing"
        /\ pc' # "closing"
    BY <1>4 DEF Serialized, Closed
  <2>2. \A o : Owed(o) => Owed(o)'
    BY <2>1 DEF Owed, Holds, Listed, Kind
  <2> QED BY <2>1, <2>2, CallOwes
<1>5. CASE CallBack
  <2>1. /\ UNCHANGED <<message, elements, memo, callbacks, broken, pc>>
        /\ todo = <<>> /\ pc = "closing" /\ called' = called + 1
        /\ todo' = <<callbacks[called + 1]>>
        /\ called \in Nat /\ Len(callbacks) \in Nat
    BY <1>5, LenProperties DEF CallBack, Advance, TypeOK
  <2>2. \A o : ~Holds(todo, o)
    BY <2>1 DEF Holds
  <2>3. ASSUME NEW o, Listed(o) PROVE Listed(o)' \/ Holds(todo, o)'
    <3>1. PICK k \in 1..Len(callbacks) : callbacks[k].obj = o /\ k > called
      BY <2>1, <2>3 DEF Listed
    <3>2. CASE k > called + 1
      BY <2>1, <3>1, <3>2 DEF Listed
    <3>3. CASE k = called + 1
      <4>1. callbacks[k].late
        BY <3>1 DEF ReferInv, LateInv
      <4>2. Len(todo') = 1 /\ todo'[1] = callbacks[k]
        BY <2>1, <3>3
      <4> QED BY <3>1, <4>1, <4>2 DEF Holds
    <3> QED BY <2>1, <3>1, <3>2, <3>3
  <2>4. \A o : Owed(o) => Owed(o)'
    BY <2>1, <2>2, <2>3 DEF Owed, Kind
  <2> QED BY <2>1, <2>4, CallOwes
<1>6. CASE UNCHANGED vars
  <2>1. \A o : Owed(o) => Owed(o)'
    BY <1>6 DEF vars, Owed, Holds, Listed, Kind
  <2> QED BY <1>6, <2>1, CallOwes DEF vars
<1> QED BY <1>1, <1>2, <1>3, <1>4, <1>5, <1>6 DEF Next, Runs

\* Every href of a finished document leads to its object's element, for all
\* messages: when the close has come to the end of the callbacks, nothing is
\* owed any more.
THEOREM HrefsAlwaysResolve == Spec => []HrefsResolve
<1> DEFINE Inv == TypeOK /\ UniqueInv /\ ReferInv /\ (pc = "returned" => called = Len(callbacks))
<1>1. Init => Inv
  <2> SUFFICES ASSUME Init PROVE ReferInv /\ pc # "returned"
    BY InitType
  <2> QED BY DEF Init, ReferInv, LateInv, RememberedInv, HrefInv
<1>2. Inv /\ [Next]_vars => Inv'
  <2> SUFFICES ASSUME Inv, [Next]_vars PROVE Inv'
    OBVIOUS
  <2>1. Keeps /\ TypeOK' /\ UniqueInv'
    BY StepKeeps, StepType
  <2>2. ReferInv'
    BY <2>1, StepRefers
  <2>3. ASSUME pc' = "returned" PROVE called' = Len(callbacks)'
    <3>1. Closed \/ UNCHANGED <<pc, called, callbacks>>
      <4>1. ~Write
        BY <2>3, WriteFrame
      <4> QED BY <2>3, <4>1 DEF Next, Runs, Serialize, SerializeHeader, Close, NotInlineButUnique,
                               Serialized, CallBack, Raise, vars
    <3> QED BY <2>3, <3>1 DEF Closed
  <2> QED BY <2>1, <2>2, <2>3
<1>3. Inv => HrefsResolve
  <2> SUFFICES ASSUME Inv, pc = "returned", ~broken, NEW i \in 1..Len(elements),
                      NEW o, o = elements[i].obj, elements[i].form = "href",
                      o \notin message.none, Kind(o) = "array" => Mutable(o)
               PROVE  Answered(o)
    BY DEF HrefsResolve, Written, Answered
  <2>1. Answered(o) \/ Owed(o)
    BY DEF ReferInv, HrefInv
  <2>2. todo = <<>> /\ called = Len(callbacks) /\ Len(callbacks) \in Nat
    BY LenProperties DEF TypeOK
  <2>3. ~Holds(todo, o) /\ ~Listed(o)
    BY <2>2 DEF Holds, Listed
  <2> QED BY <2>1, <2>3 DEF Owed
<1> QED BY <1>1, <1>2, <1>3, PTL DEF Spec

------------------------------------------------------------------------------
\* The order of parts.

\* The document and what is still to be written, in one line.
Place(els, items, p) == IF p <= Len(els) THEN els[p] ELSE items[p - Len(els)]
Leaves(x, i) == x.parent = i /\ ~x.late /\ ~PassedOver(x.obj)
Filled(els, items, i) == {p \in 1..(Len(els) + Len(items)) : Leaves(Place(els, items, p), i)}

\* The parts that are due have their places in the line, in their order.
Lines(place, els, items, i, parts) ==
  /\ place \in [Due(parts) -> Filled(els, items, i)]
  /\ \A k \in Due(parts) : Place(els, items, place[k]).obj = parts[k]
  /\ \A k, m \in Due(parts) : k < m => place[k] < place[m]
  /\ \A p \in Filled(els, items, i) : \E k \in Due(parts) : place[k] = p
InLine(els, items, i, parts) == \E place \in [Due(parts) -> Filled(els, items, i)] : Lines(place, els, items, i, parts)

LineInv ==
  ~broken =>
    \A i \in 1..Len(elements) :
      elements[i].form = "content" => InLine(elements, todo, i, message.parts[elements[i].obj])

\* Nothing is written below an element that is not there.
BelowInv ==
  ~broken =>
    /\ \A p \in 1..Len(elements) : elements[p].late \/ elements[p].parent <= Len(elements)
    /\ \A p \in 1..Len(todo) : todo[p].late \/ todo[p].parent <= Len(elements)

\* A line whose places move, and keep their order, stays in order.
LEMMA LineMoves ==
  ASSUME NEW els, NEW items, NEW els2, NEW items2, NEW i, NEW parts,
         Len(els) \in Nat, Len(items) \in Nat, Len(els2) \in Nat, Len(items2) \in Nat,
         NEW s \in [Filled(els, items, i) -> Filled(els2, items2, i)],
         \A p \in Filled(els, items, i) : Place(els2, items2, s[p]).obj = Place(els, items, p).obj,
         \A p, q \in Filled(els, items, i) : p < q => s[p] < s[q],
         \A p \in Filled(els2, items2, i) : \E q \in Filled(els, items, i) : s[q] = p,
         InLine(els, items, i, parts)
  PROVE  InLine(els2, items2, i, parts)
<1> DEFINE before == Filled(els, items, i)
           after == Filled(els2, items2, i)
           due == Due(parts)
<1>1. PICK place \in [due -> before] : Lines(place, els, items, i, parts)
  BY DEF InLine
<1> DEFINE place2 == [k \in due |-> s[place[k]]]
<1>2. place2 \in [due -> after] /\ \A k \in due : place2[k] = s[place[k]] /\ place[k] \in before
  OBVIOUS
<1>3. \A k \in due : Place(els2, items2, place2[k]).obj = parts[k]
  BY <1>1, <1>2 DEF Lines
<1>4. \A k, m \in due : k < m => place2[k] < place2[m]
  BY <1>1, <1>2 DEF Lines
<1>5. \A p \in after : \E k \in due : place2[k] = p
  BY <1>1, <1>2 DEF Lines
<1> HIDE DEF place2
<1>6. Lines(place2, els2, items2, i, parts)
  BY <1>2, <1>3, <1>4, <1>5 DEF Lines
<1> QED BY <1>2, <1>6 DEF InLine

\* An item at the head that leaves nothing is taken away.
LEMMA LineDrops ==
  ASSUME NEW els, NEW items \in Seq(Item), NEW i, NEW parts,
         Len(els) \in Nat, items # <<>>, Head(items).late \/ PassedOver(Head(items).obj),
         InLine(els, items, i, parts)
  PROVE  InLine(els, Tail(items), i, parts)
<1> DEFINE n == Len(els)
           items2 == Tail(items)
           before == Filled(els, items, i)
           after == Filled(els, items2, i)
           s == [p \in before |-> IF p <= n THEN p ELSE p - 1]
<1>1. /\ Head(items) = items[1] /\ Len(items) \in Nat \ {0} /\ Len(items2) = Len(items) - 1
      /\ \A k \in 1..Len(items2) : items2[k] = items[k + 1]
  BY EmptySeq, LenProperties, HeadTailProperties
<1> HIDE DEF items2
<1>2. \A p \in 1..n : Place(els, items, p) = els[p] /\ Place(els, items2, p) = els[p]
  BY DEF Place
<1>3. \A p \in (n + 2)..(n + Len(items)) :
        /\ p - 1 \in (n + 1)..(n + Len(items2)) /\ Place(els, items2, p - 1) = Place(els, items, p)
  <2> SUFFICES ASSUME NEW p \in (n + 2)..(n + Len(items))
               PROVE  /\ p - 1 \in (n + 1)..(n + Len(items2))
                      /\ Place(els, items2, p - 1) = Place(els, items, p)
    OBVIOUS
  <2>1. p - 1 \in (n + 1)..(n + Len(items2)) /\ (p - 1) - n \in 1..Len(items2) /\ ((p - 1) - n) + 1 = p - n
    BY <1>1
  <2>2. items2[(p - 1) - n] = items[p - n]
    BY <1>1, <2>1
  <2> QED BY <2>1, <2>2 DEF Place
<1>4. n + 1 \notin before
  <2>1. Place(els, items, n + 1) = Head(items)
    BY <1>1 DEF Place
  <2> QED BY <2>1 DEF Filled, Leaves
<1>5. \A p \in before : p \in 1..n \/ p \in (n + 2)..(n + Len(items))
  BY <1>1, <1>4 DEF Filled
<1>6. \A p \in before :
        /\ s[p] \in after /\ Place(els, items2, s[p]).obj = Place(els, items, p).obj
  <2> SUFFICES ASSUME NEW p \in before
               PROVE  s[p] \in after /\ Place(els, items2, s[p]).obj = Place(els, items, p).obj
    OBVIOUS
  <2>1. Leaves(Place(els, items, p), i)
    BY DEF Filled
  <2>2. CASE p \in 1..n
    <3>1. s[p] = p /\ p \in 1..(n + Len(items2))
      BY <1>1, <2>2
    <3> QED BY <1>2, <2>1, <2>2, <3>1 DEF Filled
  <2>3. CASE p \in (n + 2)..(n + Len(items))
    <3>1. s[p] = p - 1 /\ p - 1 \in 1..(n + Len(items2))
      BY <1>1, <1>3, <2>3
    <3> QED BY <1>3, <2>1, <2>3, <3>1 DEF Filled
  <2> QED BY <1>5, <2>2, <2>3
<1>7. \A p, q \in before : p < q => s[p] < s[q]
  BY <1>1, <1>5
<1>8. ASSUME NEW p \in after PROVE \E q \in before : s[q] = p
  <2>1. p \in 1..(n + Len(items2)) /\ Leaves(Place(els, items2, p), i)
    BY DEF Filled
  <2>2. CASE p \in 1..n
    <3>1. p \in before
      BY <1>1, <1>2, <2>1, <2>2 DEF Filled
    <3>2. s[p] = p
      BY <2>2, <3>1
    <3> QED BY <3>1, <3>2
  <2>3. CASE p \in (n + 1)..(n + Len(items2))
    <3>1. p + 1 \in (n + 2)..(n + Len(items)) /\ (p + 1) - 1 = p
      BY <1>1, <2>3
    <3>2. Place(els, items, p + 1) = Place(els, items2, p)
      BY <1>3, <3>1
    <3>3. p + 1 \in before
      BY <1>1, <2>1, <3>1, <3>2 DEF Filled
    <3>4. s[p + 1] = p
      BY <3>1, <3>3
    <3> QED BY <3>3, <3>4
  <2> QED BY <1>1, <2>1, <2>2, <2>3
<1>9. s \in [before -> after]
  BY <1>6
<1>10. Len(items2) \in Nat
  BY <1>1
<1> HIDE DEF s
<1>11. InLine(els, items2, i, parts)
  BY <1>1, <1>6, <1>7, <1>8, <1>9, <1>10, LineMoves
<1> QED BY <1>11 DEF items2

\* The item at the head becomes an element, and its parts come before the
\* others: what is below another element only moves.
LEMMA LineMakes ==
  ASSUME NEW els \in Seq(Element), NEW items \in Seq(Item), NEW new \in Seq(Item), NEW e \in Element,
         NEW i \in 1..Len(els), NEW parts,
         items # <<>>, e.obj = Head(items).obj, e.parent = Head(items).parent, e.late = Head(items).late,
         \A k \in 1..Len(new) : new[k].parent = Len(els) + 1,
         InLine(els, items, i, parts)
  PROVE  InLine(Append(els, e), new \o Tail(items), i, parts)
<1> DEFINE n == Len(els)
           d == Len(new)
           els2 == Append(els, e)
           items2 == new \o Tail(items)
           before == Filled(els, items, i)
           after == Filled(els2, items2, i)
           s == [p \in before |-> IF p <= n + 1 THEN p ELSE p + d]
<1>1. /\ Head(items) = items[1] /\ Len(items) \in Nat \ {0} /\ Len(Tail(items)) = Len(items) - 1
      /\ Tail(items) \in Seq(Item)
      /\ \A k \in 1..Len(Tail(items)) : Tail(items)[k] = items[k + 1]
  BY EmptySeq, LenProperties, HeadTailProperties
<1>2. n \in Nat /\ d \in Nat /\ i \in 1..n
  BY LenProperties
<1>3. Len(els2) = n + 1 /\ els2[n + 1] = e /\ \A p \in 1..n : els2[p] = els[p]
  BY <1>2, AppendProperties
<1>4. /\ Len(items2) = d + (Len(items) - 1)
      /\ \A k \in 1..d : items2[k] = new[k]
      /\ \A k \in 2..Len(items) : items2[d + k - 1] = items[k]
  <2>1. /\ Len(items2) = d + (Len(items) - 1)
        /\ \A k \in 1..Len(items2) : items2[k] = IF k <= d THEN new[k] ELSE Tail(items)[k - d]
    BY <1>1, ConcatProperties
  <2>2. \A k \in 1..d : items2[k] = new[k]
    BY <1>1, <1>2, <2>1
  <2>3. ASSUME NEW k \in 2..Len(items) PROVE items2[d + k - 1] = items[k]
    <3>1. d + k - 1 \in 1..Len(items2) /\ ~(d + k - 1 <= d) /\ (d + k - 1) - d = k - 1
      BY <1>1, <1>2, <2>1
    <3>2. k - 1 \in 1..Len(Tail(items)) /\ (k - 1) + 1 = k
      BY <1>1
    <3> QED BY <1>1, <2>1, <3>1, <3>2
  <2> QED BY <2>1, <2>2, <2>3
<1> HIDE DEF els2, items2
<1>5. \A p \in 1..n : Place(els, items, p) = els[p] /\ Place(els2, items2, p) = els[p]
  BY <1>2, <1>3 DEF Place
<1>6. Place(els, items, n + 1) = Head(items) /\ Place(els2, items2, n + 1) = e
  BY <1>1, <1>2, <1>3 DEF Place
<1>7. \A p \in (n + 2)..(n + Len(items)) : Place(els2, items2, p + d) = Place(els, items, p)
  <2> SUFFICES ASSUME NEW p \in (n + 2)..(n + Len(items))
               PROVE  Place(els2, items2, p + d) = Place(els, items, p)
    OBVIOUS
  <2>1. ~(p <= n) /\ ~(p + d <= n + 1) /\ p - n \in 2..Len(items) /\ (p + d) - (n + 1) = d + (p - n) - 1
    BY <1>1, <1>2
  <2>2. items2[(p + d) - (n + 1)] = items[p - n]
    BY <1>4, <2>1
  <2> QED BY <1>3, <2>1, <2>2 DEF Place
<1>8. \A p \in (n + 2)..(n + 1 + d) : ~Leaves(Place(els2, items2, p), i)
  <2> SUFFICES ASSUME NEW p \in (n + 2)..(n + 1 + d) PROVE ~Leaves(Place(els2, items2, p), i)
    OBVIOUS
  <2>1. ~(p <= n + 1) /\ p - (n + 1) \in 1..d
    BY <1>2
  <2>2. Place(els2, items2, p) = new[p - (n + 1)]
    BY <1>3, <1>4, <2>1 DEF Place
  <2> QED BY <1>2, <2>1, <2>2 DEF Leaves
<1>9. \A p \in before : p \in 1..n \/ p = n + 1 \/ p \in (n + 2)..(n + Len(items))
  <2> SUFFICES ASSUME NEW p \in before
               PROVE  p \in 1..n \/ p = n + 1 \/ p \in (n + 2)..(n + Len(items))
    OBVIOUS
  <2>1. p \in 1..(n + Len(items))
    BY DEF Filled
  <2>2. Len(items) \in Nat /\ n \in Nat
    BY <1>1, <1>2
  <2> HIDE DEF n
  <2> QED BY <2>1, <2>2
<1>10. \A p \in before :
         s[p] \in after /\ Place(els2, items2, s[p]).obj = Place(els, items, p).obj
  <2> SUFFICES ASSUME NEW p \in before
               PROVE  s[p] \in after /\ Place(els2, items2, s[p]).obj = Place(els, items, p).obj
    OBVIOUS
  <2>1. Leaves(Place(els, items, p), i)
    BY DEF Filled
  <2>2. CASE p \in 1..n
    <3>1. s[p] = p /\ p \in 1..(Len(els2) + Len(items2))
      BY <1>1, <1>2, <1>3, <1>4, <2>2
    <3> QED BY <1>5, <2>1, <2>2, <3>1 DEF Filled
  <2>3. CASE p = n + 1
    <3>1. s[p] = p /\ p \in 1..(Len(els2) + Len(items2))
      BY <1>1, <1>2, <1>3, <1>4, <2>3
    <3>2. Leaves(e, i)
      BY <1>6, <2>1, <2>3 DEF Leaves
    <3> QED BY <1>6, <2>3, <3>1, <3>2 DEF Filled
  <2>4. CASE p \in (n + 2)..(n + Len(items))
    <3>1. s[p] = p + d /\ p + d \in 1..(Len(els2) + Len(items2))
      BY <1>1, <1>2, <1>3, <1>4, <2>4
    <3> QED BY <1>7, <2>1, <2>4, <3>1 DEF Filled
  <2> QED BY <1>9, <2>2, <2>3, <2>4
<1>11. \A p, q \in before : p < q => s[p] < s[q]
  BY <1>1, <1>2, <1>9
<1>12. ASSUME NEW p \in after PROVE \E q \in before : s[q] = p
  <2>1. p \in 1..(Len(els2) + Len(items2)) /\ Leaves(Place(els2, items2, p), i)
    BY DEF Filled
  <2>2. CASE p \in 1..n
    <3>1. p \in before
      BY <1>1, <1>2, <1>5, <2>1, <2>2 DEF Filled
    <3>2. s[p] = p
      BY <1>2, <2>2, <3>1
    <3> QED BY <3>1, <3>2
  <2>3. CASE p = n + 1
    <3>1. Leaves(Head(items), i)
      BY <1>6, <2>1, <2>3 DEF Leaves
    <3>2. n + 1 \in before
      BY <1>1, <1>2, <1>6, <3>1 DEF Filled
    <3>3. s[n + 1] = p
      BY <1>2, <2>3, <3>2
    <3> QED BY <3>2, <3>3
  <2>4. CASE p \in (n + 2 + d)..(n + d + Len(items))
    <3> DEFINE q == p - d
    <3>1. q \in (n + 2)..(n + Len(items)) /\ q + d = p
      BY <1>1, <1>2, <2>4
    <3>2. Place(els, items, q) = Place(els2, items2, p)
      BY <1>7, <3>1
    <3>3. q \in before
      BY <1>1, <1>2, <2>1, <3>1, <3>2 DEF Filled
    <3>4. s[q] = p
      BY <1>2, <3>1, <3>3
    <3> QED BY <3>3, <3>4
  <2>5. p \in 1..n \/ p = n + 1 \/ p \in (n + 2)..(n + 1 + d) \/ p \in (n + 2 + d)..(n + d + Len(items))
    <3>1. Len(items) \in Nat \ {0} /\ p \in 1..(n + 1 + (d + (Len(items) - 1)))
      BY <1>1, <1>3, <1>4, <2>1
    <3>2. n \in Nat /\ d \in Nat
      BY <1>2
    <3> HIDE DEF n, d
    <3> QED BY <3>1, <3>2
  <2> QED BY <1>8, <2>1, <2>2, <2>3, <2>4, <2>5
<1>13. s \in [before -> after]
  BY <1>10
<1>14. Len(items2) \in Nat /\ Len(els2) \in Nat /\ Len(items) \in Nat
  BY <1>1, <1>2, <1>3, <1>4
<1> HIDE DEF s
<1>15. InLine(els2, items2, i, parts)
  BY <1>2, <1>10, <1>11, <1>12, <1>13, <1>14, LineMoves
<1> QED BY <1>15 DEF els2, items2

\* Items in front of others.
LEMMA ItemsBefore ==
  ASSUME NEW s \in Seq(Item), NEW t \in Seq(Item)
  PROVE  /\ Len(s \o t) = Len(s) + Len(t)
         /\ \A k \in 1..(Len(s) + Len(t)) : (s \o t)[k] = IF k <= Len(s) THEN s[k] ELSE t[k - Len(s)]
BY ConcatProperties

\* An element with its object's content has all parts still before it.
LEMMA LineStarts ==
  ASSUME NEW els \in Seq(Element), NEW items \in Seq(Item), NEW e \in Element,
         NEW parts \in Seq(Objects), NEW root, NEW unique,
         Items(parts, root, Len(els) + 1, unique) \in Seq(Item),
         items # <<>>,
         \A p \in 1..Len(els) : els[p].late \/ els[p].parent <= Len(els),
         e.late \/ e.parent <= Len(els),
         \A p \in 1..Len(items) : items[p].late \/ items[p].parent <= Len(els)
  PROVE  InLine(Append(els, e), Items(parts, root, Len(els) + 1, unique) \o Tail(items), Len(els) + 1, parts)
<1> DEFINE n == Len(els)
           d == Len(parts)
           new == Items(parts, root, n + 1, unique)
           els2 == Append(els, e)
           items2 == new \o Tail(items)
           after == Filled(els2, items2, n + 1)
           place == [k \in Due(parts) |-> n + 1 + k]
<1>1. /\ Len(items) \in Nat \ {0} /\ Len(Tail(items)) = Len(items) - 1
      /\ Tail(items) \in Seq(Item)
      /\ \A k \in 1..Len(Tail(items)) : Tail(items)[k] = items[k + 1]
  BY EmptySeq, LenProperties, HeadTailProperties
<1>2. n \in Nat /\ d \in Nat /\ DOMAIN parts = 1..d
  BY LenProperties
<1>3. Len(els2) = n + 1 /\ els2[n + 1] = e /\ \A p \in 1..n : els2[p] = els[p]
  BY <1>2, AppendProperties
<1>4. /\ Len(new) = d
      /\ \A k \in 1..d : new[k].obj = parts[k] /\ new[k].parent = n + 1 /\ ~new[k].late
  <2>1. DOMAIN new = 1..d /\ \A k \in 1..d : new[k].obj = parts[k] /\ new[k].parent = n + 1 /\ ~new[k].late
    BY DEF Items, ItemFor
  <2>2. DOMAIN new = 1..Len(new) /\ Len(new) \in Nat
    BY LenProperties
  <2>3. Len(new) = d
    BY <1>2, <2>1, <2>2
  <2> QED BY <2>1, <2>3
<1>14. new \in Seq(Item)
  OBVIOUS
<1> HIDE DEF new
<1>5. /\ Len(items2) = d + (Len(items) - 1)
      /\ \A k \in 1..d : items2[k] = new[k]
      /\ \A k \in (d + 1)..Len(items2) : items2[k] = items[k - d + 1] /\ k - d + 1 \in 1..Len(items)
  <2>1. /\ Len(items2) = d + (Len(items) - 1)
        /\ \A k \in 1..Len(items2) : items2[k] = IF k <= d THEN new[k] ELSE Tail(items)[k - d]
    <3> DEFINE rest == Tail(items)
    <3>1. rest \in Seq(Item) /\ Len(rest) = Len(items) - 1 /\ Len(new) = d
      BY <1>1, <1>4
    <3> HIDE DEF rest
    <3>2. /\ Len(new \o rest) = Len(new) + Len(rest)
          /\ \A k \in 1..(Len(new) + Len(rest)) :
               (new \o rest)[k] = IF k <= Len(new) THEN new[k] ELSE rest[k - Len(new)]
      BY <1>14, <3>1, ItemsBefore
    <3>3. Len(items2) = d + (Len(items) - 1)
      BY <3>1, <3>2 DEF rest
    <3>4. \A k \in 1..(Len(new) + Len(rest)) :
            items2[k] = IF k <= d THEN new[k] ELSE rest[k - d]
      BY <3>1, <3>2 DEF rest
    <3>5. Len(items2) = Len(new) + Len(rest)
      BY <3>1, <3>3
    <3> HIDE DEF items2
    <3> QED BY <3>3, <3>4, <3>5 DEF rest
  <2>2. \A k \in 1..d : items2[k] = new[k]
    BY <1>1, <1>2, <2>1
  <2>3. ASSUME NEW k \in (d + 1)..Len(items2)
        PROVE  items2[k] = items[k - d + 1] /\ k - d + 1 \in 1..Len(items)
    <3>1. k - d \in 1..Len(Tail(items)) /\ k \in 1..Len(items2) /\ ~(k <= d) /\ k - d + 1 \in 1..Len(items)
      BY <1>1, <1>2, <2>1
    <3>2. Tail(items)[k - d] = items[k - d + 1]
      BY <1>1, <3>1
    <3> QED BY <2>1, <3>1, <3>2
  <2> QED BY <2>1, <2>2, <2>3
<1> HIDE DEF els2, items2
<1>6. \A k \in 1..d : Place(els2, items2, n + 1 + k) = new[k] /\ n + 1 + k \in 1..(Len(els2) + Len(items2))
  <2> SUFFICES ASSUME NEW k \in 1..d
               PROVE  /\ Place(els2, items2, n + 1 + k) = new[k]
                      /\ n + 1 + k \in 1..(Len(els2) + Len(items2))
    OBVIOUS
  <2>1. ~(n + 1 + k <= n + 1) /\ (n + 1 + k) - (n + 1) = k
    BY <1>2
  <2>2. n + 1 + k \in 1..(Len(els2) + Len(items2))
    BY <1>1, <1>2, <1>3, <1>5
  <2> QED BY <1>3, <1>5, <2>1, <2>2 DEF Place
<1>7. ASSUME NEW p \in after
      PROVE  \E k \in 1..d : p = n + 1 + k
  <2>1. p \in 1..(Len(els2) + Len(items2)) /\ Leaves(Place(els2, items2, p), n + 1)
    BY <1>7 DEF Filled
  <2>2. ASSUME p \in 1..n PROVE FALSE
    <3>1. Place(els2, items2, p) = els[p]
      BY <1>2, <1>3, <2>2 DEF Place
    <3>2. ~els[p].late /\ els[p].parent = n + 1
      BY <2>1, <3>1 DEF Leaves
    <3> QED BY <1>2, <2>2, <3>2
  <2>3. ASSUME p = n + 1 PROVE FALSE
    <3>1. Place(els2, items2, p) = e
      BY <1>2, <1>3, <2>3 DEF Place
    <3>2. ~e.late /\ e.parent = n + 1
      BY <2>1, <3>1 DEF Leaves
    <3> QED BY <1>2, <3>2
  <2>4. ASSUME p \in (n + 2 + d)..(Len(els2) + Len(items2)) PROVE FALSE
    <3> DEFINE k == p - (n + 1)
    <3>1. ~(p <= n + 1) /\ k \in (d + 1)..Len(items2)
      BY <1>1, <1>2, <1>3, <1>5, <2>4
    <3>2. Place(els2, items2, p) = items[k - d + 1] /\ k - d + 1 \in 1..Len(items)
      BY <1>3, <1>5, <3>1 DEF Place
    <3> HIDE DEF k
    <3>3. ~items[k - d + 1].late /\ items[k - d + 1].parent = n + 1
      BY <2>1, <3>2 DEF Leaves
    <3> QED BY <1>2, <3>2, <3>3
  <2>5. p \in (n + 2)..(n + 1 + d)
    BY <1>1, <1>2, <1>3, <1>5, <2>1, <2>2, <2>3, <2>4
  <2>6. p - (n + 1) \in 1..d /\ p = n + 1 + (p - (n + 1))
    BY <1>2, <2>5
  <2> QED BY <2>6
<1>8. \A k \in 1..d : n + 1 + k \in after <=> k \in Due(parts)
  <2> SUFFICES ASSUME NEW k \in 1..d PROVE n + 1 + k \in after <=> k \in Due(parts)
    OBVIOUS
  <2>1. Leaves(new[k], n + 1) <=> ~PassedOver(parts[k])
    BY <1>4 DEF Leaves
  <2> QED BY <1>2, <1>6, <2>1 DEF Filled, Due
<1>9. Due(parts) \subseteq 1..d
  BY <1>2 DEF Due
<1>10. place \in [Due(parts) -> after] /\ \A k \in Due(parts) : place[k] = n + 1 + k
  BY <1>8, <1>9
<1>11. \A k \in Due(parts) : Place(els2, items2, place[k]).obj = parts[k]
  BY <1>4, <1>6, <1>9, <1>10
<1>12. \A k, m \in Due(parts) : k < m => place[k] < place[m]
  BY <1>2, <1>9, <1>10
<1>13. \A p \in after : \E k \in Due(parts) : place[k] = p
  BY <1>7, <1>8, <1>10
<1> HIDE DEF place
<1>15. InLine(els2, items2, n + 1, parts)
  BY <1>10, <1>11, <1>12, <1>13 DEF Lines, InLine
<1> QED BY <1>15 DEF els2, items2, new

\* Without items to write, or with others for the header and the body or of
\* callbacks, the line is the same below every element.
LEMMA LineWaits ==
  ASSUME NEW els \in Seq(Element), NEW items \in Seq(Item), NEW i \in 1..Len(els), NEW parts,
         \A k \in 1..Len(items) : items[k].late \/ items[k].parent = 0,
         InLine(els, <<>>, i, parts)
  PROVE  InLine(els, items, i, parts)
<1> DEFINE n == Len(els)
           before == Filled(els, <<>>, i)
           after == Filled(els, items, i)
           s == [p \in before |-> p]
<1>1. n \in Nat /\ Len(items) \in Nat /\ Len(<<>>) = 0
  BY LenProperties
<1>2. \A p \in 1..n : Place(els, <<>>, p) = els[p] /\ Place(els, items, p) = els[p]
  BY DEF Place
<1>3. before \subseteq 1..n
  BY <1>1 DEF Filled
<1>4. after \subseteq 1..n
  <2> SUFFICES ASSUME NEW p \in after, p \notin 1..n PROVE FALSE
    OBVIOUS
  <2>1. p \in 1..(n + Len(items)) /\ Leaves(Place(els, items, p), i)
    BY DEF Filled
  <2>2. ~(p <= n) /\ p - n \in 1..Len(items)
    BY <1>1, <2>1
  <2>3. Place(els, items, p) = items[p - n]
    BY <2>2 DEF Place
  <2> QED BY <1>1, <2>1, <2>2, <2>3 DEF Leaves
<1>5. \A p \in 1..n : p \in before <=> p \in after
  BY <1>1, <1>2 DEF Filled
<1>6. s \in [before -> after] /\ \A p \in before : s[p] = p /\ p \in 1..n
  BY <1>3, <1>5
<1>7. \A p \in after : \E q \in before : s[q] = p
  BY <1>4, <1>5, <1>6
<1>8. \A p \in before : Place(els, items, s[p]).obj = Place(els, <<>>, p).obj
  BY <1>2, <1>6
<1>9. \A p, q \in before : p < q => s[p] < s[q]
  BY <1>6
<1> HIDE DEF s
<1> QED BY <1>1, <1>6, <1>7, <1>8, <1>9, LineMoves

\* What writing an item does to the line: it is passed over, or leaves an
\* element, with content only together with all parts of its object.
Leaving ==
  \/ Drops /\ (It.late \/ PassedOver(It.obj))
  \/ \E form \in {"content", "href", "nil"}, id, unique \in BOOLEAN :
       /\ Makes(form, id, IF form = "content" THEN Parts(unique) ELSE <<>>)
       /\ unique => It.unique

LEMMA SimpleParts ==
  ASSUME TypeOK, UniqueInv, todo # <<>>, Tc.kind = "simple"
  PROVE  Parts(FALSE) = <<>>
<1>1. message.parts[It.obj] = <<>>
  BY ItType, MessagesAssumption DEF TypeOK, Tc
<1>2. Parts(FALSE) = [k \in 1..Len(<<>>) |-> ItemFor(<<>>[k], It.root, Len(elements) + 1, FALSE, FALSE)]
  BY <1>1 DEF Parts, Items
<1> DEFINE new == Parts(FALSE)
<1>3. new \in Seq(Item)
  BY PartsType
<1>4. DOMAIN new = 1..Len(<<>>)
  BY <1>2
<1> HIDE DEF new
<1>5. new = <<>>
  <2>1. DOMAIN new = 1..Len(new) /\ Len(new) \in Nat /\ Len(<<>>) = 0
    BY <1>3, LenProperties
  <2>2. 1 \notin 1..Len(new)
    BY <1>4, <2>1
  <2>3. Len(new) = 0
    BY <2>1, <2>2
  <2> QED BY <1>3, <2>3, EmptySeq
<1> QED BY <1>5 DEF new

LEMMA WriteLeaves ==
  ASSUME TypeOK, UniqueInv, Write
  PROVE  Leaving /\ todo # <<>>
<1>1. todo # <<>>
  BY DEF Write
<1>2. Tc.mutable = Mutable(It.obj) /\ Tc.kind = Kind(It.obj) /\ (InPlace <=> IsInline(It.obj))
  BY DEF Tc, Mutable, Kind, InPlace, IsInline
<1>3. /\ Tc.unique \in BOOLEAN /\ It.unique \in BOOLEAN /\ InPlace \in BOOLEAN
      /\ (~Tc.unique) \in BOOLEAN /\ (~InPlace) \in BOOLEAN
  BY <1>1, ItReferable
<1>4. CASE Simple
  <2>1. Tc.kind = "simple" /\ Parts(FALSE) = <<>>
    BY <1>1, <1>4, SimpleParts DEF Simple
  <2>2. \E form \in {"content", "href", "nil"}, id \in BOOLEAN : Makes(form, id, <<>>)
    BY <1>3, <1>4 DEF Simple
  <2>3. PICK form \in {"content", "href", "nil"}, id \in BOOLEAN : Makes(form, id, <<>>)
    BY <2>2
  <2>4. Makes(form, id, IF form = "content" THEN Parts(FALSE) ELSE <<>>)
    BY <2>1, <2>3
  <2> QED BY <1>1, <2>4 DEF Leaving
<1>5. CASE Array
  <2>1. CASE ~Tc.mutable /\ Known
    BY <1>1, <1>2, <1>5, <2>1 DEF Array, Leaving, PassedOver
  <2>2. CASE ~(~Tc.mutable /\ Known)
    <3>1. \/ Makes("nil", FALSE, <<>>) \/ Makes("href", FALSE, <<>>) \/ Makes("content", ~Tc.unique, Parts(FALSE))
      BY <1>5, <2>2 DEF Array
    <3> QED BY <1>1, <1>3, <3>1 DEF Leaving
  <2> QED BY <2>1, <2>2
<1>6. CASE AnyContainer
  <2>1. Makes("nil", FALSE, <<>>) \/ Makes("content", FALSE, Parts(It.unique))
    BY <1>6 DEF AnyContainer
  <2> QED BY <1>1, <1>3, <2>1 DEF Leaving
<1>7. CASE Postpone
  BY <1>1, <1>7 DEF Postpone, Leaving
<1>8. CASE Struct
  <2>1. CASE ~Nil /\ Again
    <3>1. Drops /\ ~Tc.mutable /\ Tc.kind = "struct" /\ (InPlace \/ It.late)
      BY <1>8, <2>1 DEF Struct, Again
    <3> QED BY <1>1, <1>2, <3>1 DEF Leaving, PassedOver
  <2>2. CASE ~(~Nil /\ Again)
    <3>1. Makes("nil", FALSE, <<>>) \/ Makes("content", ~InPlace, Parts(It.unique))
      BY <1>8, <2>2 DEF Struct
    <3> QED BY <1>1, <1>3, <3>1 DEF Leaving
  <2> QED BY <2>1, <2>2
<1> QED BY <1>1, <1>4, <1>5, <1>6, <1>7, <1>8 DEF Write

\* The line after a step that does not change the message.
LEMMA SameLine ==
  ASSUME message' = message, NEW els, NEW items, elements' = els, todo' = items,
         \A i \in 1..Len(els) :
           els[i].form = "content" => InLine(els, items, i, message.parts[els[i].obj])
  PROVE  LineInv'
<1>1. \A o : PassedOver(o)' <=> PassedOver(o)
  BY DEF PassedOver, Mutable, Kind, IsInline
<1>2. \A x, i : Leaves(x, i)' <=> Leaves(x, i)
  BY <1>1 DEF Leaves
<1>3. \A i : Filled(elements, todo, i)' = Filled(els, items, i)
  BY <1>2 DEF Filled, Place
<1>4. \A parts : Due(parts)' = Due(parts)
  BY <1>1 DEF Due
<1>5. \A place, i, parts : Lines(place, elements, todo, i, parts)' <=> Lines(place, els, items, i, parts)
  BY <1>3, <1>4 DEF Lines, Place
<1>6. \A i, parts : InLine(elements, todo, i, parts)' <=> InLine(els, items, i, parts)
  BY <1>3, <1>4, <1>5 DEF InLine
<1> QED BY <1>6 DEF LineInv

\* Writing an item keeps the line, and puts a new element's parts into it.
LEMMA LeavingKeepsLine ==
  ASSUME TypeOK, UniqueInv, BelowInv, LineInv, ~broken, todo # <<>>, Leaving
  PROVE  BelowInv' /\ LineInv'
<1> DEFINE n == Len(elements)
           Whole(els, items) ==
             \A i \in 1..Len(els) :
               els[i].form = "content" => InLine(els, items, i, message.parts[els[i].obj])
           Below2(els, items) ==
             /\ \A p \in 1..Len(els) : els[p].late \/ els[p].parent <= Len(els)
             /\ \A p \in 1..Len(items) : items[p].late \/ items[p].parent <= Len(els)
<1>1. elements \in Seq(Element) /\ todo \in Seq(Item) /\ n \in Nat /\ Len(todo) \in Nat \ {0}
  BY LenProperties, EmptySeq DEF TypeOK
<1>2. /\ It = todo[1] /\ Len(Tail(todo)) = Len(todo) - 1
      /\ \A k \in 1..Len(Tail(todo)) : Tail(todo)[k] = todo[k + 1] /\ k + 1 \in 1..Len(todo)
  BY <1>1, HeadTailProperties DEF It
<1>3. /\ \A p \in 1..n : elements[p].late \/ elements[p].parent <= n
      /\ It.late \/ It.parent <= n
      /\ \A p \in 1..Len(todo) : todo[p].late \/ todo[p].parent <= n
  BY <1>1, <1>2 DEF BelowInv
<1>4. \A k \in 1..Len(Tail(todo)) : Tail(todo)[k].late \/ Tail(todo)[k].parent <= n
  BY <1>2, <1>3
<1>5. \A i \in 1..n : elements[i].form = "content" => InLine(elements, todo, i, message.parts[elements[i].obj])
  BY DEF LineInv
<1>6. Tail(todo) \in Seq(Item) /\ It \in Item /\ It.obj \in Objects /\ It.parent \in Nat
  BY ItType DEF Item
<1>7. CASE Drops /\ (It.late \/ PassedOver(It.obj))
  <2>1. elements' = elements /\ todo' = Tail(todo) /\ message' = message
    BY <1>7 DEF Drops
  <2>2. Whole(elements, Tail(todo))
    BY <1>1, <1>5, <1>7, LineDrops DEF It
  <2>3. LineInv'
    BY <2>1, <2>2, SameLine
  <2>4. BelowInv'
    BY <1>3, <1>4, <2>1 DEF BelowInv
  <2> QED BY <2>3, <2>4
<1>8. ASSUME NEW form \in {"content", "href", "nil"}, NEW id \in BOOLEAN, NEW unique \in BOOLEAN,
             Makes(form, id, IF form = "content" THEN Parts(unique) ELSE <<>>), unique => It.unique
      PROVE  BelowInv' /\ LineInv'
  <2> DEFINE new == IF form = "content" THEN Parts(unique) ELSE <<>>
             e == [obj |-> It.obj, root |-> It.root, parent |-> It.parent,
                   form |-> form, id |-> id, late |-> It.late]
             els == Append(elements, e)
             items == new \o Tail(todo)
  <2>1. elements' = els /\ todo' = items /\ message' = message
    BY <1>8 DEF Makes, Appends
  <2>2. e \in Element /\ e.obj = It.obj /\ e.parent = It.parent /\ e.late = It.late /\ e.form = form
    BY <1>6 DEF Element, Item
  <2>3. new \in Seq(Item)
    BY <1>8, PartsType, NoParts
  <2>4. \A k \in 1..Len(new) : new[k].parent = n + 1
    <3>1. CASE form = "content"
      <4>1. Len(message.parts[It.obj]) \in Nat
        BY ItType, LenProperties
      <4>2. /\ DOMAIN new = 1..Len(message.parts[It.obj])
            /\ \A k \in 1..Len(message.parts[It.obj]) : new[k].parent = n + 1
        BY <3>1 DEF Parts, Items, ItemFor
      <4>3. DOMAIN new = 1..Len(new)
        BY <2>3, LenProperties
      <4> QED BY <4>2, <4>3
    <3>2. CASE form # "content"
      BY <3>2
    <3> QED BY <3>1, <3>2
  <2> HIDE DEF new, e
  <2>5. Len(els) = n + 1 /\ els[n + 1] = e /\ \A p \in 1..n : els[p] = elements[p]
    BY <1>1, <2>2, AppendProperties
  <2>6. ASSUME NEW i \in 1..n, els[i].form = "content"
        PROVE  InLine(els, items, i, message.parts[els[i].obj])
    <3>1. InLine(elements, todo, i, message.parts[elements[i].obj]) /\ els[i] = elements[i]
      BY <1>5, <2>5, <2>6
    <3> QED BY <1>1, <2>2, <2>3, <2>4, <3>1, LineMakes DEF It
  <2>7. ASSUME form = "content" PROVE InLine(els, items, n + 1, message.parts[els[n + 1].obj])
    <3>1. new = Items(message.parts[It.obj], It.root, n + 1, unique)
      BY <2>7 DEF new, Parts
    <3>2. message.parts[It.obj] \in Seq(Objects)
      BY ItType
    <3> QED BY <1>1, <1>3, <2>2, <2>3, <2>5, <3>1, <3>2, LineStarts
  <2>8. Whole(els, items)
    <3>1. \A i \in 1..Len(els) : i \in 1..n \/ i = n + 1
      BY <1>1, <2>5
    <3> QED BY <2>2, <2>5, <2>6, <2>7, <3>1
  <2>9. /\ Len(items) = Len(new) + Len(Tail(todo))
        /\ \A k \in 1..(Len(new) + Len(Tail(todo))) :
             items[k] = IF k <= Len(new) THEN new[k] ELSE Tail(todo)[k - Len(new)]
    BY <1>6, <2>3, ItemsBefore
  <2>10. \A p \in 1..Len(items) : items[p].late \/ items[p].parent <= n + 1
    <3> SUFFICES ASSUME NEW p \in 1..Len(items) PROVE items[p].late \/ items[p].parent <= n + 1
      OBVIOUS
    <3>1. Len(new) \in Nat /\ Len(Tail(todo)) \in Nat
      BY <1>6, <2>3, LenProperties
    <3> HIDE DEF items
    <3>2. CASE p <= Len(new)
      BY <1>1, <2>4, <2>9, <3>1, <3>2
    <3>3. CASE p > Len(new)
      <4> DEFINE x == Tail(todo)[p - Len(new)]
      <4>1. p - Len(new) \in 1..Len(Tail(todo)) /\ p \in 1..(Len(new) + Len(Tail(todo))) /\ ~(p <= Len(new))
        BY <2>9, <3>1, <3>3
      <4>2. items[p] = x
        BY <2>9, <4>1
      <4>3. x \in Item
        BY <1>6, <4>1, ElementOfSeq
      <4>4. x.parent \in Nat
        BY <4>3 DEF Item
      <4>5. x.late \/ x.parent <= n
        BY <1>4, <4>1
      <4> HIDE DEF x
      <4>6. x.late \/ x.parent <= n + 1
        BY <1>1, <4>4, <4>5
      <4> QED BY <4>2, <4>6
    <3> QED BY <2>9, <3>1, <3>2, <3>3
  <2>11. \A p \in 1..Len(els) : els[p].late \/ els[p].parent <= n + 1
    <3> SUFFICES ASSUME NEW p \in 1..Len(els) PROVE els[p].late \/ els[p].parent <= n + 1
      OBVIOUS
    <3>1. CASE p \in 1..n
      <4>1. els[p] = elements[p] /\ elements[p] \in Element
        BY <1>1, <2>5, <3>1, ElementOfSeq
      <4>2. elements[p].parent \in Nat
        BY <4>1 DEF Element
      <4> QED BY <1>1, <1>3, <3>1, <4>1, <4>2
    <3>2. CASE p = n + 1
      BY <1>1, <1>3, <1>6, <2>2, <2>5, <3>2
    <3> QED BY <1>1, <2>5, <3>1, <3>2
  <2>12. Below2(els, items)
    BY <2>5, <2>10, <2>11
  <2> HIDE DEF els, items
  <2>13. LineInv'
    BY <2>1, <2>8, SameLine
  <2>14. BelowInv'
    BY <2>1, <2>12 DEF BelowInv
  <2> QED BY <2>13, <2>14
<1> QED BY <1>7, <1>8 DEF Leaving

\* Steps between the items put nothing below an element that is there.
LEMMA CallKeepsLine ==
  ASSUME TypeOK, BelowInv, LineInv, UNCHANGED <<message, elements, broken>>,
         \/ todo' = todo
         \/ todo = <<>> /\ todo' \in Seq(Item) /\ \A k \in 1..Len(todo') : todo'[k].late \/ todo'[k].parent = 0
  PROVE  BelowInv' /\ LineInv'
<1>1. elements \in Seq(Element) /\ Len(elements) \in Nat
  BY LenProperties DEF TypeOK
<1>2. broken' = broken /\ BelowInv'
  BY <1>1 DEF BelowInv
<1>3. CASE broken
  BY <1>2, <1>3 DEF LineInv
<1>4. CASE ~broken
  <2>1. \A i \in 1..Len(elements) : elements[i].form = "content" =>
          InLine(elements, todo, i, message.parts[elements[i].obj])
    BY <1>4 DEF LineInv
  <2> DEFINE items == todo'
  <2>2. \A i \in 1..Len(elements) : elements[i].form = "content" =>
          InLine(elements, items, i, message.parts[elements[i].obj])
    <3>1. CASE items = todo
      BY <2>1, <3>1
    <3>2. CASE /\ todo = <<>> /\ items \in Seq(Item)
               /\ \A k \in 1..Len(items) : items[k].late \/ items[k].parent = 0
      <4> HIDE DEF items
      <4>1. ASSUME NEW i \in 1..Len(elements), elements[i].form = "content"
            PROVE  InLine(elements, items, i, message.parts[elements[i].obj])
        <5>1. InLine(elements, <<>>, i, message.parts[elements[i].obj])
          BY <2>1, <3>2, <4>1
        <5> QED BY <1>1, <3>2, <5>1, LineWaits
      <4> QED BY <4>1
    <3> QED BY <3>1, <3>2
  <2>3. todo' = items /\ elements' = elements /\ message' = message
    OBVIOUS
  <2> HIDE DEF items
  <2> QED BY <1>2, <2>2, <2>3, SameLine
<1> QED BY <1>2, <1>3, <1>4

\* The items of a list belong where the list does.
LEMMA ItemsParent ==
  ASSUME NEW objs \in Seq(Objects), NEW root \in Roots, NEW parent \in Nat, NEW unique \in BOOLEAN,
         unique => root = "header"
  PROVE  \A k \in 1..Len(Items(objs, root, parent, unique)) : Items(objs, root, parent, unique)[k].parent = parent
<1> DEFINE items == Items(objs, root, parent, unique)
<1>1. items \in Seq(Item)
  BY ItemsType
<1>2. DOMAIN items = 1..Len(objs) /\ \A k \in 1..Len(objs) : items[k].parent = parent
  BY DEF Items, ItemFor
<1> HIDE DEF items
<1>3. DOMAIN items = 1..Len(items)
  BY <1>1, LenProperties
<1> QED BY <1>2, <1>3 DEF items

LEMMA StepKeepsLine ==
  ASSUME TypeOK, UniqueInv, LateInv, BelowInv, LineInv, Keeps, [Next]_vars
  PROVE  BelowInv' /\ LineInv'
<1>1. CASE broken'
  BY <1>1 DEF BelowInv, LineInv
<1> SUFFICES ASSUME ~broken' PROVE BelowInv' /\ LineInv'
  BY <1>1
<1>2. CASE Write
  <2>1. Leaving /\ todo # <<>> /\ broken' = broken
    BY <1>2, WriteLeaves, WriteFrame
  <2> QED BY <2>1, LeavingKeepsLine
<1>3. CASE NotInlineButUnique \/ Raise
  BY <1>3 DEF NotInlineButUnique, Raise
<1>4. CASE Serialize
  <2>1. /\ UNCHANGED <<message, elements, broken>> /\ todo = <<>>
        /\ todo' = Items(message.headers, "header", 0, TRUE) \o Items(<<message.body>>, "body", 0, FALSE)
    BY <1>4 DEF Serialize, TypeOK
  <2> DEFINE heads == Items(message.headers, "header", 0, TRUE)
             body == Items(<<message.body>>, "body", 0, FALSE)
  <2>2. message.headers \in Seq(Objects) /\ <<message.body>> \in Seq(Objects)
    BY MessageType DEF TypeOK
  <2>3. heads \in Seq(Item) /\ \A k \in 1..Len(heads) : heads[k].parent = 0
    BY <2>2, ItemsType, ItemsParent DEF Roots
  <2>4. body \in Seq(Item) /\ \A k \in 1..Len(body) : body[k].parent = 0
    BY <2>2, ItemsType, ItemsParent DEF Roots
  <2> HIDE DEF heads, body
  <2>5. /\ Len(heads) \in Nat /\ Len(body) \in Nat /\ Len(heads \o body) = Len(heads) + Len(body)
        /\ \A k \in 1..(Len(heads) + Len(body)) :
             (heads \o body)[k] = IF k <= Len(heads) THEN heads[k] ELSE body[k - Len(heads)]
    BY <2>3, <2>4, ItemsBefore, LenProperties
  <2>6. ASSUME NEW k \in 1..Len(heads \o body) PROVE (heads \o body)[k].parent = 0
    <3>1. CASE k <= Len(heads)
      BY <2>3, <2>5, <3>1
    <3>2. CASE k > Len(heads)
      <4>1. k - Len(heads) \in 1..Len(body) /\ ~(k <= Len(heads)) /\ k \in 1..(Len(heads) + Len(body))
        BY <2>5, <3>2
      <4> QED BY <2>4, <2>5, <4>1
    <3> QED BY <2>5, <3>1, <3>2
  <2>7. todo' = heads \o body /\ todo' \in Seq(Item)
    BY <2>1, <2>3, <2>4, ConcatProperties DEF heads, body
  <2> QED BY <2>1, <2>6, <2>7, CallKeepsLine
<1>5. CASE SerializeHeader
  <2>1. UNCHANGED <<message, elements, broken>> /\ todo = <<>> /\ more # <<>> /\ more \in Seq(Objects)
    BY <1>5 DEF SerializeHeader, TypeOK
  <2>2. <<Head(more)>> \in Seq(Objects)
    BY <2>1, HeadTailProperties
  <2>3. todo' = Items(<<Head(more)>>, "header", 0, TRUE)
    BY <1>5 DEF SerializeHeader
  <2>4. todo' \in Seq(Item) /\ \A k \in 1..Len(todo') : todo'[k].parent = 0
    BY <2>2, <2>3, ItemsType, ItemsParent DEF Roots
  <2> QED BY <2>1, <2>4, CallKeepsLine
<1>6. CASE CallBack
  <2>1. UNCHANGED <<message, elements, broken>> /\ todo = <<>> /\ todo' = <<callbacks[called + 1]>>
    BY <1>6 DEF CallBack
  <2>2. called + 1 \in 1..Len(callbacks)
    BY <1>6, LenProperties DEF CallBack, TypeOK
  <2>3. Len(todo') = 1 /\ todo'[1] = callbacks[called + 1] /\ callbacks[called + 1].late
    BY <2>1, <2>2 DEF LateInv
  <2>4. todo' \in Seq(Item) /\ \A k \in 1..Len(todo') : todo'[k].late
    BY <2>3 DEF Keeps
  <2> QED BY <2>1, <2>4, CallKeepsLine
<1>7. CASE Close \/ Serialized \/ Closed \/ UNCHANGED vars
  BY <1>7, CallKeepsLine DEF Close, Serialized, Closed, vars
<1> QED BY <1>2, <1>3, <1>4, <1>5, <1>6, <1>7 DEF Next, Runs

\* A finished document has the parts of every object in their order, for all
\* messages: nothing is left in the line but its elements.
THEOREM PartsAlwaysInOrder == Spec => []PartsInOrder
<1> DEFINE Inv == TypeOK /\ UniqueInv /\ ReferInv /\ BelowInv /\ LineInv
<1>1. Init => Inv
  <2> SUFFICES ASSUME Init PROVE ReferInv /\ BelowInv /\ LineInv
    BY InitType
  <2> QED BY DEF Init, ReferInv, LateInv, RememberedInv, HrefInv, BelowInv, LineInv
<1>2. Inv /\ [Next]_vars => Inv'
  <2> SUFFICES ASSUME Inv, [Next]_vars PROVE Inv'
    OBVIOUS
  <2>1. Keeps /\ TypeOK' /\ UniqueInv'
    BY StepKeeps, StepType
  <2>2. ReferInv'
    BY <2>1, StepRefers
  <2>3. BelowInv' /\ LineInv'
    BY <2>1, StepKeepsLine DEF ReferInv
  <2> QED BY <2>1, <2>2, <2>3
<1>3. Inv => PartsInOrder
  <2> SUFFICES ASSUME Inv, Written PROVE PartsInOrder
    BY DEF PartsInOrder
  <2> SUFFICES ASSUME NEW i \in 1..Len(elements), elements[i].form = "content"
               PROVE  LET parts == message.parts[elements[i].obj] IN
                      \E place \in [Due(parts) -> Below(i)] :
                        /\ \A k \in Due(parts) : elements[place[k]].obj = parts[k]
                        /\ \A k, m \in Due(parts) : k < m => place[k] < place[m]
                        /\ \A j \in Below(i) : \E k \in Due(parts) : place[k] = j
    BY DEF PartsInOrder
  <2> DEFINE parts == message.parts[elements[i].obj]
  <2>1. /\ todo = <<>> /\ Len(<<>>) = 0 /\ Len(elements) \in Nat /\ DOMAIN elements = 1..Len(elements)
        /\ InLine(elements, <<>>, i, parts)
    BY LenProperties DEF TypeOK, LineInv, Written
  <2> HIDE DEF parts
  <2>2. \A p \in 1..Len(elements) : Place(elements, <<>>, p) = elements[p]
    BY DEF Place
  <2>3. Filled(elements, <<>>, i) = Below(i) /\ Below(i) \subseteq 1..Len(elements)
    BY <2>1, <2>2 DEF Filled, Below, Leaves
  <2>4. PICK place \in [Due(parts) -> Filled(elements, <<>>, i)] : Lines(place, elements, <<>>, i, parts)
    BY <2>1 DEF InLine
  <2>5. place \in [Due(parts) -> Below(i)]
    BY <2>3, <2>4
  <2>6. \A k \in Due(parts) : elements[place[k]].obj = parts[k]
    BY <2>2, <2>3, <2>4, <2>5 DEF Lines
  <2>7. /\ \A k, m \in Due(parts) : k < m => place[k] < place[m]
        /\ \A j \in Below(i) : \E k \in Due(parts) : place[k] = j
    BY <2>3, <2>4 DEF Lines
  <2> QED BY <2>5, <2>6, <2>7 DEF parts
<1> QED BY <1>1, <1>2, <1>3, PTL DEF Spec
==============================================================================
