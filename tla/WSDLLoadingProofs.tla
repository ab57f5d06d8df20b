-------------------------- MODULE WSDLLoadingProofs --------------------------
(***************************************************************************)
(* Theorems about WSDLLoading, for any documents that import one another   *)
(* in any way: what is loaded is what the documents say, and a call is     *)
(* described as they describe it.                                          *)
(***************************************************************************)
EXTENDS WSDLLoading, SequenceTheorems, FiniteSetTheorems, NaturalsInduction, WellFoundedInduction, TLAPS

------------------------------------------------------------------------------
\* The invariant.

TypeInv ==
  /\ AnyRepository(repo)
  /\ phase \in {"imports", "items", "loaded", "failed"}
  /\ AList(children)
  /\ gone \subseteq DOMAIN children /\ todo \subseteq Standing
  /\ phase = "imports" => todo \subseteq Imports
  /\ imported \subseteq DOMAIN repo.docs
  /\ wsdl = [kind \in Kinds |-> wsdl[kind]]
  /\ \A kind \in Kinds : AList(wsdl[kind])

\* The children: first those of the main document, then copies from documents that
\* have been imported.
Mains == Len(Main.items)
CopyOf(c, l) ==
  \E j \in DOMAIN repo.docs[l].items : c = Copied(repo.docs[l].items[j], repo.docs[l], l)
KidsInv ==
  /\ Len(children) >= Mains
  /\ \A k \in 1..Mains : children[k] = Original(Main.items[k], Main, repo.root)
  /\ \A k \in DOMAIN children : k > Mains => \E l \in imported : CopyOf(children[k], l)

\* Only imports are removed, of documents that have been imported.
GoneInv == \A k \in gone : children[k].item.kind = "import" /\ Location(children[k]) \in imported

\* Only documents are imported that any closed set of documents has.
ReachInv == \A ls \in SUBSET DOMAIN repo.docs : Closed(ls) => imported \subseteq ls

\* Nothing of a document is missing.
Merged(l) ==
  \A j \in DOMAIN repo.docs[l].items :
    \E k \in DOMAIN children : children[k] = Copied(repo.docs[l].items[j], repo.docs[l], l)
MergeInv == Agreeing => \A l \in imported : Merged(l)

\* The copies from a document are as many as its items.
Block(l) ==
  \E b \in Nat : \A k \in DOMAIN children :
    children[k].from = l /\ k > Mains => k \in (b + 1)..(b + Len(repo.docs[l].items))
BlockInv == \A l \in DOMAIN repo.docs : Block(l)

\* A round that imports nothing is the last one.
RoundInv ==
  /\ phase = "imports" /\ ~again => Imports \subseteq todo
  /\ phase \in {"items", "loaded"} => Imports = {}

\* What has been read of a kind.
Read(kind) ==
  IF phase = "imports" THEN {}
  ELSE {Component(children[k]) : k \in {j \in Standing \ todo : children[j].item.kind = kind}}
ReadInv == phase # "failed" => \A kind \in Kinds : ToSet(wsdl[kind]) = Read(kind)

\* All children have been read when loading ends.
EndInv == phase = "loaded" => todo = {}

Inv ==
  /\ TypeInv /\ KidsInv /\ GoneInv /\ ReachInv /\ MergeInv /\ BlockInv /\ RoundInv /\ ReadInv /\ EndInv

------------------------------------------------------------------------------
\* Lists and least elements.

LEMMA ListType ==
  ASSUME NEW s, AList(s)
  PROVE  Len(s) \in Nat /\ DOMAIN s = 1..Len(s) /\ s \in Seq(ToSet(s))
BY DEF AList

LEMMA ListAppends ==
  ASSUME NEW s, AList(s), NEW x
  PROVE  AList(Append(s, x)) /\ ToSet(Append(s, x)) = ToSet(s) \cup {x}
<1>. DEFINE S == ToSet(s) \cup {x}
<1>1. ToSet(s) = {s[i] : i \in DOMAIN s}
  BY DEF ToSet
<1>2. s \in Seq(S)
  BY <1>1 DEF AList
<1>3. /\ Append(s, x) \in Seq(S) /\ Len(Append(s, x)) = Len(s) + 1 /\ Len(s) \in Nat
      /\ \A i \in 1..Len(s) : Append(s, x)[i] = s[i]
      /\ Append(s, x)[Len(s) + 1] = x
      /\ DOMAIN s = 1..Len(s) /\ DOMAIN Append(s, x) = 1..(Len(s) + 1)
  BY <1>2, AppendProperties
<1>4. ToSet(Append(s, x)) = {Append(s, x)[i] : i \in DOMAIN Append(s, x)}
  BY DEF ToSet
<1>5. ToSet(Append(s, x)) = S
  <2>1. \A i \in 1..(Len(s) + 1) : i \in 1..Len(s) \/ i = Len(s) + 1
    BY <1>3
  <2>2. 1..Len(s) \subseteq 1..(Len(s) + 1) /\ Len(s) + 1 \in 1..(Len(s) + 1)
    BY <1>3
  <2> QED BY <1>1, <1>3, <1>4, <2>1, <2>2, Zenon
<1>. QED BY <1>3, <1>5 DEF AList

\* u is s followed by t.
IsJoin(u, s, t) ==
  /\ AList(u) /\ Len(u) = Len(s) + Len(t) /\ DOMAIN u = 1..(Len(s) + Len(t))
  /\ \A i \in 1..Len(s) : u[i] = s[i]
  /\ \A i \in (Len(s) + 1)..(Len(s) + Len(t)) : u[i] = t[i - Len(s)] /\ i - Len(s) \in DOMAIN t
  /\ \A j \in DOMAIN t : Len(s) + j \in (Len(s) + 1)..(Len(s) + Len(t)) /\ u[Len(s) + j] = t[j]

LEMMA ListsJoin ==
  ASSUME NEW s, AList(s), NEW t, AList(t)
  PROVE  IsJoin(s \o t, s, t)
<1>. DEFINE S == ToSet(s) \cup ToSet(t)
            u == s \o t
<1>0. ToSet(s) = {s[i] : i \in DOMAIN s} /\ ToSet(t) = {t[i] : i \in DOMAIN t}
  BY DEF ToSet
<1>1. s \in Seq(S) /\ t \in Seq(S)
  BY <1>0 DEF AList
<1>2. /\ u \in Seq(S) /\ Len(u) = Len(s) + Len(t) /\ Len(s) \in Nat /\ Len(t) \in Nat
      /\ DOMAIN u = 1..Len(u) /\ DOMAIN t = 1..Len(t)
      /\ \A i \in 1..(Len(s) + Len(t)) : u[i] = IF i <= Len(s) THEN s[i] ELSE t[i - Len(s)]
  BY <1>1, ConcatProperties
<1>. HIDE DEF u
<1>3. u \in Seq(ToSet(u))
  BY <1>2 DEF ToSet
<1>4. AList(u)
  BY <1>3 DEF AList
<1>5. \A i \in 1..Len(s) : u[i] = s[i]
  BY <1>2
<1>6. \A i \in (Len(s) + 1)..(Len(s) + Len(t)) : u[i] = t[i - Len(s)] /\ i - Len(s) \in DOMAIN t
  BY <1>2
<1>7. \A j \in DOMAIN t : Len(s) + j \in (Len(s) + 1)..(Len(s) + Len(t)) /\ u[Len(s) + j] = t[j]
  BY <1>2
<1>8. IsJoin(u, s, t)
  BY <1>2, <1>4, <1>5, <1>6, <1>7 DEF IsJoin
<1>. QED BY <1>8 DEF u

LEMMA LeastElement ==
  ASSUME NEW T \in SUBSET Nat, T # {}
  PROVE  Min(T) \in T /\ \A n \in T : Min(T) <= n
<1>. DEFINE R == OpToRel(<, Nat)
<1>1. IsWellFoundedOn(R, Nat)
  BY NatLessThanWellFounded, Zenon
<1>2. \A m, n \in Nat : n < m => <<n, m>> \in R
  BY DEF OpToRel
<1>. HIDE DEF R
<1>3. PICK m \in T : \A n \in T : ~(<<n, m>> \in R)
  BY <1>1, WFMin
<1>4. \A n \in T : n \in Nat /\ m \in Nat /\ ~(n < m)
  BY <1>2, <1>3
<1>5. \A n \in T : m <= n
  BY <1>4
<1>. QED BY <1>5 DEF Min

\* A finite set of numbers has a greatest one.
LEMMA GreatestElement ==
  ASSUME NEW n \in Nat, NEW T \in SUBSET (1..n), T # {}
  PROVE  Max(T) \in T
<1>. DEFINE U == {m \in Nat : \A k \in T : k <= m}
<1>1. n \in U
  OBVIOUS
<1>2. Min(U) \in U
  BY <1>1, LeastElement
<1>. DEFINE m == Min(U)
<1>3. m \in T
  <2>1. SUFFICES ASSUME m \notin T PROVE FALSE
    OBVIOUS
  <2>2. PICK k \in T : TRUE
    OBVIOUS
  <2>3. \A j \in T : j <= m - 1
    BY <1>2, <2>1
  <2>4. m - 1 \in U
    BY <1>2, <2>2, <2>3
  <2>5. \A i \in U : m <= i
    BY <1>1, LeastElement
  <2> QED BY <1>2, <2>4, <2>5
<1>. QED BY <1>2, <1>3 DEF Max

LEMMA FunctionIsList ==
  ASSUME NEW f, NEW n \in Nat, f = [k \in 1..n |-> f[k]]
  PROVE  AList(f) /\ Len(f) = n /\ DOMAIN f = 1..n
<1>1. DOMAIN f = 1..n
  OBVIOUS
<1>2. f \in [1..n -> ToSet(f)]
  BY <1>1 DEF ToSet
<1>3. f \in Seq(ToSet(f)) /\ Len(f) = n
  BY <1>2
<1>. QED BY <1>1, <1>3 DEF AList

------------------------------------------------------------------------------
\* The documents do not change.

LEMMA RepositoryType ==
  ASSUME AnyRepository(repo)
  PROVE  /\ repo.root \in DOMAIN repo.docs
         /\ \A l \in DOMAIN repo.docs : AList(repo.docs[l].items)
         /\ AList(Main.items)
BY DEF AnyRepository, Main

LEMMA SameDocuments ==
  ASSUME repo' = repo
  PROVE  /\ Main' = Main /\ Mains' = Mains
         /\ \A ls : Closed(ls)' <=> Closed(ls)
         /\ Reached' = Reached /\ (Agreeing' <=> Agreeing)
         /\ \A c, l : CopyOf(c, l)' <=> CopyOf(c, l)
<1>1. Main' = Main /\ Mains' = Mains
  BY DEF Main, Mains
<1>2. \A l : ImportsOf(l)' = ImportsOf(l)
  BY DEF ImportsOf
<1>3. \A ls : Closed(ls)' <=> Closed(ls)
  BY <1>2 DEF Closed
<1>4. Reached' = Reached
  BY <1>3 DEF Reached
<1>5. Agreeing' <=> Agreeing
  BY <1>2, <1>4 DEF Agreeing
<1>6. \A c, l : CopyOf(c, l)' <=> CopyOf(c, l)
  BY DEF CopyOf
<1>. QED BY <1>1, <1>3, <1>4, <1>5, <1>6

\* A component depends on the item, its prefixes and its namespace.
LEMMA ComponentOf ==
  ASSUME NEW c, NEW d, c.item = d.item, c.scope = d.scope, TargetNS(c) = TargetNS(d)
  PROVE  Component(c) = Component(d)
<1>1. \A ref : Resolve(c, ref) = Resolve(d, ref) /\ ParseQName(c, ref) = ParseQName(d, ref)
  BY DEF Resolve, ParseQName
<1>2. \A r : ResolveRole(c, r) = ResolveRole(d, r)
  BY <1>1 DEF ResolveRole
<1>3. \A o : Operation(c, o) = Operation(d, o)
  BY <1>1 DEF Operation
<1>4. \A o : OperationBinding(c, o) = OperationBinding(d, o)
  BY <1>2 DEF OperationBinding
<1>5. \A p : Port(c, p) = Port(d, p)
  BY <1>1 DEF Port
<1>6. Message(c) = Message(d)
  BY <1>1 DEF Message
<1>7. PortType(c) = PortType(d)
  BY <1>3 DEF PortType
<1>8. Binding(c) = Binding(d)
  BY <1>1, <1>4 DEF Binding
<1>9. Service(c) = Service(d)
  BY <1>5 DEF Service
<1>. QED BY <1>6, <1>7, <1>8, <1>9 DEF Component

LEMMA SameComponents ==
  ASSUME repo' = repo
  PROVE  \A c : Component(c)' = Component(c)
<1>0. \A c : TargetNS(c)' = TargetNS(c)
  BY DEF TargetNS, Main
<1>1. \A c, ref : Resolve(c, ref)' = Resolve(c, ref) /\ ParseQName(c, ref)' = ParseQName(c, ref)
  BY <1>0 DEF Resolve, ParseQName
<1>2. \A c, r : ResolveRole(c, r)' = ResolveRole(c, r)
  BY <1>1 DEF ResolveRole
<1>3. \A c, o : Operation(c, o)' = Operation(c, o)
  BY <1>1 DEF Operation
<1>4. \A c, o : OperationBinding(c, o)' = OperationBinding(c, o)
  BY <1>2 DEF OperationBinding
<1>5. \A c, p : Port(c, p)' = Port(c, p)
  BY <1>1 DEF Port
<1>6. \A c : Message(c)' = Message(c)
  BY <1>0, <1>1 DEF Message
<1>7. \A c : PortType(c)' = PortType(c)
  BY <1>0, <1>3 DEF PortType
<1>8. \A c : Binding(c)' = Binding(c)
  BY <1>0, <1>1, <1>4 DEF Binding
<1>9. \A c : Service(c)' = Service(c)
  BY <1>0, <1>5 DEF Service
<1>. QED BY <1>6, <1>7, <1>8, <1>9 DEF Component

------------------------------------------------------------------------------
\* The invariant holds initially.

LEMMA InitInv == Init => Inv
<1>. SUFFICES ASSUME Init PROVE Inv
  OBVIOUS
<1>1. AnyRepository(repo)
  BY WSDLAssumption DEF Init
<1>2. AList(Main.items) /\ Mains \in Nat /\ DOMAIN Main.items = 1..Mains
  BY <1>1, RepositoryType, ListType DEF Mains
<1>3. children = [k \in 1..Mains |-> children[k]]
  BY <1>2 DEF Init
<1>4. AList(children) /\ Len(children) = Mains /\ DOMAIN children = 1..Mains
  BY <1>2, <1>3, FunctionIsList
<1>5. \A kind \in Kinds : wsdl[kind] = <<>>
  BY DEF Init
<1>6. AList(<<>>) /\ ToSet(<<>>) = {}
  BY DEF AList, ToSet
<1>7. TypeInv
  BY <1>1, <1>4, <1>5, <1>6 DEF Init, TypeInv, Standing, Imports
<1>8. KidsInv
  BY <1>2, <1>4 DEF Init, KidsInv
<1>9. GoneInv /\ ReachInv /\ MergeInv /\ RoundInv /\ EndInv
  BY DEF Init, GoneInv, ReachInv, MergeInv, RoundInv, EndInv
<1>10. BlockInv
  <2>1. \A k \in DOMAIN children : ~(k > Mains)
    BY <1>2, <1>4
  <2>2. 0 \in Nat
    OBVIOUS
  <2> QED BY <2>1, <2>2, Zenon DEF BlockInv, Block
<1>11. ReadInv
  BY <1>5, <1>6 DEF Init, ReadInv, Read
<1>. QED BY <1>7, <1>8, <1>9, <1>10, <1>11 DEF Inv

------------------------------------------------------------------------------
\* The child that a loop has come to.

LEMMA ThisOne ==
  ASSUME TypeInv, todo # {}
  PROVE  /\ This \in todo /\ This \in Standing /\ This \in DOMAIN children
         /\ phase = "imports" => Here.kind = "import"
<1>1. todo \in SUBSET Nat
  BY ListType DEF TypeInv, Standing
<1>2. This \in todo
  BY <1>1, LeastElement DEF This
<1>3. This \in Standing /\ This \in DOMAIN children
  BY <1>2 DEF TypeInv, Standing
<1>4. phase = "imports" => children[This].item.kind = "import"
  BY <1>2 DEF TypeInv, Imports
<1>. QED BY <1>2, <1>3, <1>4 DEF Here

\* Every child is an item of the main document or of one that has been imported.
LEMMA KidFrom ==
  ASSUME TypeInv, KidsInv, NEW k \in DOMAIN children
  PROVE  \E l \in imported \cup {repo.root} : \E j \in DOMAIN repo.docs[l].items :
           /\ children[k].item = repo.docs[l].items[j] /\ children[k].from = l
           /\ k <= Mains => l = repo.root
           /\ k > Mains => l \in imported
<1>1. AList(Main.items) /\ Mains \in Nat /\ DOMAIN Main.items = 1..Mains
  BY RepositoryType, ListType DEF TypeInv, Mains
<1>2. k \in Nat \ {0}
  BY ListType DEF TypeInv
<1>3. CASE k <= Mains
  <2>1. k \in 1..Mains /\ children[k] = Original(Main.items[k], Main, repo.root)
    BY <1>1, <1>2, <1>3 DEF KidsInv
  <2>2. children[k].item = repo.docs[repo.root].items[k] /\ children[k].from = repo.root
    BY <2>1 DEF Original, Main
  <2> QED BY <1>1, <1>2, <1>3, <2>1, <2>2 DEF Main
<1>4. CASE k > Mains
  <2>1. PICK l \in imported : CopyOf(children[k], l)
    BY <1>4 DEF KidsInv
  <2>2. PICK j \in DOMAIN repo.docs[l].items :
          children[k] = Copied(repo.docs[l].items[j], repo.docs[l], l)
    BY <2>1 DEF CopyOf
  <2>3. children[k].item = repo.docs[l].items[j] /\ children[k].from = l
    BY <2>2 DEF Copied
  <2> QED BY <1>1, <1>2, <1>4, <2>3
<1>. QED BY <1>1, <1>2, <1>3, <1>4

\* A document that an import of a child names is in every closed set.
LEMMA ImportReached ==
  ASSUME TypeInv, KidsInv, ReachInv, NEW k \in DOMAIN children, children[k].item.kind = "import",
         children[k].item.at # None, NEW ls \in SUBSET DOMAIN repo.docs, Closed(ls)
  PROVE  children[k].item.at \in ls
<1>1. PICK l \in imported \cup {repo.root} : \E j \in DOMAIN repo.docs[l].items :
        children[k].item = repo.docs[l].items[j]
  BY KidFrom
<1>2. l \in ls
  BY <1>1 DEF ReachInv, Closed
<1>3. children[k].item \in ImportsOf(l)
  BY <1>1 DEF ImportsOf, ToSet
<1>. QED BY <1>2, <1>3 DEF Closed

\* An import of a document that was reached names its namespace.
LEMMA ImportAgrees ==
  ASSUME TypeInv, KidsInv, ReachInv, Agreeing,
         NEW k \in DOMAIN children, children[k].item.kind = "import", children[k].item.at # None
  PROVE  repo.docs[children[k].item.at].tns = children[k].item.ns
<1>1. PICK l \in imported \cup {repo.root} : \E j \in DOMAIN repo.docs[l].items :
        children[k].item = repo.docs[l].items[j]
  BY KidFrom
<1>2. l \in Reached
  BY <1>1, RepositoryType DEF ReachInv, Closed, Reached, TypeInv
<1>3. children[k].item \in ImportsOf(l)
  BY <1>1 DEF ImportsOf, ToSet
<1>. QED BY <1>2, <1>3 DEF Agreeing

------------------------------------------------------------------------------
\* Every step preserves it.

\* What a step keeps that adds no child.
TreeInv == KidsInv /\ ReachInv /\ MergeInv /\ BlockInv

LEMMA SameTree ==
  ASSUME TypeInv, TreeInv, UNCHANGED <<repo, children, imported>>
  PROVE  TreeInv'
<1>1. Main' = Main /\ Mains' = Mains /\ (Agreeing' <=> Agreeing)
  BY SameDocuments
<1>2. KidsInv'
  BY <1>1, SameDocuments DEF TreeInv, KidsInv
<1>3. ReachInv'
  BY SameDocuments DEF TreeInv, ReachInv
<1>4. \A l : Merged(l)' <=> Merged(l)
  BY DEF Merged
<1>5. MergeInv'
  BY <1>1, <1>4 DEF TreeInv, MergeInv
<1>6. BlockInv'
  BY <1>1 DEF TreeInv, BlockInv, Block
<1>. QED BY <1>2, <1>3, <1>5, <1>6 DEF TreeInv

LEMMA AgainKeeps == Inv /\ ImportAgain => Inv'
<1>. SUFFICES ASSUME Inv, ImportAgain PROVE Inv'
  OBVIOUS
<1>. USE DEF Inv
<1>1. /\ phase = "imports" /\ todo # {} /\ phase' = phase /\ repo' = repo /\ wsdl' = wsdl
      /\ children' = children /\ imported' = imported /\ again' = again
      /\ gone' = gone \cup {This} /\ todo' = todo \ {This} /\ Location(children[This]) \in imported
  BY DEF ImportAgain, InImports, Rest, Seen
<1>2. This \in todo /\ This \in Standing /\ This \in DOMAIN children /\ Here.kind = "import"
  BY <1>1, ThisOne
<1>3. Standing' = Standing \ {This} /\ Imports' = Imports \ {This}
  BY <1>1 DEF Standing, Imports
<1>4. TypeInv'
  BY <1>1, <1>2, <1>3 DEF TypeInv
<1>5. TreeInv'
  BY <1>1, SameTree DEF TreeInv
<1>6. GoneInv'
  BY <1>1, <1>2 DEF GoneInv, Here, Location
<1>7. RoundInv'
  BY <1>1, <1>3 DEF RoundInv
<1>8. ReadInv' /\ EndInv'
  BY <1>1 DEF ReadInv, Read, EndInv
<1>. QED BY <1>4, <1>5, <1>6, <1>7, <1>8 DEF TreeInv

\* What importing a document does to the tree.
LEMMA ImportJoins ==
  ASSUME TypeInv, Import, repo.docs[Here.at].tns = Here.ns
  PROVE  LET doc == repo.docs[Here.at] IN
         /\ AList(children') /\ Len(doc.items) \in Nat /\ Len(children) \in Nat
         /\ Len(children') = Len(children) + Len(doc.items)
         /\ DOMAIN children' = 1..(Len(children) + Len(doc.items)) /\ DOMAIN doc.items = 1..Len(doc.items)
         /\ DOMAIN children = 1..Len(children)
         /\ \A k \in DOMAIN children : children'[k] = children[k]
         /\ \A k \in DOMAIN children' : k \notin DOMAIN children =>
              /\ k - Len(children) \in DOMAIN doc.items
              /\ children'[k] = Copied(doc.items[k - Len(children)], doc, Here.at)
         /\ \A j \in DOMAIN doc.items :
              /\ Len(children) + j \in DOMAIN children'
              /\ children'[Len(children) + j] = Copied(doc.items[j], doc, Here.at)
<1>. DEFINE doc == repo.docs[Here.at]
            new == [k \in DOMAIN doc.items |-> Copied(doc.items[k], doc, Here.at)]
<1>1. Here.at \in DOMAIN repo.docs
  BY DEF Import, Unimportable
<1>2. AList(doc.items) /\ Len(doc.items) \in Nat /\ DOMAIN doc.items = 1..Len(doc.items)
  BY <1>1, RepositoryType, ListType DEF TypeInv
<1>3. children' = children \o new
  BY DEF Import, Merge
<1>4. new = [k \in 1..Len(doc.items) |-> new[k]]
  BY <1>2
<1>5. \A j \in DOMAIN doc.items : new[j] = Copied(doc.items[j], doc, Here.at)
  OBVIOUS
<1>. HIDE DEF new
<1>6. AList(new) /\ Len(new) = Len(doc.items) /\ DOMAIN new = 1..Len(doc.items)
  BY <1>2, <1>4, FunctionIsList
<1>7. AList(children) /\ Len(children) \in Nat /\ DOMAIN children = 1..Len(children)
  BY ListType DEF TypeInv
<1>8. /\ AList(children') /\ Len(children') = Len(children) + Len(new)
      /\ DOMAIN children' = 1..(Len(children) + Len(new))
      /\ \A i \in 1..Len(children) : children'[i] = children[i]
      /\ \A i \in (Len(children) + 1)..(Len(children) + Len(new)) :
           children'[i] = new[i - Len(children)] /\ i - Len(children) \in DOMAIN new
      /\ \A j \in DOMAIN new :
           /\ Len(children) + j \in (Len(children) + 1)..(Len(children) + Len(new))
           /\ children'[Len(children) + j] = new[j]
  <2>1. IsJoin(children', children, new)
    BY <1>3, <1>6, <1>7, ListsJoin
  <2> QED BY <2>1 DEF IsJoin
<1>. HIDE DEF doc
<1>. DEFINE n == Len(children)
            d == Len(doc.items)
<1>9. ASSUME NEW k \in DOMAIN children', k \notin DOMAIN children
      PROVE  k \in (n + 1)..(n + d)
  <2>1. n \in Nat /\ d \in Nat /\ k \in 1..(n + d) /\ k \notin 1..n
    BY <1>2, <1>6, <1>7, <1>8, <1>9
  <2>. HIDE DEF n, d
  <2> QED BY <2>1
<1>10. ASSUME NEW k \in (n + 1)..(n + d) PROVE k \in 1..(n + d)
  <2>1. n \in Nat /\ d \in Nat
    BY <1>2, <1>7
  <2>. HIDE DEF n, d
  <2> QED BY <2>1, <1>10
<1>11. \A k \in DOMAIN children' : k \notin DOMAIN children =>
              /\ k - n \in DOMAIN doc.items
              /\ children'[k] = Copied(doc.items[k - n], doc, Here.at)
  BY <1>2, <1>5, <1>6, <1>8, <1>9
<1>12. \A j \in DOMAIN doc.items :
              /\ n + j \in DOMAIN children'
              /\ children'[n + j] = Copied(doc.items[j], doc, Here.at)
  BY <1>2, <1>5, <1>6, <1>8, <1>10
<1>. QED BY <1>2, <1>6, <1>7, <1>8, <1>11, <1>12 DEF doc

LEMMA ImportKeeps == Inv /\ Import => Inv'
<1>. SUFFICES ASSUME Inv, Import PROVE Inv'
  OBVIOUS
<1>. USE DEF Inv
<1>0. PICK at : at = Here.at
  OBVIOUS
<1>. DEFINE doc == repo.docs[at]
<1>1. /\ phase = "imports" /\ todo # {} /\ phase' = phase /\ repo' = repo /\ wsdl' = wsdl
      /\ imported' = imported \cup {at} /\ at \notin imported /\ again' = TRUE
      /\ todo' = todo \ {This} /\ at \in DOMAIN repo.docs /\ at # None
      /\ Location(children[This]) = at
  <2>1. at \in DOMAIN repo.docs /\ at # None
    BY <1>0, WSDLAssumption DEF Import, Unimportable, TypeInv, AnyRepository
  <2>2. Location(children[This]) = at
    BY <1>0, <2>1 DEF Location, Here
  <2> QED BY <1>0, <2>1, <2>2 DEF Import, InImports, Rest, Seen
<1>2. This \in todo /\ This \in Standing /\ This \in DOMAIN children /\ Here.kind = "import"
  BY <1>1, ThisOne
<1>3. Main' = Main /\ Mains' = Mains /\ (Agreeing' <=> Agreeing) /\ \A ls : Closed(ls)' <=> Closed(ls)
  BY <1>1, SameDocuments
<1>4. ReachInv'
  BY <1>0, <1>1, <1>2, <1>3, ImportReached DEF ReachInv, Here
<1>5. ReadInv' /\ EndInv' /\ RoundInv'
  BY <1>1 DEF ReadInv, Read, EndInv, RoundInv
<1>6. CASE doc.tns # Here.ns
  <2>1. children' = children /\ gone' = gone
    BY <1>0, <1>6 DEF Import, Merge
  <2>2. TypeInv'
    BY <1>1, <1>2, <2>1 DEF TypeInv, Standing, Imports
  <2>3. KidsInv'
    BY <1>1, <1>3, <2>1 DEF KidsInv, CopyOf
  <2>4. GoneInv'
    BY <1>1, <2>1 DEF GoneInv, Location
  <2>5. MergeInv'
    <3>1. Here.at # None
      BY <1>0, <1>1
    <3>2. ~Agreeing
      BY <1>0, <1>2, <1>6, <3>1, ImportAgrees DEF Here
    <3> QED BY <1>3, <3>2 DEF MergeInv
  <2>6. BlockInv'
    BY <1>1, <1>3, <2>1 DEF BlockInv, Block
  <2> QED BY <1>4, <1>5, <2>2, <2>3, <2>4, <2>5, <2>6
<1>7. CASE doc.tns = Here.ns
  <2>. DEFINE n == Len(children)
              d == Len(doc.items)
  <2>1. /\ AList(children') /\ d \in Nat /\ n \in Nat
        /\ Len(children') = n + d
        /\ DOMAIN children' = 1..(n + d) /\ DOMAIN doc.items = 1..d
        /\ DOMAIN children = 1..n
        /\ \A k \in DOMAIN children : children'[k] = children[k]
        /\ \A k \in DOMAIN children' : k \notin DOMAIN children =>
             /\ k - n \in DOMAIN doc.items
             /\ children'[k] = Copied(doc.items[k - n], doc, at)
        /\ \A j \in DOMAIN doc.items :
             /\ n + j \in DOMAIN children'
             /\ children'[n + j] = Copied(doc.items[j], doc, at)
    BY <1>0, <1>7, ImportJoins
  <2>2. gone' = gone \cup {This}
    BY <1>0, <1>7 DEF Import, Merge
  <2>3. DOMAIN children \subseteq DOMAIN children'
    BY <2>1
  <2>4. Mains \in Nat /\ n >= Mains /\ 1..Mains \subseteq DOMAIN children
    <3>1. Mains \in Nat
      BY RepositoryType, ListType DEF TypeInv, Mains
    <3> QED BY <2>1, <3>1 DEF KidsInv
  <2>5. \A k \in DOMAIN children' : k \notin DOMAIN children => k \in (n + 1)..(n + d) /\ k > Mains
    <3>. HIDE DEF n, d
    <3> QED BY <2>1, <2>4
  <2>6. \A k \in DOMAIN children : children[k].from = at => ~(k > Mains)
    BY <1>1, KidFrom
  <2>7. \A k \in DOMAIN children' : k \notin DOMAIN children => children'[k].from = at
    <3>1. \A item : Copied(item, doc, at).from = at
      BY DEF Copied
    <3> QED BY <2>1, <3>1
  <2>. HIDE DEF n, d, doc
  <2>8. TypeInv'
    <3>1. gone' \subseteq DOMAIN children'
      BY <1>2, <2>2, <2>3 DEF TypeInv
    <3>2. todo' \subseteq Standing'
      BY <1>1, <2>2, <2>3 DEF TypeInv, Standing
    <3>3. todo' \subseteq Imports'
      BY <1>1, <2>1, <3>2 DEF TypeInv, Standing, Imports
    <3> QED BY <1>1, <2>1, <3>1, <3>2, <3>3 DEF TypeInv
  <2>9. KidsInv'
    <3>1. Len(children') >= Mains
      BY <2>1, <2>4
    <3>2. \A k \in 1..Mains : children'[k] = Original(Main.items[k], Main, repo.root)
      BY <2>1, <2>4 DEF KidsInv
    <3>3. ASSUME NEW k \in DOMAIN children', k > Mains
          PROVE  \E l \in imported' : CopyOf(children'[k], l)
      <4>1. CASE k \in DOMAIN children
        BY <1>1, <2>1, <3>3, <4>1 DEF KidsInv
      <4>2. CASE k \notin DOMAIN children
        <5>1. CopyOf(children'[k], at)
          BY <2>1, <4>2 DEF CopyOf, doc
        <5> QED BY <1>1, <5>1
      <4> QED BY <4>1, <4>2
    <3>4. \A l : \A k \in DOMAIN children' : CopyOf(children[k], l)' <=> CopyOf(children'[k], l)
      BY <1>1 DEF CopyOf
    <3> QED BY <1>1, <1>3, <3>1, <3>2, <3>3, <3>4 DEF KidsInv
  <2>10. GoneInv'
    BY <1>0, <1>1, <1>2, <2>1, <2>2, Zenon DEF GoneInv, TypeInv, Here, Location
  <2>11. MergeInv'
    <3>1. ASSUME NEW l \in imported, Merged(l) PROVE Merged(l)'
      BY <1>1, <2>1, <2>3, <3>1 DEF Merged
    <3>2. Merged(at)'
      BY <1>1, <2>1 DEF Merged, doc
    <3> QED BY <1>1, <1>3, <3>1, <3>2 DEF MergeInv
  <2>12. BlockInv'
    <3>1. ASSUME NEW l \in DOMAIN repo.docs, l # at PROVE Block(l)'
      <4>1. PICK b \in Nat : \A k \in DOMAIN children :
              children[k].from = l /\ k > Mains => k \in (b + 1)..(b + Len(repo.docs[l].items))
        BY <3>1 DEF BlockInv, Block
      <4>2. \A k \in DOMAIN children' :
              children'[k].from = l /\ k > Mains => k \in (b + 1)..(b + Len(repo.docs[l].items))
        BY <2>1, <2>7, <3>1, <4>1
      <4> QED BY <1>1, <1>3, <4>2 DEF Block
    <3>2. Block(at)'
      <4>1. \A k \in DOMAIN children' :
              children'[k].from = at /\ k > Mains => k \in (n + 1)..(n + d)
        BY <2>1, <2>5, <2>6
      <4> QED BY <1>1, <1>3, <2>1, <4>1 DEF Block, d, doc
    <3> QED BY <1>1, <3>1, <3>2 DEF BlockInv
  <2> QED BY <1>4, <1>5, <2>8, <2>9, <2>10, <2>11, <2>12
<1>. QED BY <1>6, <1>7

\* What a step keeps that does not change the tree.
LEMMA SameChildren ==
  ASSUME Inv, UNCHANGED <<repo, children, gone, imported>>
  PROVE  TreeInv' /\ GoneInv' /\ Standing' = Standing /\ Imports' = Imports
<1>1. TreeInv'
  BY SameTree DEF Inv, TreeInv
<1>2. GoneInv'
  BY DEF Inv, GoneInv, Location
<1>3. Standing' = Standing /\ Imports' = Imports
  BY DEF Standing, Imports
<1>. QED BY <1>1, <1>2, <1>3

LEMMA StopKeeps == Inv /\ (ImportFails \/ ItemFails \/ UNCHANGED vars) => Inv'
<1>. SUFFICES ASSUME Inv, ImportFails \/ ItemFails \/ UNCHANGED vars PROVE Inv'
  OBVIOUS
<1>1. /\ UNCHANGED <<repo, children, gone, imported, todo, wsdl, again>>
      /\ phase' = "failed" \/ phase' = phase
  BY DEF ImportFails, ItemFails, Fail, vars
<1>2. TreeInv' /\ GoneInv' /\ Standing' = Standing /\ Imports' = Imports
  BY <1>1, SameChildren
<1>3. TypeInv'
  BY <1>1, <1>2 DEF Inv, TypeInv
<1>4. RoundInv' /\ EndInv'
  BY <1>1, <1>2 DEF Inv, RoundInv, EndInv
<1>5. \A c : Component(c)' = Component(c)
  BY <1>1, SameComponents
<1>6. ReadInv'
  <2>1. ASSUME NEW kind \in Kinds, phase' # "failed" PROVE Read(kind)' = Read(kind)
    BY <1>1, <1>2, <1>5, <2>1 DEF Read
  <2> QED BY <1>1, <2>1 DEF Inv, ReadInv
<1>. QED BY <1>2, <1>3, <1>4, <1>6 DEF Inv, TreeInv

LEMMA RoundKeeps == Inv /\ NextRound => Inv'
<1>. SUFFICES ASSUME Inv, NextRound PROVE Inv'
  OBVIOUS
<1>1. /\ UNCHANGED <<repo, children, gone, imported, wsdl>>
      /\ phase = "imports" /\ todo = {} /\ again' = FALSE
      /\ \/ again /\ todo' = Imports /\ phase' = phase
         \/ ~again /\ todo' = Standing /\ phase' = "items"
  BY DEF NextRound
<1>2. TreeInv' /\ GoneInv' /\ Standing' = Standing /\ Imports' = Imports
  BY <1>1, SameChildren
<1>3. TypeInv'
  BY <1>1, <1>2 DEF Inv, TypeInv, Imports
<1>4. RoundInv' /\ EndInv'
  BY <1>1, <1>2 DEF Inv, RoundInv, EndInv
<1>5. ASSUME NEW kind \in Kinds PROVE Read(kind)' = {}
  BY <1>1, <1>2 DEF Read
<1>6. ReadInv'
  BY <1>1, <1>5 DEF Inv, ReadInv, Read
<1>. QED BY <1>2, <1>3, <1>4, <1>6 DEF Inv, TreeInv

LEMMA ItemKeeps == Inv /\ ReadItem => Inv'
<1>. SUFFICES ASSUME Inv, ReadItem PROVE Inv'
  OBVIOUS
<1>. DEFINE c == children[This]
<1>1. /\ UNCHANGED <<repo, children, gone, imported, again, phase>>
      /\ phase = "items" /\ todo # {} /\ todo' = todo \ {This}
      /\ wsdl' = IF c.item.kind \notin Kinds THEN wsdl
                 ELSE [wsdl EXCEPT ![c.item.kind] = Append(@, Component(c))]
  BY DEF ReadItem, InItems
<1>2. TreeInv' /\ GoneInv' /\ Standing' = Standing /\ Imports' = Imports
  BY <1>1, SameChildren
<1>3. This \in todo /\ This \in Standing
  BY <1>1, ThisOne DEF Inv
<1>4. RoundInv' /\ EndInv'
  BY <1>1, <1>2 DEF Inv, RoundInv, EndInv
<1>5. \A d : Component(d)' = Component(d)
  BY <1>1, SameComponents
<1>6. ASSUME NEW kind \in Kinds
      PROVE  wsdl'[kind] = IF c.item.kind = kind THEN Append(wsdl[kind], Component(c)) ELSE wsdl[kind]
  BY <1>1 DEF Inv, TypeInv
<1>7. ASSUME NEW kind \in Kinds
      PROVE  /\ AList(wsdl'[kind])
             /\ ToSet(wsdl'[kind]) = IF c.item.kind = kind THEN ToSet(wsdl[kind]) \cup {Component(c)}
                                     ELSE ToSet(wsdl[kind])
  <2>1. AList(wsdl[kind])
    BY DEF Inv, TypeInv
  <2>2. AList(Append(wsdl[kind], Component(c)))
        /\ ToSet(Append(wsdl[kind], Component(c))) = ToSet(wsdl[kind]) \cup {Component(c)}
    BY <2>1, ListAppends
  <2> QED BY <1>6, <2>1, <2>2
<1>8. TypeInv'
  <2>1. wsdl' = [kind \in Kinds |-> wsdl'[kind]]
    BY <1>1 DEF Inv, TypeInv
  <2> QED BY <1>1, <1>2, <1>7, <2>1 DEF Inv, TypeInv
<1>9. ASSUME NEW kind \in Kinds PROVE ToSet(wsdl'[kind]) = Read(kind)'
  <2>1. Read(kind)' = {Component(children[k]) : k \in {j \in Standing \ todo' : children[j].item.kind = kind}}
    BY <1>1, <1>2, <1>5 DEF Read
  <2>2. Read(kind) = {Component(children[k]) : k \in {j \in Standing \ todo : children[j].item.kind = kind}}
    BY <1>1 DEF Read
  <2>3. Standing \ todo' = (Standing \ todo) \cup {This}
    BY <1>1, <1>3
  <2>4. ToSet(wsdl[kind]) = Read(kind)
    BY <1>1 DEF Inv, ReadInv
  <2>5. CASE c.item.kind = kind
    <3>. DEFINE A == {j \in Standing \ todo : children[j].item.kind = kind}
                B == {j \in Standing \ todo' : children[j].item.kind = kind}
    <3>1. B = A \cup {This}
      BY <2>3, <2>5
    <3>. HIDE DEF A, B
    <3>2. {Component(children[k]) : k \in B} = {Component(children[k]) : k \in A} \cup {Component(c)}
      BY <3>1
    <3>3. Read(kind)' = Read(kind) \cup {Component(c)}
      BY <2>1, <2>2, <3>2 DEF A, B
    <3> QED BY <1>7, <2>4, <2>5, <3>3
  <2>6. CASE c.item.kind # kind
    BY <1>7, <2>1, <2>2, <2>3, <2>4, <2>6, Zenon
  <2> QED BY <2>5, <2>6
<1>10. ReadInv'
  BY <1>1, <1>9 DEF ReadInv
<1>. QED BY <1>2, <1>4, <1>8, <1>10 DEF Inv, TreeInv

LEMMA LoadedKeeps == Inv /\ Loaded => Inv'
<1>. SUFFICES ASSUME Inv, Loaded PROVE Inv'
  OBVIOUS
<1>1. /\ UNCHANGED <<repo, children, gone, imported, todo, wsdl, again>>
      /\ phase = "items" /\ todo = {} /\ phase' = "loaded"
  BY DEF Loaded
<1>2. TreeInv' /\ GoneInv' /\ Standing' = Standing /\ Imports' = Imports
  BY <1>1, SameChildren
<1>3. TypeInv'
  BY <1>1, <1>2 DEF Inv, TypeInv
<1>4. RoundInv' /\ EndInv'
  BY <1>1, <1>2 DEF Inv, RoundInv, EndInv
<1>5. \A c : Component(c)' = Component(c)
  BY <1>1, SameComponents
<1>6. ASSUME NEW kind \in Kinds PROVE Read(kind)' = Read(kind)
  BY <1>1, <1>2, <1>5 DEF Read
<1>7. ReadInv'
  BY <1>1, <1>6 DEF Inv, ReadInv
<1>. QED BY <1>2, <1>3, <1>4, <1>7 DEF Inv, TreeInv

THEOREM Invariance == Spec => []Inv
<1>1. Init => Inv
  BY InitInv
<1>2. Inv /\ [Next]_vars => Inv'
  BY AgainKeeps, ImportKeeps, StopKeeps, RoundKeeps, ItemKeeps, LoadedKeeps DEF Next
<1>. QED BY <1>1, <1>2, PTL DEF Spec

------------------------------------------------------------------------------
\* What is loaded is what the documents say.

LEMMA IntervalSize ==
  ASSUME NEW b \in Nat, NEW n \in Nat
  PROVE  IsFiniteSet((b + 1)..(b + n)) /\ Cardinality((b + 1)..(b + n)) = n
<1>1. b + 1 \in Int /\ b + n \in Int /\ (b + n) - (b + 1) + 1 = n /\ (b + 1 > b + n => n = 0)
  OBVIOUS
<1>. QED BY <1>1, FS_Interval

LEMMA ItemsMergedOnce ==
  ASSUME Inv PROVE MergedOnce
<1>. SUFFICES ASSUME NEW l \in DOMAIN repo.docs
     PROVE  Cardinality({k \in Standing : children[k].from = l})
              <= Len(repo.docs[l].items) * (IF l = repo.root THEN 2 ELSE 1)
  BY DEF MergedOnce
<1>. DEFINE S == {k \in Standing : children[k].from = l}
            n == Len(repo.docs[l].items)
<1>1. n \in Nat /\ Mains \in Nat /\ (l = repo.root => n = Mains)
  BY RepositoryType, ListType DEF Inv, TypeInv, Mains, Main
<1>2. PICK b \in Nat : \A k \in DOMAIN children : children[k].from = l /\ k > Mains => k \in (b + 1)..(b + n)
  BY DEF Inv, BlockInv, Block
<1>. DEFINE A == (0 + 1)..(0 + n)
            B == (b + 1)..(b + n)
<1>3. IsFiniteSet(A) /\ Cardinality(A) = n /\ IsFiniteSet(B) /\ Cardinality(B) = n
  BY <1>1, IntervalSize
<1>4. ASSUME NEW k \in S PROVE k \in B \/ (l = repo.root /\ k \in A)
  <2>1. k \in DOMAIN children /\ k \in Nat \ {0} /\ children[k].from = l
    BY ListType DEF Inv, TypeInv, Standing
  <2>2. CASE k > Mains
    BY <1>2, <2>1, <2>2
  <2>3. CASE ~(k > Mains)
    <3>1. k <= Mains /\ k \in 1..Mains
      BY <1>1, <2>1, <2>3
    <3>2. l = repo.root
      BY <2>1, <3>1, KidFrom DEF Inv
    <3> QED BY <1>1, <3>1, <3>2
  <2> QED BY <2>2, <2>3
<1>. HIDE DEF S, A, B, n
<1>5. CASE l # repo.root
  <2>1. S \subseteq B
    BY <1>4, <1>5
  <2>2. Cardinality(S) <= n
    BY <1>3, <2>1, FS_Subset
  <2>3. n * 1 = n
    BY <1>1
  <2> QED BY <1>5, <2>2, <2>3 DEF S, n
<1>6. CASE l = repo.root
  <2>1. S \subseteq A \cup B
    BY <1>4
  <2>2. /\ IsFiniteSet(A \cup B)
        /\ Cardinality(A \cup B) = Cardinality(A) + Cardinality(B) - Cardinality(A \cap B)
    BY <1>3, FS_Union
  <2>3. IsFiniteSet(A \cap B) /\ Cardinality(A \cap B) \in Nat
    BY <1>3, FS_Intersection, FS_CardinalityType
  <2>4. Cardinality(S) <= Cardinality(A \cup B) /\ Cardinality(S) \in Nat
    BY <2>1, <2>2, FS_Subset, FS_CardinalityType
  <2>5. Cardinality(S) <= n * 2
    BY <1>1, <1>3, <2>2, <2>3, <2>4
  <2> QED BY <1>6, <2>5 DEF S, n
<1>. QED BY <1>5, <1>6

\* An item as its document means it.
Meant(i, l) == [Original(i, repo.docs[l], l) EXCEPT !.tns = repo.docs[l].tns]

LEMMA CopyMeant ==
  ASSUME AnyRepository(repo), NEW l \in DOMAIN repo.docs, NEW i, ~Clashes(i, repo.docs[l])
  PROVE  /\ Component(Copied(i, repo.docs[l], l)) = Component(Meant(i, l))
         /\ l = repo.root => Component(Original(i, Main, repo.root)) = Component(Meant(i, l))
<1>. DEFINE doc == repo.docs[l]
            c == Copied(i, doc, l)
            o == Original(i, doc, l)
            m == Meant(i, l)
<1>1. doc.tns # NoNs
  BY WSDLAssumption DEF AnyRepository
<1>2. c.item = i /\ c.scope = Over(doc.scope, i.own) /\ c.tns = doc.tns
  BY DEF Copied
<1>3. o.item = i /\ o.scope = Over(i.own, doc.scope) /\ o.tns = NoNs
  BY DEF Original
<1>4. m.item = i /\ m.scope = Over(i.own, doc.scope) /\ m.tns = doc.tns
  BY DEF Meant, Original
<1>5. Over(doc.scope, i.own) = Over(i.own, doc.scope)
  BY DEF Clashes, Over
<1>. HIDE DEF c, o, m
<1>6. TargetNS(c) = TargetNS(m)
  BY <1>1, <1>2, <1>4 DEF TargetNS
<1>7. Component(c) = Component(m)
  BY <1>2, <1>4, <1>5, <1>6, ComponentOf
<1>8. ASSUME l = repo.root PROVE Component(o) = Component(m)
  <2>1. TargetNS(o) = TargetNS(m)
    BY <1>1, <1>3, <1>4, <1>8 DEF TargetNS, Main
  <2> QED BY <1>3, <1>4, <2>1, ComponentOf
<1>. QED BY <1>7, <1>8 DEF c, o, m, Main

LEMMA InvLoadedAsDeclared ==
  ASSUME Inv PROVE LoadedAsDeclared
<1>. SUFFICES ASSUME phase = "loaded", Agreeing, WithoutClashes
     PROVE  MergedOnce /\ \A kind \in Kinds : ToSet(wsdl[kind]) = Declared(kind)
  BY DEF LoadedAsDeclared
<1>. DEFINE R == imported \cup {repo.root}
<1>1. Imports = {} /\ todo = {} /\ AnyRepository(repo)
  BY DEF Inv, RoundInv, EndInv, TypeInv
<1>2. R \in SUBSET DOMAIN repo.docs
  BY <1>1, RepositoryType DEF Inv, TypeInv
<1>3. ASSUME NEW l \in R, NEW i \in ToSet(repo.docs[l].items)
      PROVE  \E k \in DOMAIN children :
               /\ children[k].item = i
               /\ \/ children[k] = Copied(i, repo.docs[l], l)
                  \/ l = repo.root /\ children[k] = Original(i, Main, repo.root)
  <2>1. PICK j \in DOMAIN repo.docs[l].items : i = repo.docs[l].items[j]
    BY DEF ToSet
  <2>2. CASE l \in imported
    <3>1. PICK k \in DOMAIN children : children[k] = Copied(i, repo.docs[l], l)
      BY <2>1, <2>2 DEF Inv, MergeInv, Merged
    <3>2. children[k].item = i
      BY <3>1 DEF Copied
    <3> QED BY <3>1, <3>2
  <2>3. CASE l = repo.root
    <3>1. /\ j \in 1..Mains /\ i = Main.items[j]
          /\ Mains \in Nat /\ Len(children) \in Nat /\ DOMAIN children = 1..Len(children)
      BY <2>1, <2>3, RepositoryType, ListType DEF Inv, TypeInv, Main, Mains
    <3>2. j \in DOMAIN children /\ children[j] = Original(i, Main, repo.root)
      BY <3>1 DEF Inv, KidsInv
    <3>3. children[j].item = i
      BY <3>2 DEF Original
    <3> QED BY <2>3, <3>2, <3>3
  <2> QED BY <2>2, <2>3
<1>4. \A k \in DOMAIN children : children[k].item.kind = "import" => Location(children[k]) \in imported
  BY <1>1 DEF Inv, GoneInv, Imports, Standing
<1>5. Closed(R)
  <2>1. ASSUME NEW l \in R, NEW i \in ImportsOf(l) PROVE i.at \in R
    BY <1>3, <1>4 DEF ImportsOf, Location
  <2> QED BY <2>1 DEF Closed
<1>6. Reached = R
  <2>1. Reached \subseteq R
    BY <1>2, <1>5 DEF Reached
  <2>2. \A ls \in SUBSET DOMAIN repo.docs : Closed(ls) => R \subseteq ls
    BY DEF Inv, ReachInv, Closed
  <2>3. R \subseteq Reached
    BY <1>2, <2>2 DEF Reached
  <2> QED BY <2>1, <2>3
<1>. HIDE DEF R
<1>7. ASSUME NEW kind \in Kinds PROVE ToSet(wsdl[kind]) = Declared(kind)
  <2>0. kind # "import"
    BY DEF Kinds
  <2>1. ToSet(wsdl[kind]) = {Component(children[k]) : k \in {j \in DOMAIN children : children[j].item.kind = kind}}
    <3>1. ToSet(wsdl[kind]) = {Component(children[k]) : k \in {j \in Standing \ todo : children[j].item.kind = kind}}
      BY DEF Inv, ReadInv, Read
    <3>2. {j \in Standing \ todo : children[j].item.kind = kind} = {j \in DOMAIN children : children[j].item.kind = kind}
      BY <1>1, <2>0 DEF Inv, GoneInv, Standing
    <3> QED BY <3>1, <3>2
  <2>2. Declared(kind) =
          UNION {{Component(Meant(i, l)) : i \in {j \in ToSet(repo.docs[l].items) : j.kind = kind}} : l \in R}
    BY <1>6 DEF Declared, Meant
  <2>3. ASSUME NEW l \in R, NEW i \in ToSet(repo.docs[l].items), i.kind = kind
        PROVE  /\ Component(Copied(i, repo.docs[l], l)) = Component(Meant(i, l))
               /\ l = repo.root => Component(Original(i, Main, repo.root)) = Component(Meant(i, l))
    <3>1. ~Clashes(i, repo.docs[l]) /\ l \in DOMAIN repo.docs
      BY <1>2, <1>6, <2>3 DEF WithoutClashes, R
    <3> QED BY <1>1, <3>1, CopyMeant
  <2>4. ASSUME NEW k \in DOMAIN children, children[k].item.kind = kind
        PROVE  Component(children[k]) \in Declared(kind)
    <3>1. PICK l \in R : \E j \in DOMAIN repo.docs[l].items :
            /\ children[k].item = repo.docs[l].items[j] /\ children[k].from = l
            /\ k <= Mains => l = repo.root
            /\ k > Mains => l \in imported
      BY KidFrom DEF Inv, R
    <3>. DEFINE i == children[k].item
    <3>2. i \in ToSet(repo.docs[l].items) /\ i.kind = kind
      BY <2>4, <3>1 DEF ToSet
    <3>3. children[k] = Copied(i, repo.docs[l], l) \/ (l = repo.root /\ children[k] = Original(i, Main, repo.root))
      <4>1. k \in Nat /\ Mains \in Nat /\ k \in 1..Len(children)
        BY RepositoryType, ListType DEF Inv, TypeInv, Mains
      <4>2. CASE k <= Mains
        <5>1. k \in 1..Mains
          BY <4>1, <4>2
        <5>2. children[k] = Original(Main.items[k], Main, repo.root)
          BY <5>1 DEF Inv, KidsInv
        <5>3. i = Main.items[k]
          BY <5>2 DEF Original
        <5> QED BY <3>1, <4>2, <5>2, <5>3
      <4>3. CASE k > Mains
        <5>1. PICK m \in imported : CopyOf(children[k], m)
          BY <4>3 DEF Inv, KidsInv
        <5>2. PICK j \in DOMAIN repo.docs[m].items : children[k] = Copied(repo.docs[m].items[j], repo.docs[m], m)
          BY <5>1 DEF CopyOf
        <5>3. i = repo.docs[m].items[j] /\ m = l
          BY <3>1, <5>2 DEF Copied
        <5> QED BY <5>2, <5>3
      <4> QED BY <4>1, <4>2, <4>3
    <3>4. Component(children[k]) = Component(Meant(i, l))
      BY <2>3, <3>2, <3>3
    <3> QED BY <2>2, <3>2, <3>4
  <2>5. ASSUME NEW l \in R, NEW i \in ToSet(repo.docs[l].items), i.kind = kind
        PROVE  Component(Meant(i, l)) \in ToSet(wsdl[kind])
    <3>1. PICK k \in DOMAIN children :
               /\ children[k].item = i
               /\ \/ children[k] = Copied(i, repo.docs[l], l)
                  \/ l = repo.root /\ children[k] = Original(i, Main, repo.root)
      BY <1>3, Zenon DEF R
    <3>2. Component(children[k]) = Component(Meant(i, l))
      BY <2>3, <2>5, <3>1
    <3>3. children[k].item.kind = kind
      BY <2>5, <3>1
    <3> QED BY <2>1, <3>2, <3>3
  <2>6. ToSet(wsdl[kind]) \subseteq Declared(kind)
    BY <2>1, <2>4
  <2>7. Declared(kind) \subseteq ToSet(wsdl[kind])
    BY <2>2, <2>5
  <2> QED BY <2>6, <2>7
<1>. QED BY <1>7, ItemsMergedOnce

(* Of every WSDL that loads, whatever documents import one another, what is *)
(* held of a kind is what all documents declare that are reached, as each   *)
(* means it, and no item is merged twice: WSDL.load and _import.            *)
THEOREM WSDLHoldsDeclared == Spec => []LoadedAsDeclared
BY Invariance, InvLoadedAsDeclared, PTL

------------------------------------------------------------------------------
\* A call is described as the documents describe it.

LEMMA LastOfIs ==
  ASSUME NEW list, AList(list), NEW places \in SUBSET DOMAIN list, LastOf(list, places) # None
  PROVE  \E k \in places : LastOf(list, places) = list[k]
<1>1. places # {} /\ LastOf(list, places) = list[Max(places)]
  BY DEF LastOf
<1>2. Max(places) \in places
  BY <1>1, ListType, GreatestElement
<1>. QED BY <1>1, <1>2

LEMMA NamedIs ==
  ASSUME NEW list, AList(list), NEW name, Named(list, name) # None
  PROVE  \E k \in DOMAIN list : Named(list, name) = list[k] /\ list[k].name = name
<1>. DEFINE places == {k \in DOMAIN list : list[k].name = name}
<1>1. Named(list, name) = LastOf(list, places)
  BY DEF Named
<1>2. places \in SUBSET DOMAIN list
  OBVIOUS
<1>. HIDE DEF places
<1>3. \E k \in places : LastOf(list, places) = list[k]
  BY <1>1, <1>2, LastOfIs
<1>. QED BY <1>1, <1>3 DEF places

LEMMA FindIs ==
  ASSUME Inv, NEW kind \in Kinds, NEW key, Find(kind, key) # None
  PROVE  /\ Find(kind, key) \in ToSet(wsdl[kind])
         /\ <<Find(kind, key).ns, Find(kind, key).name>> = key
<1>. DEFINE list == wsdl[kind]
            places == {k \in DOMAIN list : <<list[k].ns, list[k].name>> = key}
<1>1. Find(kind, key) = LastOf(list, places) /\ AList(list)
  BY DEF Find, Inv, TypeInv
<1>2. places \in SUBSET DOMAIN list
  OBVIOUS
<1>. HIDE DEF places, list
<1>3. PICK k \in places : LastOf(list, places) = list[k]
  BY <1>1, <1>2, LastOfIs
<1>. QED BY <1>1, <1>3 DEF places, list, ToSet

\* The lists of a component, and the soap:body of a role.
LEMMA DeclaredIs ==
  ASSUME AnyRepository(repo), NEW kind \in Kinds, NEW x \in Declared(kind)
  PROVE  \E c : x = Component(c) /\ Item(c.item) /\ c.item.kind = kind
<1>1. PICK l \in Reached : \E i \in {j \in ToSet(repo.docs[l].items) : j.kind = kind} : x = Component(Meant(i, l))
  BY DEF Declared, Meant
<1>2. PICK i \in ToSet(repo.docs[l].items) : i.kind = kind /\ x = Component(Meant(i, l))
  BY <1>1
<1>3. Item(i)
  BY <1>1, <1>2 DEF AnyRepository, ToSet, Reached
<1>4. Meant(i, l).item = i
  BY DEF Meant, Original
<1>. QED BY <1>2, <1>3, <1>4

LEMMA MessageParts ==
  ASSUME AnyRepository(repo), NEW x \in Declared("message")
  PROVE  AList(x.parts)
<1>1. PICK c : x = Component(c) /\ Item(c.item) /\ c.item.kind = "message"
  BY DeclaredIs DEF Kinds
<1>2. AList(c.item.parts)
  BY <1>1 DEF Item
<1>3. x = Message(c)
  BY <1>1 DEF Component
<1>4. x.parts = [k \in DOMAIN c.item.parts |-> x.parts[k]]
  BY <1>3 DEF Message
<1>. QED BY <1>2, <1>4, ListType, FunctionIsList

LEMMA PortTypeOperations ==
  ASSUME AnyRepository(repo), NEW x \in Declared("portType")
  PROVE  AList(x.operations)
<1>1. PICK c : x = Component(c) /\ Item(c.item) /\ c.item.kind = "portType"
  BY DeclaredIs DEF Kinds
<1>2. AList(c.item.operations)
  BY <1>1 DEF Item
<1>3. x = PortType(c)
  BY <1>1 DEF Component
<1>4. x.operations = [k \in DOMAIN c.item.operations |-> x.operations[k]]
  BY <1>3 DEF PortType
<1>. QED BY <1>2, <1>4, ListType, FunctionIsList

LEMMA BindingOperations ==
  ASSUME AnyRepository(repo), NEW x \in Declared("binding")
  PROVE  /\ AList(x.operations)
         /\ \A ob \in ToSet(x.operations) : \A r \in {ob.input, ob.output} :
              r # None /\ r.body # None => r.body.parts = All \/ AList(r.body.parts)
<1>1. PICK c : x = Component(c) /\ Item(c.item) /\ c.item.kind = "binding"
  BY DeclaredIs DEF Kinds
<1>2. /\ AList(c.item.operations)
      /\ \A k \in DOMAIN c.item.operations :
           \A r \in {c.item.operations[k].input, c.item.operations[k].output} : r = None \/ Role(r)
  BY <1>1 DEF Item
<1>3. x = Binding(c)
  BY <1>1 DEF Component
<1>4. x.operations = [k \in DOMAIN c.item.operations |-> OperationBinding(c, c.item.operations[k])]
  BY <1>3 DEF Binding
<1>5. AList(x.operations)
  BY <1>2, <1>4, ListType, FunctionIsList
<1>6. ASSUME NEW r, r = None \/ Role(r), ResolveRole(c, r) # None, ResolveRole(c, r).body # None
      PROVE  ResolveRole(c, r).body.parts = All \/ AList(ResolveRole(c, r).body.parts)
  <2>1. r # None /\ Role(r)
    BY <1>6 DEF ResolveRole
  <2>2. ResolveRole(c, r).body = r.body
    BY <2>1 DEF ResolveRole, Role
  <2>3. Body(r.body)
    BY <1>6, <2>1, <2>2 DEF Role
  <2>4. \A s \in Seq(Names) : AList(s)
    BY DEF AList, ToSet
  <2> QED BY <2>2, <2>3, <2>4 DEF Body
<1>7. ASSUME NEW ob \in ToSet(x.operations), NEW r \in {ob.input, ob.output}, r # None, r.body # None
      PROVE  r.body.parts = All \/ AList(r.body.parts)
  <2>1. PICK k \in DOMAIN c.item.operations : ob = OperationBinding(c, c.item.operations[k])
    BY <1>4 DEF ToSet
  <2>2. \E q \in {c.item.operations[k].input, c.item.operations[k].output} : r = ResolveRole(c, q)
    BY <1>7, <2>1 DEF OperationBinding
  <2> QED BY <1>2, <1>6, <1>7, <2>2
<1>. QED BY <1>5, <1>7

LEMMA ParametersListed ==
  ASSUME NEW message, AList(message.parts), NEW body, body.parts = All \/ AList(body.parts),
         Parameters(message, body).raised = None
  PROVE  Listed(message, body, Parameters(message, body).params)
<1>1. CASE body.parts = All
  <2>. DEFINE names == [k \in DOMAIN message.parts |-> message.parts[k].name]
              params == [k \in DOMAIN message.parts |-> message.parts[k].ref]
  <2>1. Parameters(message, body).params = params
    BY <1>1 DEF Parameters, Answer
  <2>2. DOMAIN message.parts = 1..Len(message.parts) /\ Len(message.parts) \in Nat
    BY ListType
  <2>3. names = [k \in 1..Len(message.parts) |-> names[k]] /\ params = [k \in 1..Len(message.parts) |-> params[k]]
    BY <2>2
  <2>4. Len(names) = Len(message.parts) /\ Len(params) = Len(message.parts)
    <3>. HIDE DEF names, params
    <3> QED BY <2>2, <2>3, FunctionIsList
  <2>5. \A k \in DOMAIN names :
          \E p \in ToSet(message.parts) : p.name = names[k] /\ p.ref = params[k]
    BY DEF ToSet
  <2> QED BY <1>1, <2>1, <2>4, <2>5 DEF Listed
<1>2. CASE body.parts # All
  <2>. DEFINE params == [k \in DOMAIN body.parts |-> Named(message.parts, body.parts[k]).ref]
  <2>0. "KeyError" # None
    BY WSDLAssumption DEF Exceptions
  <2>1. \A k \in DOMAIN body.parts : Named(message.parts, body.parts[k]) # None
    BY <1>2, <2>0 DEF Parameters, Answer
  <2>2. Parameters(message, body).params = params
    BY <1>2, <2>1 DEF Parameters, Answer
  <2>3. DOMAIN body.parts = 1..Len(body.parts) /\ Len(body.parts) \in Nat
    BY <1>2, ListType
  <2>4. params = [k \in 1..Len(body.parts) |-> params[k]]
    BY <2>3
  <2>5. Len(params) = Len(body.parts)
    <3>. HIDE DEF params
    <3> QED BY <2>3, <2>4, FunctionIsList
  <2>6. ASSUME NEW k \in DOMAIN body.parts
        PROVE  \E p \in ToSet(message.parts) : p.name = body.parts[k] /\ p.ref = params[k]
    <3>1. PICK j \in DOMAIN message.parts :
            Named(message.parts, body.parts[k]) = message.parts[j] /\ message.parts[j].name = body.parts[k]
      BY <2>1, NamedIs
    <3> QED BY <3>1 DEF ToSet
  <2> QED BY <1>2, <2>2, <2>5, <2>6 DEF Listed
<1>. QED BY <1>1, <1>2

LEMMA DirectionRaises ==
  ASSUME NEW ref, ref # None, NEW role, NEW missing \in Exceptions, Direction(ref, role, missing).raised = None
  PROVE  /\ Find("message", ref) # None /\ role # None /\ role.body # None
         /\ Direction(ref, role, missing) = Parameters(Find("message", ref), role.body)
<1>1. missing # None /\ "AttributeError" # None /\ "ValueError" # None /\ "KeyError" # None
  BY WSDLAssumption DEF Exceptions
<1>2. \A e, ps : Answer(e, ps).raised = e
  BY DEF Answer
<1>. QED BY <1>1, <1>2 DEF Direction

LEMMA CallRaises ==
  ASSUME NEW port, NEW name, callInfoFromWSDL(port, name).raised = None
  PROVE  LET binding == Find("binding", port.binding)
             portType == Find("portType", binding.ref)
             operation == Named(portType.operations, name)
             opbinding == Named(binding.operations, name)
             input == Direction(operation.input, opbinding.input, "KeyError")
             output == Direction(operation.output, opbinding.output, "NameError") IN
         /\ binding # None /\ portType # None /\ operation # None /\ opbinding # None
         /\ input.raised = None /\ output.raised = None
         /\ callInfoFromWSDL(port, name).in = input.params
         /\ callInfoFromWSDL(port, name).out = output.params
<1>1. "KeyError" # None /\ "WSDLError" # None /\ "ValueError" # None
  BY WSDLAssumption DEF Exceptions
<1>. QED BY <1>1 DEF callInfoFromWSDL

LEMMA DirectionListed ==
  ASSUME Inv, \A kind \in Kinds : ToSet(wsdl[kind]) = Declared(kind),
         NEW ref, ref # None, NEW role, NEW missing \in Exceptions,
         role # None /\ role.body # None => role.body.parts = All \/ AList(role.body.parts),
         Direction(ref, role, missing).raised = None
  PROVE  \E m \in Declared("message") :
           <<m.ns, m.name>> = ref /\ Listed(m, role.body, Direction(ref, role, missing).params)
<1>. DEFINE m == Find("message", ref)
<1>1. /\ m # None /\ role # None /\ role.body # None
      /\ Direction(ref, role, missing) = Parameters(m, role.body)
  BY DirectionRaises
<1>2. m \in Declared("message") /\ <<m.ns, m.name>> = ref
  BY <1>1, FindIs DEF Kinds
<1>3. AList(m.parts)
  BY <1>2, MessageParts DEF Inv, TypeInv
<1>. HIDE DEF m
<1>4. Listed(m, role.body, Parameters(m, role.body).params)
  BY <1>1, <1>3, ParametersListed
<1>. QED BY <1>1, <1>2, <1>4

\* Of components without duplicates, what is found is what is declared.
LEMMA FoundIsDeclared ==
  ASSUME Inv, Unambiguous, NEW kind \in Kinds, ToSet(wsdl[kind]) = Declared(kind),
         NEW x \in Declared(kind), Find(kind, <<x.ns, x.name>>) # None
  PROVE  Find(kind, <<x.ns, x.name>>) = x
<1>1. /\ Find(kind, <<x.ns, x.name>>) \in Declared(kind)
      /\ <<Find(kind, <<x.ns, x.name>>).ns, Find(kind, <<x.ns, x.name>>).name>> = <<x.ns, x.name>>
  BY FindIs
<1>. QED BY <1>1 DEF Unambiguous

LEMMA OperationIsNamed ==
  ASSUME Unambiguous, NEW x \in Declared("portType") \cup Declared("binding"), AList(x.operations),
         NEW o \in ToSet(x.operations), Named(x.operations, o.name) # None
  PROVE  Named(x.operations, o.name) = o
<1>1. PICK k \in DOMAIN x.operations :
        Named(x.operations, o.name) = x.operations[k] /\ x.operations[k].name = o.name
  BY NamedIs
<1>2. PICK j \in DOMAIN x.operations : o = x.operations[j]
  BY DEF ToSet
<1>3. j = k
  BY <1>1, <1>2 DEF Unambiguous
<1>. QED BY <1>1, <1>2, <1>3

LEMMA InvCallsAsDeclared ==
  ASSUME Inv PROVE CallsAsDeclared
<1>. SUFFICES ASSUME phase = "loaded", Agreeing, WithoutClashes, Unambiguous,
         NEW s \in Declared("service"), NEW b \in Declared("binding"), NEW t \in Declared("portType"),
         NEW port \in ToSet(s.ports), NEW o \in ToSet(t.operations), NEW ob \in ToSet(b.operations),
         port.binding = <<b.ns, b.name>>, b.ref = <<t.ns, t.name>>, ob.name = o.name,
         callInfoFromWSDL(port, o.name).raised = None,
         NEW d \in {<<o.input, ob.input, callInfoFromWSDL(port, o.name).in>>,
                    <<o.output, ob.output, callInfoFromWSDL(port, o.name).out>>},
         d[1] # None
     PROVE  \E m \in Declared("message") : <<m.ns, m.name>> = d[1] /\ Listed(m, d[2].body, d[3])
  BY DEF CallsAsDeclared
<1>1. \A kind \in Kinds : ToSet(wsdl[kind]) = Declared(kind)
  BY InvLoadedAsDeclared DEF LoadedAsDeclared
<1>2. AnyRepository(repo)
  BY DEF Inv, TypeInv
<1>. DEFINE call == callInfoFromWSDL(port, o.name)
            binding == Find("binding", port.binding)
            portType == Find("portType", binding.ref)
            operation == Named(portType.operations, o.name)
            opbinding == Named(binding.operations, o.name)
            input == Direction(operation.input, opbinding.input, "KeyError")
            output == Direction(operation.output, opbinding.output, "NameError")
<1>3. /\ binding # None /\ portType # None /\ operation # None /\ opbinding # None
      /\ input.raised = None /\ output.raised = None
      /\ call.in = input.params /\ call.out = output.params
  BY CallRaises
<1>4. binding = b
  BY <1>1, <1>3, FoundIsDeclared DEF Kinds
<1>5. portType = t
  BY <1>1, <1>3, <1>4, FoundIsDeclared DEF Kinds
<1>6. AList(t.operations) /\ AList(b.operations)
  BY <1>2, PortTypeOperations, BindingOperations
<1>7. operation = o
  BY <1>3, <1>5, <1>6, OperationIsNamed
<1>8. opbinding = ob
  <2>1. ob.name = o.name
    OBVIOUS
  <2>2. opbinding = Named(b.operations, ob.name)
    BY <1>4, <2>1
  <2> QED BY <1>3, <1>6, <2>2, OperationIsNamed
<1>9. "KeyError" \in Exceptions /\ "NameError" \in Exceptions
  BY DEF Exceptions
<1>10. input = Direction(o.input, ob.input, "KeyError") /\ output = Direction(o.output, ob.output, "NameError")
  BY <1>7, <1>8
<1>11. \A r \in {ob.input, ob.output} : r # None /\ r.body # None => r.body.parts = All \/ AList(r.body.parts)
  BY <1>2, BindingOperations
<1>. HIDE DEF call, binding, portType, operation, opbinding, input, output
<1>12. CASE d = <<o.input, ob.input, call.in>>
  <2>1. d[1] = o.input /\ d[2] = ob.input /\ d[3] = input.params
    BY <1>3, <1>12
  <2>2. \E m \in Declared("message") :
           <<m.ns, m.name>> = o.input /\ Listed(m, ob.input.body, Direction(o.input, ob.input, "KeyError").params)
    BY <1>1, <1>3, <1>9, <1>10, <1>11, <2>1, DirectionListed
  <2> QED BY <1>10, <2>1, <2>2
<1>13. CASE d = <<o.output, ob.output, call.out>>
  <2>1. d[1] = o.output /\ d[2] = ob.output /\ d[3] = output.params
    BY <1>3, <1>13
  <2>2. \E m \in Declared("message") :
           <<m.ns, m.name>> = o.output /\ Listed(m, ob.output.body, Direction(o.output, ob.output, "NameError").params)
    BY <1>1, <1>3, <1>9, <1>10, <1>11, <2>1, DirectionListed
  <2> QED BY <1>10, <2>1, <2>2
<1>. QED BY <1>12, <1>13 DEF call

(* Whatever was loaded, a call that callInfoFromWSDL describes has, in each *)
(* direction, the parts of the message that the port type of the port's     *)
(* binding names, in the order of soap:body or of the message.              *)
THEOREM CallsDescribeDeclared == Spec => []CallsAsDeclared
BY Invariance, InvCallsAsDeclared, PTL
==============================================================================
