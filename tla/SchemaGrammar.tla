---------------------------- MODULE SchemaGrammar ----------------------------
(***************************************************************************)
(* Reading the components of a schema: the fromDom method of every         *)
(* component class of ZSI/wstools/XMLSchema.py, with setAttributes and     *)
(* getXMLNS, which each of them starts with.                               *)
(*                                                                         *)
(* fromDom takes the children of an element one by one, in document order, *)
(* and reads each with a component object of its own before it goes on to  *)
(* the next: a recursion, here a stack of frames.  The document is not     *)
(* chosen beforehand: a step opens any child or closes the element, so the *)
(* behaviours are the documents.  A child whose tag is not in "contents"   *)
(* of the class is filtered out by getContents, which only a frame's       *)
(* "strays" remember; one that no branch makes a component of is ignored.  *)
(*                                                                         *)
(* What a class accepts is a row of Class: this is what the branches of    *)
(* its fromDom amount to.  The line "contents:" of its docstring is in     *)
(* Documented, for the properties alone.                                   *)
(***************************************************************************)
EXTENDS Integers, SequencesExt

CONSTANTS
  Ns,          \* namespaces
  NsPrefixes,    \* prefixes of names; NoPrefix is one of them
  NoPrefix,
  NoNs,        \* the empty string, which also undeclares a default namespace
  Givens,      \* sets of attribute names an element may have: names that some class
               \* requires or reads as a QName, and one no class knows
  Scopes,      \* xmlns declarations that an element may have
  Contexts,    \* the declarations of the schema element, after those of the WSDL's definitions
               \* if the schema is one of its types
  MaxKids,     \* bound: children of one element; those of one tag that are filtered count once
  MaxDepth,    \* bound: elements open at a time
  MaxSize      \* bound: elements of a component, those with declarations and those filtered counted twice

QNames == {"type", "element", "base", "ref", "substitutionGroup", "itemType", "memberTypes"}

ASSUME GrammarAssumption ==
  /\ NoPrefix \in NsPrefixes /\ NoNs \notin Ns
  /\ \A s \in Scopes : DOMAIN s \subseteq NsPrefixes /\ \A p \in DOMAIN s : s[p] \in Ns \cup {NoNs}
  /\ \A c \in Contexts : c \in Seq(Scopes) /\ Len(c) \in 1..2
  /\ MaxKids \in Nat /\ MaxDepth \in Nat /\ MaxSize \in Nat

------------------------------------------------------------------------------
\* The classes.  attributes: those a class knows, of AttributeNames.  kid: the
\* class that reads a child of each tag in "contents".  once: of each of these
\* sets one child at most.  first: only as the first child; lead: only first
\* or after an annotation; second: as the first or the second child.  last:
\* nothing may follow.  stop: what follows is not read.  refused: in
\* "contents", but no branch takes it.  ignored: in "contents", with a branch
\* that makes no component of it.  eager: looks at the next child without
\* checking that there is one.  single: tags that share one instance variable.

Plain ==
  [required |-> {}, attributes |-> {}, kid |-> <<>>, once |-> {}, first |-> {}, lead |-> {},
   second |-> {}, last |-> {}, stop |-> {}, refused |-> {}, ignored |-> {}, eager |-> {}, single |-> {{"annotation"}}]

\* The tags of all of these, each with its class.
Joined(kids) ==
  [tag \in UNION {DOMAIN k : k \in kids} |-> (CHOOSE k \in kids : tag \in DOMAIN k)[tag]]

Note == [annotation |-> "Annotation"]
Noted == [Plain EXCEPT !.kid = Note, !.once = {{"annotation"}}]
With(required, others, row) == [row EXCEPT !.required = required, !.attributes = required \cup others]
Reference == With({"ref"}, {}, Noted)

\* contents = {'xsd': 'annotation'} is a string, so getContents is given its
\* letters: an annotation of a notation is filtered out.
Notation == With({"name", "public"}, {}, Plain)
Annotation == [Plain EXCEPT !.ignored = {"documentation", "appinfo"}]
Include == With({"schemaLocation"}, {}, Noted)

AttributeDeclaration ==
  With({"name"}, {"type"},
       [Noted EXCEPT !.kid = Joined({@, [simpleType |-> "AnonymousSimpleType"]}),
                     !.single = @ \cup {{"simpleType"}}])
LocalAttributeDeclaration == AttributeDeclaration
AttributeWildCard == Noted
AttributeReference == Reference
AttributeKids ==
  [attribute |-> "LocalAttributeDeclaration", attributeGroup |-> "AttributeGroupReference",
   anyAttribute |-> "AttributeWildCard"]
AttributeGroupDefinition ==
  With({"name"}, {},
       [Plain EXCEPT !.kid = Joined({Note, AttributeKids}),
                     !.first = {"annotation"}, !.last = {"anyAttribute"}])
AttributeGroupReference == Reference

\* The fields are put into self.fields only when an annotation comes after them.
IdentityConstrants ==
  [Noted EXCEPT !.kid = Joined({@, [selector |-> "Selector", field |-> "Field"]}),
                !.single = @ \cup {{"selector"}}]
Selector == With({"xpath"}, {}, Noted)
Field == Selector
Unique == With({"name"}, {}, IdentityConstrants)
Key == Unique
KeyRef == With({"name", "refer"}, {}, IdentityConstrants)

ElementDeclaration ==
  With({"name"}, {"type", "substitutionGroup"},
       [Noted EXCEPT !.kid = Joined({@, [simpleType |-> "AnonymousSimpleType",
                                             complexType |-> "LocalComplexType",
                                             key |-> "Key", keyref |-> "KeyRef", unique |-> "Unique"]}),
                     !.once = @ \cup {{"simpleType", "complexType"}}])
LocalElementDeclaration == With({"name"}, {"type"}, ElementDeclaration)
ElementReference == Reference
ElementWildCard == Noted

All == [Noted EXCEPT !.kid = Joined({@, [element |-> "LocalElementDeclaration"]})]
Sequence ==
  [All EXCEPT !.kid = Joined({@, [group |-> "ModelGroupReference", choice |-> "Choice",
                                      sequence |-> "Sequence", any |-> "ElementWildCard"]})]
Choice == Sequence
Models == [all |-> "All", choice |-> "Choice", sequence |-> "Sequence"]
ModelGroupDefinition ==
  With({"name"}, {},
       [Noted EXCEPT !.kid = Joined({@, Models}), !.once = @ \cup {{"all", "choice", "sequence"}}])
ModelGroupReference == Reference

LocalComplexType ==
  [Plain EXCEPT !.kid = Joined({Note, Models, AttributeKids,
                                  [group |-> "ModelGroupReference", simpleContent |-> "SimpleContent",
                                   complexContent |-> "ComplexContent", any |-> "ElementWildCard"]}),
                !.first = {"annotation"},
                !.lead = {"all", "choice", "sequence", "group", "simpleContent", "complexContent"},
                !.stop = {"simpleContent", "complexContent"}, !.refused = {"any"}]
ComplexType == With({"name"}, {}, LocalComplexType)

DerivedType(restriction, extension) ==
  [Noted EXCEPT !.kid = Joined({@, [restriction |-> restriction, extension |-> extension]}),
                !.once = @ \cup {{"restriction", "extension"}}]
ComplexContent == DerivedType("DerivationBase", "DerivationBase")
DerivationBase ==
  With({"base"}, {},
       [Plain EXCEPT !.kid = Joined({Note, Models, AttributeKids, [group |-> "ModelGroupReference"]}),
                     !.first = {"annotation"}, !.lead = {"all", "choice", "sequence", "group"},
                     !.eager = {<<"annotation">>}])
SimpleContent == DerivedType("SimpleContentRestriction", "SimpleContentExtension")
SimpleContentExtension ==
  With({"base"}, {},
       [Plain EXCEPT !.kid = Joined({Note, AttributeKids}), !.first = {"annotation"},
                     !.eager = {<<"annotation">>}])
\* "facet" stands for the twelve of RestrictionMarker.facets.
SimpleContentRestriction ==
  With({"base"}, {},
       [Plain EXCEPT !.kid = Joined({Note, AttributeKids,
                                       [simpleType |-> "AnonymousSimpleType", facet |-> "Facet"]}),
                     !.first = {"annotation"}, !.refused = {"facet"},
                     !.eager = {<<>>, <<"annotation">>}])

AnonymousSimpleType ==
  [Plain EXCEPT !.kid = Joined({Note, [restriction |-> "SimpleTypeRestriction", list |-> "List", union |-> "Union"]}),
                !.stop = {"restriction", "list", "union"}]
SimpleType == With({"name"}, {}, AnonymousSimpleType)
\* A facet is kept as the node it is.
SimpleTypeRestriction ==
  With({}, {"base"},
       [Plain EXCEPT !.kid = Joined({Note, [simpleType |-> "AnonymousSimpleType", facet |-> "Facet"]}),
                     !.first = {"annotation"}, !.second = {"simpleType"}])
Facet == With({}, UNION Givens, Plain)
Simple ==
  [Plain EXCEPT !.kid = Joined({Note, [simpleType |-> "AnonymousSimpleType"]}), !.first = {"annotation"}]
MutUnion == With({}, {"memberTypes"}, [Simple EXCEPT !.single = @ \cup {{"simpleType"}}])
Union == With({}, {"memberTypes"}, Simple)
List == With({}, {"itemType"}, [Simple EXCEPT !.stop = {"simpleType"}])

\* The branches of XMLSchema.load that read a component or only warn; imports are in SchemaLoading.
XMLSchema ==
  [Plain EXCEPT !.kid =
     [attribute |-> "AttributeDeclaration", attributeGroup |-> "AttributeGroupDefinition",
      element |-> "ElementDeclaration", group |-> "ModelGroupDefinition", notation |-> "Notation",
      complexType |-> "ComplexType", simpleType |-> "SimpleType", include |-> "Include"],
                !.ignored = {"annotation", "redefine"}]

Class ==
  [XMLSchema |-> XMLSchema, Notation |-> Notation, Annotation |-> Annotation, Include |-> Include,
   AttributeDeclaration |-> AttributeDeclaration,
   LocalAttributeDeclaration |-> LocalAttributeDeclaration,
   AttributeWildCard |-> AttributeWildCard, AttributeReference |-> AttributeReference,
   AttributeGroupDefinition |-> AttributeGroupDefinition,
   AttributeGroupReference |-> AttributeGroupReference,
   Selector |-> Selector, Field |-> Field, Unique |-> Unique, Key |-> Key, KeyRef |-> KeyRef,
   ElementDeclaration |-> ElementDeclaration, LocalElementDeclaration |-> LocalElementDeclaration,
   ElementReference |-> ElementReference, ElementWildCard |-> ElementWildCard,
   Sequence |-> Sequence, All |-> All, Choice |-> Choice,
   ModelGroupDefinition |-> ModelGroupDefinition, ModelGroupReference |-> ModelGroupReference,
   ComplexType |-> ComplexType, LocalComplexType |-> LocalComplexType,
   ComplexContent |-> ComplexContent, DerivationBase |-> DerivationBase,
   SimpleContent |-> SimpleContent, SimpleContentExtension |-> SimpleContentExtension,
   SimpleContentRestriction |-> SimpleContentRestriction,
   SimpleType |-> SimpleType, AnonymousSimpleType |-> AnonymousSimpleType,
   SimpleTypeRestriction |-> SimpleTypeRestriction, Facet |-> Facet, Union |-> Union, List |-> List]

------------------------------------------------------------------------------
VARIABLES
  stack,  \* the elements whose fromDom runs, below them the schema and, in <types>, the adapter
  size,   \* of what was opened so far
  ended   \* how reading a component of the schema ended, and where

vars == <<stack, size, ended>>

Tags == UNION {DOMAIN Class[c].kid \cup Class[c].ignored : c \in DOMAIN Class}

Reading == [how |-> "reading", cause |-> "", class |-> "", read |-> <<>>]

\* read: the tags of the children so far.  kept: those whose component an
\* instance variable holds.  strays: the tags of those that were filtered.
\* notes: the annotations of the last child.  names: the prefix of a QName
\* among the attributes and its namespace, if any.
Frame(tag, class, scope, names) ==
  [tag |-> tag, class |-> class, scope |-> scope, names |-> names, read |-> <<>>,
   kept |-> {}, strays |-> {}, notes |-> 0]

Init ==
  /\ \E c \in Contexts :
       LET schema == Frame("schema", "XMLSchema", c[Len(c)], {}) IN
       stack = IF Len(c) = 1 THEN <<schema>>
               ELSE <<Frame("definitions", "WSDLToolsAdapter", c[1], {}), schema>>
  /\ size = 0 /\ ended = Reading

Top == stack[Len(stack)]
Row == Class[Top.class]
Has(read, tags) == \E i \in DOMAIN read : read[i] \in tags

\* Ends the reading: an exception passes through every fromDom on the stack.
Raise(how, cause, class, read) ==
  /\ ended' = [how |-> how, cause |-> cause, class |-> class, read |-> read]
  /\ stack' = <<>> /\ size' = 0

\* A child with this tag has its place after those read so far.  (The code
\* looks ahead for what follows a last one, whose own reading cannot end in
\* another exception.)
MutPlaced(class, read, tag) ==
  LET row == Class[class] IN
  /\ tag \notin row.refused /\ ~Has(read, row.last)
  /\ \A tags \in row.once : tag \in tags => ~Has(read, tags)
  /\ tag \in row.first => read = <<>>
  /\ tag \in row.lead => read \in {<<>>, <<"annotation">>}
  /\ tag \in row.second => read = <<>>
Placed(class, read, tag) ==
  LET row == Class[class] IN
  /\ tag \notin row.refused /\ ~Has(read, row.last)
  /\ \A tags \in row.once : tag \in tags => ~Has(read, tags)
  /\ tag \in row.first => read = <<>>
  /\ tag \in row.lead => read \in {<<>>, <<"annotation">>}
  /\ tag \in row.second => Len(read) <= 1

\* The class of the component for a child; "" if there is none.
KidClass(class, tag, given) ==
  CASE tag = "attribute" /\ class = "AttributeGroupDefinition" ->
         IF "name" \in given THEN "LocalAttributeDeclaration"
         ELSE IF "ref" \in given THEN "AttributeReference" ELSE ""
    [] tag = "attribute" /\ class \notin {"AttributeGroupDefinition", "XMLSchema"} /\ "ref" \in given ->
         "AttributeReference"
    [] tag = "element" /\ class # "XMLSchema" /\ "ref" \in given -> "ElementReference"
    [] tag = "attributeGroup" /\ class = "DerivationBase" /\ "ref" \notin given ->
         "AttributeGroupDefinition"
    [] OTHER -> Class[class].kid[tag]

\* __checkAttributes.
Legal(class, given) ==
  /\ class # "" /\ Class[class].required \subseteq given
  /\ given \subseteq Class[class].attributes \/ class = "AttributeReference"

\* getXMLNS: from the element outwards to the first declaration of the prefix
\* that is not empty.  The search ends at the adapter; a schema that is a
\* document of its own has no parent to go on to, and calling it raises.
MutOuter(st, prefix) ==
  LET declaring == {i \in DOMAIN st : prefix \in DOMAIN st[i].scope /\ st[i].scope[prefix] # NoNs}
  IN  IF declaring = {} THEN "TypeError" ELSE st[CHOOSE i \in declaring : \A j \in declaring : i <= j].scope[prefix]
getXMLNS(st, prefix) ==
  LET Search[i \in 0..Len(st)] ==
        IF i = 0 THEN "TypeError"
        ELSE IF prefix \in DOMAIN st[i].scope /\ st[i].scope[prefix] # NoNs THEN st[i].scope[prefix]
        ELSE IF st[i].class # "WSDLToolsAdapter" THEN Search[i - 1]
        ELSE IF prefix = NoPrefix THEN NoNs ELSE "SchemaError"
  IN  Search[Len(st)]

\* The innermost element has another child, within the bounds.
Another ==
  /\ ended = Reading
  /\ Len(Top.read) + Cardinality(Top.strays) < MaxKids /\ Len(stack) < MaxDepth /\ size < MaxSize
  /\ Top.class = "XMLSchema" => Top.read = <<>>

StraySize == 2

\* getContentList leaves it out.  (The children of a facet stay in its node.)
Filtered(tag) ==
  /\ Another /\ Top.class # "Facet" /\ size + StraySize <= MaxSize
  /\ tag \notin DOMAIN Row.kid \cup Row.ignored \cup Top.strays
  /\ stack' = [stack EXCEPT ![Len(stack)].strays = @ \cup {tag}]
  /\ size' = size + StraySize /\ UNCHANGED ended

\* No component is made of it, or it comes after the loop was left.
Ignored(tag) ==
  /\ Another
  /\ tag \in Row.ignored \/ (tag \in DOMAIN Row.kid /\ Has(Top.read, Row.stop))
  /\ stack' = [stack EXCEPT ![Len(stack)].read = Append(@, tag)]
  /\ size' = size + 1 /\ UNCHANGED ended

\* The innermost fromDom comes to a child with this tag.
Comes(tag) == Another /\ tag \in DOMAIN Row.kid /\ ~Has(Top.read, Row.stop)

Misplaced(tag) ==
  /\ ~Placed(Top.class, Top.read, tag)
  /\ Raise("SchemaError", "contents", Top.class, Append(Top.read, tag))

Size(scope) == IF scope = <<>> THEN 1 ELSE 2

\* fromDom of the child, up to the loop over its own children: setAttributes
\* checks the names of its attributes and then resolves their QNames.
BadAttributes(tag, given) ==
  /\ ~Legal(KidClass(Top.class, tag, given), given)
  /\ Raise("SchemaError", "attributes", Top.class, Append(Top.read, tag))

Open(tag, given, scope, prefix) ==
  LET class == KidClass(Top.class, tag, given)
      qnames == IF tag = "facet" THEN {} ELSE given \cap QNames
      ns == getXMLNS(Append(stack, Frame(tag, class, scope, {})), prefix)
  IN  /\ Legal(class, given)
      /\ qnames = {} => prefix = NoPrefix
      /\ size + Size(scope) <= MaxSize
      /\ IF qnames # {} /\ ns \in {"SchemaError", "TypeError"}
         THEN Raise(ns, "names", class, <<>>)
         ELSE /\ stack' = Append(stack, Frame(tag, class, scope, IF qnames = {} THEN {} ELSE {<<prefix, ns>>}))
              /\ size' = size + Size(scope) /\ UNCHANGED ended

\* What the instance variables of a component hold when it has read another child.
Kept(frame, tag) ==
  LET Of(tags) == {i \in DOMAIN frame.read : frame.read[i] \in tags}
      replaced == UNION {Of(tags) : tags \in {t \in Class[frame.class].single : tag \in t}}
  IN  CASE tag = "field" -> frame.kept
        [] tag = "annotation" -> (frame.kept \ replaced) \cup {Len(frame.read) + 1} \cup Of({"field"})
        [] OTHER -> (frame.kept \ replaced) \cup {Len(frame.read) + 1}

\* A restriction of simpleContent has its last attribute component read each
\* simpleType once more.
Rereads == Top.tag = "simpleType" /\ stack[Len(stack) - 1].class = "SimpleContentRestriction"
LastAttribute(read) ==
  SelectLastInSeq(read, LAMBDA tag : tag \in {"attribute", "attributeGroup", "anyAttribute"})
Notes ==
  Cardinality({i \in DOMAIN Top.read : Top.read[i] = "annotation"})
    + (IF Rereads THEN stack[Len(stack) - 1].notes ELSE 0)

\* The end of a fromDom; its caller goes on with the next child.
Close ==
  LET parent == stack[Len(stack) - 1]
      read == Append(parent.read, Top.tag)
      last == LastAttribute(parent.read)
  IN  /\ ended = Reading /\ Top.class # "XMLSchema"
      /\ IF Top.read \in Row.eager
         THEN Raise("IndexError", "contents", Top.class, Top.read)
         ELSE IF Rereads /\ last = 0
         THEN Raise("IndexError", "contents", parent.class, read)
         ELSE IF Rereads /\ (parent.read[last] # "anyAttribute" \/ Notes > 1)
         THEN Raise("SchemaError", "contents", parent.class, read)
         ELSE /\ stack' = Append(SubSeq(stack, 1, Len(stack) - 2),
                                 [parent EXCEPT !.read = read, !.kept = Kept(parent, Top.tag),
                                                !.notes = Notes])
              /\ UNCHANGED <<size, ended>>

\* load has read the component.
Read ==
  /\ ended = Reading /\ Top.class = "XMLSchema" /\ Top.read # <<>>
  /\ Raise("read", "", "XMLSchema", Top.read)

Child(tag) ==
  \/ Misplaced(tag)
  \/ /\ Placed(Top.class, Top.read, tag)
     /\ \E given \in Givens :
          \/ BadAttributes(tag, given)
          \/ \E scope \in Scopes, prefix \in NsPrefixes : Open(tag, given, scope, prefix)

Next ==
  \/ \E tag \in Tags : Filtered(tag) \/ Ignored(tag) \/ (Comes(tag) /\ Child(tag))
  \/ Close \/ Read

Spec == Init /\ [][Next]_vars

------------------------------------------------------------------------------
\* Properties

\* The line "contents:" of each docstring: groups of tags, in order, with
\* the number of children they allow.  A content model of a complex type
\* that is simple or complex content stands alone.
One(tags) == [tags |-> tags, most |-> 1]
Many(tags) == [tags |-> tags, most |-> MaxKids]
Uses == <<Many({"attribute", "attributeGroup"}), One({"anyAttribute"})>>
Model == {"group", "all", "choice", "sequence"}
Contents(class) ==
  CASE class \in {"AttributeDeclaration", "LocalAttributeDeclaration", "List"} -> <<One({"simpleType"})>>
    [] class = "Union" -> <<Many({"simpleType"})>>
    [] class = "AttributeGroupDefinition" -> Uses
    [] class \in {"Unique", "Key", "KeyRef"} -> <<One({"selector"}), Many({"field"})>>
    [] class \in {"ElementDeclaration", "LocalElementDeclaration"} ->
         <<One({"simpleType", "complexType"}), Many({"key", "keyref", "unique"})>>
    [] class \in {"Sequence", "Choice"} -> <<Many({"element", "group", "choice", "sequence", "any"})>>
    [] class = "All" -> <<Many({"element"})>>
    [] class = "ModelGroupDefinition" -> <<One({"all", "choice", "sequence"})>>
    [] class \in {"ComplexType", "LocalComplexType"} ->
         <<One(Model \cup {"simpleContent", "complexContent"})>> \o Uses
    [] class \in {"ComplexContent", "SimpleContent"} -> <<One({"restriction", "extension"})>>
    [] class = "DerivationBase" -> <<One(Model)>> \o Uses
    [] class = "SimpleContentExtension" -> Uses
    [] class = "SimpleContentRestriction" -> <<One({"simpleType"}), Many({"facet"})>> \o Uses
    [] class \in {"SimpleType", "AnonymousSimpleType"} -> <<One({"restriction", "list", "union"})>>
    [] class = "SimpleTypeRestriction" -> <<One({"simpleType"}), Many({"facet"})>>
    [] OTHER -> <<>>

Docstring(class) ==
  CASE class = "XMLSchema" ->
         <<Many({"include", "redefine", "annotation", "attribute", "attributeGroup", "complexType",
                 "element", "group", "notation", "simpleType"})>>
    [] class = "Annotation" -> <<Many({"documentation", "appinfo"})>>
    [] class = "Facet" -> <<>>
    [] OTHER -> <<One({"annotation"})>> \o Contents(class)
Listed(class) == UNION {Docstring(class)[g].tags : g \in DOMAIN Docstring(class)}

Documented(class, read) ==
  LET groups == Docstring(class)
      Group(i) == CHOOSE g \in DOMAIN groups : read[i] \in groups[g].tags
  IN  /\ \A i \in DOMAIN read : \E g \in DOMAIN groups : read[i] \in groups[g].tags
      /\ \A i, j \in DOMAIN read : i < j => Group(i) <= Group(j)
      /\ \A g \in DOMAIN groups : Cardinality({i \in DOMAIN read : Group(i) = g}) <= groups[g].most
      /\ \A i \in 1..Len(read) - 1 : read[i] \notin {"simpleContent", "complexContent"}

\* Contents that are read in spite of their docstring with an exception: no
\* derived type may hold an annotation alone, and a restriction of
\* simpleContent must not be empty nor have any facet or simpleType.
Unread(class, read) ==
  \/ class \in {"DerivationBase", "SimpleContentExtension", "SimpleContentRestriction"} /\ read = <<"annotation">>
  \/ class = "SimpleContentRestriction" /\ (read = <<>> \/ Has(read, {"facet", "simpleType"}))

\* Whatever children a component's docstring allows, in whatever order their
\* own contents are read, fromDom refuses none of them: an exception about
\* contents means they were not documented, but for the known places.
DocumentedContentsRead ==
  ended.cause = "contents" => ~Documented(ended.class, ended.read) \/ Unread(ended.class, ended.read)

\* What the code drops although a docstring lists it: the annotation of a
\* notation is filtered, the contents of annotations are checked and forgotten,
\* those of the schema itself and its redefines are ignored, and the fields of
\* an identity constraint stay in a local variable.
Dropped(class) ==
  CASE class = "Notation" -> {"annotation"}
    [] class = "Annotation" -> {"documentation", "appinfo"}
    [] class = "XMLSchema" -> {"annotation", "redefine"}
    [] class \in {"Unique", "Key", "KeyRef"} -> {"field"}
    [] OTHER -> {}

\* But for Dropped, no child that the docstring of a component lists is lost:
\* getContents filters none of them out, whatever else the element holds, and
\* when the contents are documented ones, an instance variable of the
\* component holds each child that was read: none is overwritten by a later
\* one, left behind by a loop that ended, or only in a local variable.
DocumentedContentsKept ==
  \A i \in DOMAIN stack : LET f == stack[i] IN
    /\ f.strays \cap Listed(f.class) \subseteq Dropped(f.class)
    /\ Documented(f.class, f.read) =>
         \A k \in DOMAIN f.read : k \in f.kept \/ f.read[k] \in Dropped(f.class)

\* The namespace of a QName is that of the innermost declaration of its
\* prefix around it; an undeclared default namespace is the empty one, and
\* only below the adapter of a WSDL.
InnermostNamespace ==
  \A i \in DOMAIN stack : \A n \in stack[i].names :
    LET declaring == {j \in 1..i : n[1] \in DOMAIN stack[j].scope /\ stack[j].scope[n[1]] # NoNs}
    IN  IF declaring = {} THEN n = <<NoPrefix, NoNs>> /\ stack[1].class = "WSDLToolsAdapter"
        ELSE \E j \in declaring : n[2] = stack[j].scope[n[1]] /\ \A k \in declaring : k <= j
==============================================================================
