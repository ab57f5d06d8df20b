------------------------- MODULE SchemaGrammarProofs -------------------------
(***************************************************************************)
(* Theorems about SchemaGrammar, for every document that fromDom reads:    *)
(* what its docstrings call legal contents is read, and kept, and a QName  *)
(* has the namespace of the innermost declaration of its prefix.           *)
(***************************************************************************)
EXTENDS SchemaGrammar, SequenceTheorems, FiniteSetTheorems, WellFoundedInduction, TLAPS

------------------------------------------------------------------------------
\* The rows of Class, as far as the order of children goes.

Limits(row, once, first, lead, second, last) ==
  /\ row.once = once /\ row.first = first /\ row.lead = lead /\ row.second = second
  /\ row.last = last
Others(row, refused, eager, single, kid) ==
  row.refused = refused /\ row.eager = eager /\ row.single = single /\ row.kid = kid

Notes1 == {{"annotation"}}

LEMMA PlainRows ==
  ASSUME NEW row \in {Notation, Annotation, Facet}
  PROVE  Limits(row, {}, {}, {}, {}, {}) /\ Others(row, {}, {}, Notes1, <<>>)
<1>1. CASE row = Notation
  BY <1>1 DEF Notation, Plain, With, Limits, Others, Notes1
<1>2. CASE row = Annotation
  BY <1>2 DEF Annotation, Plain, With, Limits, Others, Notes1
<1>3. CASE row = Facet
  BY <1>3 DEF Facet, Plain, With, Limits, Others, Notes1
<1> QED BY <1>1, <1>2, <1>3

LEMMA NotedRows ==
  ASSUME NEW row \in {Noted, Reference, Include, Selector}
  PROVE  Limits(row, Notes1, {}, {}, {}, {}) /\ Others(row, {}, {}, Notes1, Note)
<1>1. CASE row = Noted
  BY <1>1 DEF Noted, Plain, Limits, Others, Notes1
<1>2. CASE row = Reference
  BY <1>2 DEF Reference, Noted, Plain, With, Limits, Others, Notes1
<1>3. CASE row = Include
  BY <1>3 DEF Include, Noted, Plain, With, Limits, Others, Notes1
<1>4. CASE row = Selector
  BY <1>4 DEF Selector, Noted, Plain, With, Limits, Others, Notes1
<1> QED BY <1>1, <1>2, <1>3, <1>4

LEMMA AttributeRow ==
  /\ Limits(AttributeDeclaration, Notes1, {}, {}, {}, {})
  /\ Others(AttributeDeclaration, {}, {}, Notes1 \cup {{"simpleType"}},
            Joined({Note, [simpleType |-> "AnonymousSimpleType"]}))
BY DEF AttributeDeclaration, Noted, Plain, With, Limits, Others, Notes1

LEMMA AttributeGroupRow ==
  /\ Limits(AttributeGroupDefinition, {}, {"annotation"}, {}, {}, {"anyAttribute"})
  /\ Others(AttributeGroupDefinition, {}, {}, Notes1, Joined({Note, AttributeKids}))
BY DEF AttributeGroupDefinition, Plain, With, Limits, Others, Notes1

LEMMA KeyRows ==
  ASSUME NEW row \in {Unique, KeyRef}
  PROVE  /\ Limits(row, Notes1, {}, {}, {}, {})
         /\ Others(row, {}, {}, Notes1 \cup {{"selector"}},
                   Joined({Note, [selector |-> "Selector", field |-> "Field"]}))
<1>1. CASE row = Unique
  BY <1>1 DEF Unique, IdentityConstrants, Noted, Plain, With, Limits, Others, Notes1
<1>2. CASE row = KeyRef
  BY <1>2 DEF KeyRef, IdentityConstrants, Noted, Plain, With, Limits, Others, Notes1
<1> QED BY <1>1, <1>2

ElementKids ==
  [simpleType |-> "AnonymousSimpleType", complexType |-> "LocalComplexType",
   key |-> "Key", keyref |-> "KeyRef", unique |-> "Unique"]

LEMMA ElementRows ==
  ASSUME NEW row \in {ElementDeclaration, LocalElementDeclaration}
  PROVE  /\ Limits(row, Notes1 \cup {{"simpleType", "complexType"}}, {}, {}, {}, {})
         /\ Others(row, {}, {}, Notes1, Joined({Note, ElementKids}))
<1>1. CASE row = ElementDeclaration
  BY <1>1 DEF ElementDeclaration, ElementKids, Noted, Plain, With, Limits, Others, Notes1
<1>2. CASE row = LocalElementDeclaration
  BY <1>2 DEF LocalElementDeclaration, ElementDeclaration, ElementKids, Noted, Plain, With, Limits,
              Others, Notes1
<1> QED BY <1>1, <1>2

AllKids == Joined({Note, [element |-> "LocalElementDeclaration"]})
SequenceKids ==
  [group |-> "ModelGroupReference", choice |-> "Choice", sequence |-> "Sequence",
   any |-> "ElementWildCard"]

LEMMA ModelRows ==
  /\ Limits(All, Notes1, {}, {}, {}, {}) /\ Others(All, {}, {}, Notes1, AllKids)
  /\ Limits(Sequence, Notes1, {}, {}, {}, {})
  /\ Others(Sequence, {}, {}, Notes1, Joined({AllKids, SequenceKids}))
<1>1. Limits(All, Notes1, {}, {}, {}, {}) /\ Others(All, {}, {}, Notes1, AllKids)
  BY DEF All, AllKids, Noted, Plain, Limits, Others, Notes1
<1>2. /\ Limits(Sequence, Notes1, {}, {}, {}, {})
      /\ Others(Sequence, {}, {}, Notes1, Joined({AllKids, SequenceKids}))
  BY DEF Sequence, All, AllKids, SequenceKids, Noted, Plain, Limits, Others, Notes1
<1> QED BY <1>1, <1>2

LEMMA ModelGroupRow ==
  /\ Limits(ModelGroupDefinition, Notes1 \cup {{"all", "choice", "sequence"}}, {}, {}, {}, {})
  /\ Others(ModelGroupDefinition, {}, {}, Notes1, Joined({Note, Models}))
BY DEF ModelGroupDefinition, Noted, Plain, With, Limits, Others, Notes1

ComplexKids ==
  [group |-> "ModelGroupReference", simpleContent |-> "SimpleContent",
   complexContent |-> "ComplexContent", any |-> "ElementWildCard"]

LEMMA ComplexRows ==
  ASSUME NEW row \in {LocalComplexType, ComplexType}
  PROVE  /\ Limits(row, {}, {"annotation"},
                   {"all", "choice", "sequence", "group", "simpleContent", "complexContent"}, {}, {})
         /\ Others(row, {"any"}, {}, Notes1, Joined({Note, Models, AttributeKids, ComplexKids}))
<1>1. CASE row = LocalComplexType
  BY <1>1 DEF LocalComplexType, ComplexKids, Plain, Limits, Others, Notes1
<1>2. CASE row = ComplexType
  BY <1>2 DEF ComplexType, LocalComplexType, ComplexKids, Plain, With, Limits, Others, Notes1
<1> QED BY <1>1, <1>2

LEMMA DerivedRows ==
  /\ Limits(ComplexContent, Notes1 \cup {{"restriction", "extension"}}, {}, {}, {}, {})
  /\ Others(ComplexContent, {}, {}, Notes1,
            Joined({Note, [restriction |-> "DerivationBase", extension |-> "DerivationBase"]}))
  /\ Limits(SimpleContent, Notes1 \cup {{"restriction", "extension"}}, {}, {}, {}, {})
  /\ Others(SimpleContent, {}, {}, Notes1,
            Joined({Note, [restriction |-> "SimpleContentRestriction",
                           extension |-> "SimpleContentExtension"]}))
<1>1. /\ Limits(ComplexContent, Notes1 \cup {{"restriction", "extension"}}, {}, {}, {}, {})
      /\ Others(ComplexContent, {}, {}, Notes1,
                Joined({Note, [restriction |-> "DerivationBase", extension |-> "DerivationBase"]}))
  BY DEF ComplexContent, DerivedType, Noted, Plain, Limits, Others, Notes1
<1>2. /\ Limits(SimpleContent, Notes1 \cup {{"restriction", "extension"}}, {}, {}, {}, {})
      /\ Others(SimpleContent, {}, {}, Notes1,
                Joined({Note, [restriction |-> "SimpleContentRestriction",
                               extension |-> "SimpleContentExtension"]}))
  BY DEF SimpleContent, DerivedType, Noted, Plain, Limits, Others, Notes1
<1> QED BY <1>1, <1>2

LEMMA DerivationRow ==
  /\ Limits(DerivationBase, {}, {"annotation"}, {"all", "choice", "sequence", "group"}, {}, {})
  /\ Others(DerivationBase, {}, {<<"annotation">>}, Notes1,
            Joined({Note, Models, AttributeKids, [group |-> "ModelGroupReference"]}))
BY DEF DerivationBase, Plain, With, Limits, Others, Notes1

LEMMA ExtensionRow ==
  /\ Limits(SimpleContentExtension, {}, {"annotation"}, {}, {}, {})
  /\ Others(SimpleContentExtension, {}, {<<"annotation">>}, Notes1, Joined({Note, AttributeKids}))
BY DEF SimpleContentExtension, Plain, With, Limits, Others, Notes1

LEMMA RestrictionRow ==
  /\ Limits(SimpleContentRestriction, {}, {"annotation"}, {}, {}, {})
  /\ Others(SimpleContentRestriction, {"facet"}, {<<>>, <<"annotation">>}, Notes1,
            Joined({Note, AttributeKids, [simpleType |-> "AnonymousSimpleType", facet |-> "Facet"]}))
BY DEF SimpleContentRestriction, Plain, With, Limits, Others, Notes1

SimpleKids == [restriction |-> "SimpleTypeRestriction", list |-> "List", union |-> "Union"]

LEMMA SimpleRows ==
  /\ \A row \in {AnonymousSimpleType, SimpleType} :
       Limits(row, {}, {}, {}, {}, {}) /\ Others(row, {}, {}, Notes1, Joined({Note, SimpleKids}))
  /\ Limits(SimpleTypeRestriction, {}, {"annotation"}, {}, {"simpleType"}, {})
  /\ Others(SimpleTypeRestriction, {}, {}, Notes1,
            Joined({Note, [simpleType |-> "AnonymousSimpleType", facet |-> "Facet"]}))
  /\ \A row \in {Union, List} :
       /\ Limits(row, {}, {"annotation"}, {}, {}, {})
       /\ Others(row, {}, {}, Notes1, Joined({Note, [simpleType |-> "AnonymousSimpleType"]}))
<1>1. /\ Limits(AnonymousSimpleType, {}, {}, {}, {}, {})
      /\ Others(AnonymousSimpleType, {}, {}, Notes1, Joined({Note, SimpleKids}))
  BY DEF AnonymousSimpleType, SimpleKids, Plain, Limits, Others, Notes1
<1>2. /\ Limits(SimpleType, {}, {}, {}, {}, {})
      /\ Others(SimpleType, {}, {}, Notes1, Joined({Note, SimpleKids}))
  BY DEF SimpleType, AnonymousSimpleType, SimpleKids, Plain, With, Limits, Others, Notes1
<1>3. /\ Limits(SimpleTypeRestriction, {}, {"annotation"}, {}, {"simpleType"}, {})
      /\ Others(SimpleTypeRestriction, {}, {}, Notes1,
                Joined({Note, [simpleType |-> "AnonymousSimpleType", facet |-> "Facet"]}))
  BY DEF SimpleTypeRestriction, Plain, With, Limits, Others, Notes1
<1>4. /\ Limits(Union, {}, {"annotation"}, {}, {}, {})
      /\ Others(Union, {}, {}, Notes1, Joined({Note, [simpleType |-> "AnonymousSimpleType"]}))
  BY DEF Union, Simple, Plain, With, Limits, Others, Notes1
<1>5. /\ Limits(List, {}, {"annotation"}, {}, {}, {})
      /\ Others(List, {}, {}, Notes1, Joined({Note, [simpleType |-> "AnonymousSimpleType"]}))
  BY DEF List, Simple, Plain, With, Limits, Others, Notes1
<1> QED BY <1>1, <1>2, <1>3, <1>4, <1>5

SchemaKids ==
  [attribute |-> "AttributeDeclaration", attributeGroup |-> "AttributeGroupDefinition",
   element |-> "ElementDeclaration", group |-> "ModelGroupDefinition", notation |-> "Notation",
   complexType |-> "ComplexType", simpleType |-> "SimpleType", include |-> "Include"]

LEMMA SchemaRow ==
  /\ Limits(XMLSchema, {}, {}, {}, {}, {})
  /\ Others(XMLSchema, {}, {}, Notes1, SchemaKids)
BY DEF XMLSchema, SchemaKids, Plain, Limits, Others, Notes1

------------------------------------------------------------------------------
\* What ends a loop, and what has no component.

ContentTypes == {"simpleContent", "complexContent"}
Varieties == {"restriction", "list", "union"}

LEMMA FreeRows ==
  \A row \in {Notation, Facet, Noted, Reference, Include, Selector, AttributeDeclaration,
              AttributeGroupDefinition, Unique, KeyRef, ElementDeclaration, LocalElementDeclaration,
              All, Sequence, ModelGroupDefinition, ComplexContent, SimpleContent, DerivationBase,
              SimpleContentExtension, SimpleContentRestriction, SimpleTypeRestriction, Union} :
    row.stop = {} /\ row.ignored = {}
<1>. DEFINE Free(row) == row.stop = {} /\ row.ignored = {}
<1>. USE DEF Plain, With
<1>1. Free(Notation) /\ Free(Facet) /\ Free(Noted)
  BY DEF Notation, Facet, Noted
<1>2. Free(Reference) /\ Free(Include) /\ Free(Selector) /\ Free(AttributeDeclaration)
  BY DEF Reference, Include, Selector, AttributeDeclaration, Noted
<1>3. Free(AttributeGroupDefinition) /\ Free(Unique) /\ Free(KeyRef)
  BY DEF AttributeGroupDefinition, Unique, KeyRef, IdentityConstrants, Noted
<1>4. Free(ElementDeclaration) /\ Free(LocalElementDeclaration)
  BY DEF ElementDeclaration, LocalElementDeclaration, Noted
<1>5. Free(All) /\ Free(Sequence) /\ Free(ModelGroupDefinition)
  BY DEF All, Sequence, ModelGroupDefinition, Noted
<1>6. Free(ComplexContent) /\ Free(SimpleContent)
  BY DEF ComplexContent, SimpleContent, DerivedType, Noted
<1>7. Free(DerivationBase) /\ Free(SimpleContentExtension) /\ Free(SimpleContentRestriction)
  BY DEF DerivationBase, SimpleContentExtension, SimpleContentRestriction
<1>8. Free(SimpleTypeRestriction) /\ Free(Union)
  BY DEF SimpleTypeRestriction, Union, Simple
<1>. HIDE DEF Free
<1>9. \A row \in {Notation, Facet, Noted, Reference, Include, Selector, AttributeDeclaration,
              AttributeGroupDefinition, Unique, KeyRef, ElementDeclaration, LocalElementDeclaration,
              All, Sequence, ModelGroupDefinition, ComplexContent, SimpleContent, DerivationBase,
              SimpleContentExtension, SimpleContentRestriction, SimpleTypeRestriction, Union} : Free(row)
  BY <1>1, <1>2, <1>3, <1>4, <1>5, <1>6, <1>7, <1>8
<1>. QED BY <1>9 DEF Free

LEMMA EndRows ==
  /\ \A row \in {LocalComplexType, ComplexType} : row.stop = ContentTypes /\ row.ignored = {}
  /\ \A row \in {AnonymousSimpleType, SimpleType} : row.stop = Varieties /\ row.ignored = {}
  /\ List.stop = {"simpleType"} /\ List.ignored = {}
  /\ Annotation.stop = {} /\ Annotation.ignored = {"documentation", "appinfo"}
  /\ XMLSchema.stop = {} /\ XMLSchema.ignored = {"annotation", "redefine"}
<1>. USE DEF Plain, With, ContentTypes, Varieties
<1>1. LocalComplexType.stop = ContentTypes /\ LocalComplexType.ignored = {}
  BY DEF LocalComplexType
<1>2. ComplexType.stop = ContentTypes /\ ComplexType.ignored = {}
  BY DEF ComplexType, LocalComplexType
<1>3. AnonymousSimpleType.stop = Varieties /\ AnonymousSimpleType.ignored = {}
  BY DEF AnonymousSimpleType
<1>4. SimpleType.stop = Varieties /\ SimpleType.ignored = {}
  BY DEF SimpleType, AnonymousSimpleType
<1>5. List.stop = {"simpleType"} /\ List.ignored = {}
  BY DEF List, Simple
<1>6. Annotation.stop = {} /\ Annotation.ignored = {"documentation", "appinfo"}
  BY DEF Annotation
<1>7. XMLSchema.stop = {} /\ XMLSchema.ignored = {"annotation", "redefine"}
  BY DEF XMLSchema
<1>. QED BY <1>1, <1>2, <1>3, <1>4, <1>5, <1>6, <1>7

------------------------------------------------------------------------------
\* The table as a whole.

Keys == {"Unique", "Key", "KeyRef"}
Adapter == "WSDLToolsAdapter"
Classes == DOMAIN Class

\* The classes without a docstring of the common form.
Bare == {"XMLSchema", "Annotation", "Facet"}

LEMMA ClassNames ==
  /\ Classes =
       {"XMLSchema", "Notation", "Annotation", "Include", "AttributeDeclaration",
        "LocalAttributeDeclaration", "AttributeWildCard", "AttributeReference",
        "AttributeGroupDefinition", "AttributeGroupReference", "Selector", "Field", "Unique", "Key",
        "KeyRef", "ElementDeclaration", "LocalElementDeclaration", "ElementReference",
        "ElementWildCard", "Sequence", "All", "Choice", "ModelGroupDefinition",
        "ModelGroupReference", "ComplexType", "LocalComplexType", "ComplexContent",
        "DerivationBase", "SimpleContent", "SimpleContentExtension", "SimpleContentRestriction",
        "SimpleType", "AnonymousSimpleType", "SimpleTypeRestriction", "Facet", "Union", "List"}
  /\ Adapter \notin Classes /\ "" \notin Classes
<1>1. Classes =
       {"XMLSchema", "Notation", "Annotation", "Include", "AttributeDeclaration",
        "LocalAttributeDeclaration", "AttributeWildCard", "AttributeReference",
        "AttributeGroupDefinition", "AttributeGroupReference", "Selector", "Field", "Unique", "Key",
        "KeyRef", "ElementDeclaration", "LocalElementDeclaration", "ElementReference",
        "ElementWildCard", "Sequence", "All", "Choice", "ModelGroupDefinition",
        "ModelGroupReference", "ComplexType", "LocalComplexType", "ComplexContent",
        "DerivationBase", "SimpleContent", "SimpleContentExtension", "SimpleContentRestriction",
        "SimpleType", "AnonymousSimpleType", "SimpleTypeRestriction", "Facet", "Union", "List"}
  BY DEF Classes, Class
<1>2. Adapter \notin Classes /\ "" \notin Classes
  BY <1>1 DEF Adapter
<1>. QED BY <1>1, <1>2

LEMMA JoinedIs ==
  ASSUME NEW kids, NEW S, \A k \in kids : \A t \in DOMAIN k : k[t] \in S
  PROVE  /\ DOMAIN Joined(kids) = UNION {DOMAIN k : k \in kids}
         /\ \A t \in DOMAIN Joined(kids) : Joined(kids)[t] \in S
<1>1. DOMAIN Joined(kids) = UNION {DOMAIN k : k \in kids}
  BY DEF Joined
<1>2. ASSUME NEW t \in DOMAIN Joined(kids)
      PROVE  Joined(kids)[t] \in S
  <2>. DEFINE k == CHOOSE k \in kids : t \in DOMAIN k
  <2>1. k \in kids /\ t \in DOMAIN k
    BY <1>1
  <2>2. Joined(kids)[t] = k[t]
    BY <1>1 DEF Joined
  <2>. QED BY <2>1, <2>2
<1>. QED BY <1>1, <1>2

KidsFit(c, kid) ==
  /\ \A t \in DOMAIN kid : kid[t] \in Classes
  /\ "field" \in DOMAIN kid => c \in Keys
  /\ "annotation" \in DOMAIN kid => c # "XMLSchema"

\* The tables of tags that rows are joined from.
Fields == [selector |-> "Selector", field |-> "Field"]

LEMMA Tables ==
  /\ \A k \in {Note, AttributeKids, Models, ElementKids, SequenceKids, ComplexKids, SimpleKids,
               [element |-> "LocalElementDeclaration"], [group |-> "ModelGroupReference"],
               [simpleType |-> "AnonymousSimpleType"],
               [simpleType |-> "AnonymousSimpleType", facet |-> "Facet"],
               [restriction |-> "DerivationBase", extension |-> "DerivationBase"],
               [restriction |-> "SimpleContentRestriction", extension |-> "SimpleContentExtension"]} :
       "field" \notin DOMAIN k /\ \A t \in DOMAIN k : k[t] \in Classes
  /\ \A t \in DOMAIN Fields : Fields[t] \in Classes
<1>. USE ClassNames
<1>1. "field" \notin DOMAIN Note /\ \A t \in DOMAIN Note : Note[t] \in Classes
  BY DEF Note
<1>2. "field" \notin DOMAIN AttributeKids /\ \A t \in DOMAIN AttributeKids : AttributeKids[t] \in Classes
  BY DEF AttributeKids
<1>3. "field" \notin DOMAIN Models /\ \A t \in DOMAIN Models : Models[t] \in Classes
  BY DEF Models
<1>4. "field" \notin DOMAIN ElementKids /\ \A t \in DOMAIN ElementKids : ElementKids[t] \in Classes
  BY DEF ElementKids
<1>5. "field" \notin DOMAIN SequenceKids /\ \A t \in DOMAIN SequenceKids : SequenceKids[t] \in Classes
  BY DEF SequenceKids
<1>6. "field" \notin DOMAIN ComplexKids /\ \A t \in DOMAIN ComplexKids : ComplexKids[t] \in Classes
  BY DEF ComplexKids
<1>7. "field" \notin DOMAIN SimpleKids /\ \A t \in DOMAIN SimpleKids : SimpleKids[t] \in Classes
  BY DEF SimpleKids
<1>8. ASSUME NEW k \in {[element |-> "LocalElementDeclaration"], [group |-> "ModelGroupReference"],
               [simpleType |-> "AnonymousSimpleType"],
               [simpleType |-> "AnonymousSimpleType", facet |-> "Facet"],
               [restriction |-> "DerivationBase", extension |-> "DerivationBase"],
               [restriction |-> "SimpleContentRestriction", extension |-> "SimpleContentExtension"]}
      PROVE "field" \notin DOMAIN k /\ \A t \in DOMAIN k : k[t] \in Classes
  OBVIOUS
<1>9. \A t \in DOMAIN Fields : Fields[t] \in Classes
  BY DEF Fields
<1>. QED BY <1>1, <1>2, <1>3, <1>4, <1>5, <1>6, <1>7, <1>8, <1>9

LEMMA JoinedFit ==
  ASSUME NEW c, c # "XMLSchema", NEW kids,
         \A k \in kids : "field" \notin DOMAIN k /\ \A t \in DOMAIN k : k[t] \in Classes
  PROVE  KidsFit(c, Joined(kids)) /\ "field" \notin DOMAIN Joined(kids)
<1>1. /\ DOMAIN Joined(kids) = UNION {DOMAIN k : k \in kids}
      /\ \A t \in DOMAIN Joined(kids) : Joined(kids)[t] \in Classes
  BY JoinedIs, Zenon
<1>2. "field" \notin DOMAIN Joined(kids)
  BY <1>1
<1>. QED BY <1>1, <1>2 DEF KidsFit

\* Tags that a class allows only first, or after an annotation.
Alone(c) ==
  CASE c \in {"AttributeDeclaration", "LocalAttributeDeclaration", "SimpleTypeRestriction", "List"} ->
         {"simpleType"}
    [] c \in {"SimpleType", "AnonymousSimpleType"} -> {"restriction", "list", "union"}
    [] c \in {"Unique", "Key", "KeyRef"} -> {"selector"}
    [] c \in {"ElementDeclaration", "LocalElementDeclaration"} -> {"simpleType", "complexType"}
    [] c = "ModelGroupDefinition" -> {"all", "choice", "sequence"}
    [] c \in {"ComplexContent", "SimpleContent"} -> {"restriction", "extension"}
    [] c \in {"ComplexType", "LocalComplexType"} -> Model \cup {"simpleContent", "complexContent"}
    [] c = "DerivationBase" -> Model
    [] OTHER -> {}

LimitsFit(c, row) ==
  /\ row.first \subseteq {"annotation"}
  /\ row.lead \subseteq Alone(c) /\ row.second \subseteq Alone(c)
  /\ row.once \subseteq Notes1 \cup SUBSET Alone(c)
  /\ row.last # {} => c = "AttributeGroupDefinition" /\ row.last = {"anyAttribute"}
OthersFit(c, row) ==
  /\ row.refused # {} =>
       \/ c \in {"ComplexType", "LocalComplexType"} /\ row.refused = {"any"}
       \/ c = "SimpleContentRestriction" /\ row.refused = {"facet"}
  /\ row.eager # {} =>
       \/ c \in {"DerivationBase", "SimpleContentExtension"} /\ row.eager = {<<"annotation">>}
       \/ c = "SimpleContentRestriction" /\ row.eager = {<<>>, <<"annotation">>}
  /\ row.single \subseteq Notes1 \cup SUBSET Alone(c)
  /\ c = "XMLSchema" => row.single = Notes1
Fits(c, row) == LimitsFit(c, row) /\ OthersFit(c, row) /\ KidsFit(c, row.kid)

\* A loop ends after a child that is the last one documented.
Lasts == {"SimpleType", "AnonymousSimpleType", "List"}
EndsFit(c, row) ==
  /\ row.ignored \subseteq Dropped(c)
  /\ row.stop # {} =>
       \/ c \in {"ComplexType", "LocalComplexType"} /\ row.stop = ContentTypes
       \/ c \in Lasts /\ row.stop = Alone(c)

LEMMA FreeFits ==
  ASSUME NEW c, NEW row, NEW once \in SUBSET Notes1, NEW first \in SUBSET {"annotation"}, NEW kid,
         Limits(row, once, first, {}, {}, {}), Others(row, {}, {}, Notes1, kid), KidsFit(c, kid)
  PROVE  Fits(c, row)
BY DEF Limits, Others, Fits, LimitsFit, OthersFit

LEMMA RowsFit == \A c \in Classes : Fits(c, Class[c])
<1>. USE DEF Alone, Keys
<1>1. \A c \in {"Notation", "Annotation", "Facet"} : Fits(c, Class[c])
  <2>1. ASSUME NEW c \in {"Notation", "Annotation", "Facet"}
        PROVE  Class[c] \in {Notation, Annotation, Facet}
    BY DEF Class
  <2>2. \A c \in {"Notation", "Annotation", "Facet"} : KidsFit(c, <<>>)
    BY DEF KidsFit
  <2>. QED BY <2>1, <2>2, PlainRows, FreeFits
<1>2. \A c \in {"Include", "AttributeWildCard", "AttributeReference", "AttributeGroupReference",
                "Selector", "Field", "ElementReference", "ElementWildCard", "ModelGroupReference"} :
        Fits(c, Class[c])
  <2>. DEFINE C == {"Include", "AttributeWildCard", "AttributeReference", "AttributeGroupReference",
                "Selector", "Field", "ElementReference", "ElementWildCard", "ModelGroupReference"}
  <2>1. ASSUME NEW c \in C
        PROVE  Class[c] \in {Noted, Reference, Include, Selector}
    BY DEF Class, AttributeWildCard, AttributeReference, AttributeGroupReference, Field,
           ElementReference, ElementWildCard, ModelGroupReference
  <2>2. \A c \in C : KidsFit(c, Note)
    BY Tables DEF KidsFit
  <2>. QED BY <2>1, <2>2, NotedRows, FreeFits
<1>3. \A c \in {"AttributeDeclaration", "LocalAttributeDeclaration"} : Fits(c, Class[c])
  <2>1. ASSUME NEW c \in {"AttributeDeclaration", "LocalAttributeDeclaration"}
        PROVE  Fits(c, Class[c])
    <3>1. Class[c] = AttributeDeclaration
      BY DEF Class, LocalAttributeDeclaration
    <3>2. KidsFit(c, Joined({Note, [simpleType |-> "AnonymousSimpleType"]}))
      BY Tables, JoinedFit
    <3>. QED BY <3>1, <3>2, AttributeRow DEF Limits, Others, Fits, LimitsFit, OthersFit
  <2>. QED BY <2>1
<1>4. Fits("AttributeGroupDefinition", Class["AttributeGroupDefinition"])
  <2>1. Class["AttributeGroupDefinition"] = AttributeGroupDefinition
    BY DEF Class
  <2>2. KidsFit("AttributeGroupDefinition", Joined({Note, AttributeKids}))
    BY Tables, JoinedFit
  <2>. QED BY <2>1, <2>2, AttributeGroupRow DEF Limits, Others, Fits, LimitsFit, OthersFit
<1>5. ASSUME NEW c \in Keys
      PROVE  Fits(c, Class[c])
  <2>1. Class[c] \in {Unique, KeyRef}
    BY DEF Class, Key
  <2>2. KidsFit(c, Joined({Note, Fields}))
    BY Tables, JoinedIs DEF KidsFit
  <2>. QED BY <2>1, <2>2, KeyRows DEF Fields, Limits, Others, Fits, LimitsFit, OthersFit
<1>6. ASSUME NEW c \in {"ElementDeclaration", "LocalElementDeclaration"}
      PROVE  Fits(c, Class[c])
  <2>1. Class[c] \in {ElementDeclaration, LocalElementDeclaration}
    BY DEF Class
  <2>2. KidsFit(c, Joined({Note, ElementKids}))
    BY Tables, JoinedFit
  <2>. QED BY <2>1, <2>2, ElementRows DEF Limits, Others, Fits, LimitsFit, OthersFit
<1>7. KidsFit("All", AllKids) /\ "field" \notin DOMAIN AllKids
  BY Tables, JoinedFit DEF AllKids
<1>8. Fits("All", Class["All"])
  <2>1. Class["All"] = All
    BY DEF Class
  <2>. QED BY <1>7, <2>1, ModelRows, FreeFits
<1>9. ASSUME NEW c \in {"Sequence", "Choice"}
      PROVE  Fits(c, Class[c])
  <2>1. Class[c] = Sequence
    BY DEF Class, Choice
  <2>2. \A k \in {AllKids, SequenceKids} :
          "field" \notin DOMAIN k /\ \A t \in DOMAIN k : k[t] \in Classes
    BY <1>7, Tables DEF KidsFit
  <2>3. KidsFit(c, Joined({AllKids, SequenceKids}))
    BY <2>2, JoinedFit
  <2>. QED BY <2>1, <2>3, ModelRows, FreeFits
<1>10. Fits("ModelGroupDefinition", Class["ModelGroupDefinition"])
  <2>1. Class["ModelGroupDefinition"] = ModelGroupDefinition
    BY DEF Class
  <2>2. KidsFit("ModelGroupDefinition", Joined({Note, Models}))
    BY Tables, JoinedFit
  <2>. QED BY <2>1, <2>2, ModelGroupRow DEF Limits, Others, Fits, LimitsFit, OthersFit
<1>11. ASSUME NEW c \in {"ComplexType", "LocalComplexType"}
       PROVE  Fits(c, Class[c])
  <2>1. Class[c] \in {ComplexType, LocalComplexType}
    BY DEF Class
  <2>2. KidsFit(c, Joined({Note, Models, AttributeKids, ComplexKids}))
    BY Tables, JoinedFit
  <2>. QED BY <2>1, <2>2, ComplexRows DEF Model, Limits, Others, Fits, LimitsFit, OthersFit
<1>12. ASSUME NEW c \in {"ComplexContent", "SimpleContent"}
       PROVE  Fits(c, Class[c])
  <2>1. /\ c = "ComplexContent" => Class[c] = ComplexContent
        /\ c = "SimpleContent" => Class[c] = SimpleContent
    BY DEF Class
  <2>2. /\ KidsFit(c, Joined({Note, [restriction |-> "DerivationBase",
                                     extension |-> "DerivationBase"]}))
        /\ KidsFit(c, Joined({Note, [restriction |-> "SimpleContentRestriction",
                                     extension |-> "SimpleContentExtension"]}))
    BY Tables, JoinedFit
  <2>. QED BY <2>1, <2>2, DerivedRows DEF Limits, Others, Fits, LimitsFit, OthersFit
<1>13. Fits("DerivationBase", Class["DerivationBase"])
  <2>1. Class["DerivationBase"] = DerivationBase
    BY DEF Class
  <2>2. KidsFit("DerivationBase",
                Joined({Note, Models, AttributeKids, [group |-> "ModelGroupReference"]}))
    BY Tables, JoinedFit
  <2>. QED BY <2>1, <2>2, DerivationRow DEF Model, Limits, Others, Fits, LimitsFit, OthersFit
<1>14. Fits("SimpleContentExtension", Class["SimpleContentExtension"])
  <2>1. Class["SimpleContentExtension"] = SimpleContentExtension
    BY DEF Class
  <2>2. KidsFit("SimpleContentExtension", Joined({Note, AttributeKids}))
    BY Tables, JoinedFit
  <2>. QED BY <2>1, <2>2, ExtensionRow DEF Limits, Others, Fits, LimitsFit, OthersFit
<1>15. Fits("SimpleContentRestriction", Class["SimpleContentRestriction"])
  <2>1. Class["SimpleContentRestriction"] = SimpleContentRestriction
    BY DEF Class
  <2>2. KidsFit("SimpleContentRestriction",
                Joined({Note, AttributeKids, [simpleType |-> "AnonymousSimpleType", facet |-> "Facet"]}))
    BY Tables, JoinedFit
  <2>. QED BY <2>1, <2>2, RestrictionRow DEF Limits, Others, Fits, LimitsFit, OthersFit
<1>16. ASSUME NEW c \in {"SimpleType", "AnonymousSimpleType", "SimpleTypeRestriction", "Union", "List"}
       PROVE  Fits(c, Class[c])
  <2>1. /\ c \in {"SimpleType", "AnonymousSimpleType"} => Class[c] \in {AnonymousSimpleType, SimpleType}
        /\ c = "SimpleTypeRestriction" => Class[c] = SimpleTypeRestriction
        /\ c \in {"Union", "List"} => Class[c] \in {Union, List}
    BY DEF Class
  <2>2. /\ KidsFit(c, Joined({Note, SimpleKids}))
        /\ KidsFit(c, Joined({Note, [simpleType |-> "AnonymousSimpleType", facet |-> "Facet"]}))
        /\ KidsFit(c, Joined({Note, [simpleType |-> "AnonymousSimpleType"]}))
    BY Tables, JoinedFit
  <2>3. CASE c \in {"SimpleType", "AnonymousSimpleType"}
    BY <2>1, <2>2, <2>3, SimpleRows, FreeFits
  <2>4. CASE c = "SimpleTypeRestriction"
    BY <2>1, <2>2, <2>4, SimpleRows DEF Limits, Others, Fits, LimitsFit, OthersFit
  <2>5. CASE c \in {"Union", "List"}
    BY <2>1, <2>2, <2>5, SimpleRows, FreeFits
  <2>. QED BY <2>3, <2>4, <2>5
<1>17. Fits("XMLSchema", Class["XMLSchema"])
  <2>1. Class["XMLSchema"] = XMLSchema
    BY DEF Class
  <2>2. KidsFit("XMLSchema", SchemaKids)
    BY ClassNames DEF SchemaKids, KidsFit
  <2>. QED BY <2>1, <2>2, SchemaRow, FreeFits
<1>. QED
  BY <1>1, <1>2, <1>3, <1>4, <1>5, <1>6, <1>8, <1>9, <1>10, <1>11, <1>12, <1>13, <1>14, <1>15,
     <1>16, <1>17, ClassNames

LEMMA RowsEnd == \A c \in Classes : EndsFit(c, Class[c])
<1>. DEFINE Ending == {"LocalComplexType", "ComplexType", "AnonymousSimpleType", "SimpleType", "List",
                       "Annotation", "XMLSchema"}
<1>1. ASSUME NEW c \in Classes \ Ending
      PROVE  EndsFit(c, Class[c])
  <2>1. Class[c] \in {Notation, Facet, Noted, Reference, Include, Selector, AttributeDeclaration,
              AttributeGroupDefinition, Unique, KeyRef, ElementDeclaration, LocalElementDeclaration,
              All, Sequence, ModelGroupDefinition, ComplexContent, SimpleContent, DerivationBase,
              SimpleContentExtension, SimpleContentRestriction, SimpleTypeRestriction, Union}
    BY DEF Classes, Class, LocalAttributeDeclaration, AttributeWildCard, AttributeReference,
           AttributeGroupReference, Field, Key, ElementReference, ElementWildCard, Choice,
           ModelGroupReference
  <2>2. Class[c].stop = {} /\ Class[c].ignored = {}
    BY <2>1, FreeRows
  <2>. QED BY <2>2 DEF EndsFit
<1>2. ASSUME NEW c \in {"LocalComplexType", "ComplexType"}
      PROVE  EndsFit(c, Class[c])
  <2>1. Class[c] \in {LocalComplexType, ComplexType}
    BY DEF Class
  <2>2. Class[c].stop = ContentTypes /\ Class[c].ignored = {}
    BY <2>1, EndRows
  <2>. QED BY <2>2 DEF EndsFit
<1>3. ASSUME NEW c \in {"AnonymousSimpleType", "SimpleType"}
      PROVE  EndsFit(c, Class[c])
  <2>1. Class[c] \in {AnonymousSimpleType, SimpleType}
    BY DEF Class
  <2>2. Class[c].stop = Varieties /\ Class[c].ignored = {}
    BY <2>1, EndRows
  <2>. QED BY <2>2 DEF EndsFit, Lasts, Alone, Varieties
<1>4. EndsFit("List", Class["List"])
  <2>1. Class["List"] = List
    BY DEF Class
  <2>. QED BY <2>1, EndRows DEF EndsFit, Lasts, Alone
<1>5. EndsFit("Annotation", Class["Annotation"])
  <2>1. Class["Annotation"] = Annotation
    BY DEF Class
  <2>. QED BY <2>1, EndRows DEF EndsFit, Dropped
<1>6. EndsFit("XMLSchema", Class["XMLSchema"])
  <2>1. Class["XMLSchema"] = XMLSchema
    BY DEF Class
  <2>. QED BY <2>1, EndRows DEF EndsFit, Dropped
<1>. QED BY <1>1, <1>2, <1>3, <1>4, <1>5, <1>6

\* The tags of the contents of each class.
LEMMA JoinedHas ==
  ASSUME NEW kids, NEW k \in kids
  PROVE  DOMAIN k \subseteq DOMAIN Joined(kids)
BY DEF Joined

LEMMA KidTags1 ==
  \A c \in {"AttributeDeclaration", "LocalAttributeDeclaration"} :
    {"annotation"} \cup {"simpleType"} \subseteq DOMAIN Class[c].kid
<1>1. \A c \in {"AttributeDeclaration", "LocalAttributeDeclaration"} :
        Class[c] \in {AttributeDeclaration}
  BY DEF Class, LocalAttributeDeclaration
<1>. DEFINE extra == [simpleType |-> "AnonymousSimpleType"]
<1>2. \A row \in {AttributeDeclaration} : row.kid = Joined({Note, extra})
  BY AttributeRow DEF Others
<1>3. DOMAIN extra = {"simpleType"}
  OBVIOUS
<1>. HIDE DEF extra
<1>4. DOMAIN Note \cup DOMAIN extra \subseteq DOMAIN Joined({Note, extra})
  BY JoinedHas
<1>. QED BY <1>1, <1>2, <1>3, <1>4 DEF Note

LEMMA KidTags2 ==
  \A c \in {"List"} :
    {"annotation"} \cup {"simpleType"} \subseteq DOMAIN Class[c].kid
<1>1. \A c \in {"List"} :
        Class[c] \in {List}
  BY DEF Class
<1>. DEFINE extra == [simpleType |-> "AnonymousSimpleType"]
<1>2. \A row \in {List} : row.kid = Joined({Note, extra})
  BY SimpleRows DEF Others
<1>3. DOMAIN extra = {"simpleType"}
  OBVIOUS
<1>. HIDE DEF extra
<1>4. DOMAIN Note \cup DOMAIN extra \subseteq DOMAIN Joined({Note, extra})
  BY JoinedHas
<1>. QED BY <1>1, <1>2, <1>3, <1>4 DEF Note

LEMMA KidTags3 ==
  \A c \in {"Union"} :
    {"annotation"} \cup {"simpleType"} \subseteq DOMAIN Class[c].kid
<1>1. \A c \in {"Union"} :
        Class[c] \in {Union}
  BY DEF Class
<1>. DEFINE extra == [simpleType |-> "AnonymousSimpleType"]
<1>2. \A row \in {Union} : row.kid = Joined({Note, extra})
  BY SimpleRows DEF Others
<1>3. DOMAIN extra = {"simpleType"}
  OBVIOUS
<1>. HIDE DEF extra
<1>4. DOMAIN Note \cup DOMAIN extra \subseteq DOMAIN Joined({Note, extra})
  BY JoinedHas
<1>. QED BY <1>1, <1>2, <1>3, <1>4 DEF Note

LEMMA KidTags4 ==
  \A c \in {"AttributeGroupDefinition", "SimpleContentExtension"} :
    {"annotation"} \cup {"attribute", "attributeGroup"} \cup {"anyAttribute"} \subseteq DOMAIN Class[c].kid
<1>1. \A c \in {"AttributeGroupDefinition", "SimpleContentExtension"} :
        Class[c] \in {AttributeGroupDefinition, SimpleContentExtension}
  BY DEF Class
<1>2. \A row \in {AttributeGroupDefinition, SimpleContentExtension} : row.kid = Joined({Note, AttributeKids})
  BY AttributeGroupRow, ExtensionRow DEF Others
<1>4. DOMAIN Note \cup DOMAIN AttributeKids \subseteq DOMAIN Joined({Note, AttributeKids})
  BY JoinedHas
<1>. QED BY <1>1, <1>2, <1>4 DEF Note, AttributeKids

LEMMA KidTags5 ==
  \A c \in {"Unique", "Key", "KeyRef"} :
    {"annotation"} \cup {"selector"} \cup {"field"} \subseteq DOMAIN Class[c].kid
<1>1. \A c \in {"Unique", "Key", "KeyRef"} :
        Class[c] \in {Unique, KeyRef}
  BY DEF Class, Key
<1>. DEFINE extra == [selector |-> "Selector", field |-> "Field"]
<1>2. \A row \in {Unique, KeyRef} : row.kid = Joined({Note, extra})
  BY KeyRows DEF Others
<1>3. DOMAIN extra = {"selector", "field"}
  OBVIOUS
<1>. HIDE DEF extra
<1>4. DOMAIN Note \cup DOMAIN extra \subseteq DOMAIN Joined({Note, extra})
  BY JoinedHas
<1>. QED BY <1>1, <1>2, <1>3, <1>4 DEF Note

LEMMA KidTags6 ==
  \A c \in {"ElementDeclaration", "LocalElementDeclaration"} :
    {"annotation"} \cup {"simpleType", "complexType"} \cup {"key", "keyref", "unique"} \subseteq DOMAIN Class[c].kid
<1>1. \A c \in {"ElementDeclaration", "LocalElementDeclaration"} :
        Class[c] \in {ElementDeclaration, LocalElementDeclaration}
  BY DEF Class
<1>2. \A row \in {ElementDeclaration, LocalElementDeclaration} : row.kid = Joined({Note, ElementKids})
  BY ElementRows DEF Others
<1>4. DOMAIN Note \cup DOMAIN ElementKids \subseteq DOMAIN Joined({Note, ElementKids})
  BY JoinedHas
<1>. QED BY <1>1, <1>2, <1>4 DEF Note, ElementKids

LEMMA KidTags7 ==
  \A c \in {"Sequence", "Choice"} :
    {"annotation"} \cup {"element", "group", "choice", "sequence", "any"} \subseteq DOMAIN Class[c].kid
<1>1. \A c \in {"Sequence", "Choice"} : Class[c] = Sequence
  BY DEF Class, Choice
<1>2. Sequence.kid = Joined({AllKids, SequenceKids})
  BY ModelRows DEF Others
<1>3. DOMAIN Note \cup DOMAIN [element |-> "LocalElementDeclaration"] \subseteq DOMAIN AllKids
  BY JoinedHas DEF AllKids
<1>4. DOMAIN AllKids \cup DOMAIN SequenceKids \subseteq DOMAIN Sequence.kid
  BY <1>2, JoinedHas
<1>. QED BY <1>1, <1>3, <1>4 DEF Note, SequenceKids

LEMMA KidTags8 ==
  \A c \in {"All"} :
    {"annotation"} \cup {"element"} \subseteq DOMAIN Class[c].kid
<1>1. \A c \in {"All"} :
        Class[c] \in {All}
  BY DEF Class
<1>. DEFINE extra == [element |-> "LocalElementDeclaration"]
<1>2. \A row \in {All} : row.kid = Joined({Note, extra})
  BY ModelRows DEF Others, AllKids
<1>3. DOMAIN extra = {"element"}
  OBVIOUS
<1>. HIDE DEF extra
<1>4. DOMAIN Note \cup DOMAIN extra \subseteq DOMAIN Joined({Note, extra})
  BY JoinedHas
<1>. QED BY <1>1, <1>2, <1>3, <1>4 DEF Note

LEMMA KidTags9 ==
  \A c \in {"ModelGroupDefinition"} :
    {"annotation"} \cup {"all", "choice", "sequence"} \subseteq DOMAIN Class[c].kid
<1>1. \A c \in {"ModelGroupDefinition"} :
        Class[c] \in {ModelGroupDefinition}
  BY DEF Class
<1>2. \A row \in {ModelGroupDefinition} : row.kid = Joined({Note, Models})
  BY ModelGroupRow DEF Others
<1>4. DOMAIN Note \cup DOMAIN Models \subseteq DOMAIN Joined({Note, Models})
  BY JoinedHas
<1>. QED BY <1>1, <1>2, <1>4 DEF Note, Models

LEMMA KidTags10 ==
  \A c \in {"ComplexType", "LocalComplexType"} :
    {"annotation"} \cup (Model \cup {"simpleContent", "complexContent"}) \cup {"attribute", "attributeGroup"} \cup {"anyAttribute"} \subseteq DOMAIN Class[c].kid
<1>1. \A c \in {"ComplexType", "LocalComplexType"} :
        Class[c] \in {LocalComplexType, ComplexType}
  BY DEF Class
<1>2. \A row \in {LocalComplexType, ComplexType} : row.kid = Joined({Note, Models, AttributeKids, ComplexKids})
  BY ComplexRows DEF Others
<1>4. DOMAIN Note \cup DOMAIN Models \cup DOMAIN AttributeKids \cup DOMAIN ComplexKids \subseteq DOMAIN Joined({Note, Models, AttributeKids, ComplexKids})
  BY JoinedHas
<1>. QED BY <1>1, <1>2, <1>4 DEF Note, Models, AttributeKids, ComplexKids, Model

LEMMA KidTags11 ==
  \A c \in {"ComplexContent", "SimpleContent"} :
    {"annotation"} \cup {"restriction", "extension"} \subseteq DOMAIN Class[c].kid
<1>1. Class["ComplexContent"] = ComplexContent /\ Class["SimpleContent"] = SimpleContent
  BY DEF Class
<1>. DEFINE complex == [restriction |-> "DerivationBase", extension |-> "DerivationBase"]
            simple == [restriction |-> "SimpleContentRestriction", extension |-> "SimpleContentExtension"]
<1>2. ComplexContent.kid = Joined({Note, complex}) /\ SimpleContent.kid = Joined({Note, simple})
  BY DerivedRows DEF Others
<1>3. DOMAIN complex = {"restriction", "extension"} /\ DOMAIN simple = {"restriction", "extension"}
  OBVIOUS
<1>. HIDE DEF complex, simple
<1>4. /\ DOMAIN Note \cup DOMAIN complex \subseteq DOMAIN ComplexContent.kid
      /\ DOMAIN Note \cup DOMAIN simple \subseteq DOMAIN SimpleContent.kid
  BY <1>2, JoinedHas
<1>. QED BY <1>1, <1>3, <1>4 DEF Note

LEMMA KidTags12 ==
  \A c \in {"DerivationBase"} :
    {"annotation"} \cup Model \cup {"attribute", "attributeGroup"} \cup {"anyAttribute"} \subseteq DOMAIN Class[c].kid
<1>1. \A c \in {"DerivationBase"} :
        Class[c] \in {DerivationBase}
  BY DEF Class
<1>. DEFINE extra == [group |-> "ModelGroupReference"]
<1>2. \A row \in {DerivationBase} : row.kid = Joined({Note, Models, AttributeKids, extra})
  BY DerivationRow DEF Others
<1>3. DOMAIN extra = {"group"}
  OBVIOUS
<1>. HIDE DEF extra
<1>4. DOMAIN Note \cup DOMAIN Models \cup DOMAIN AttributeKids \cup DOMAIN extra \subseteq DOMAIN Joined({Note, Models, AttributeKids, extra})
  BY JoinedHas
<1>. QED BY <1>1, <1>2, <1>3, <1>4 DEF Note, Models, AttributeKids, Model

LEMMA KidTags13 ==
  \A c \in {"SimpleContentRestriction"} :
    {"annotation"} \cup {"simpleType"} \cup {"facet"} \cup {"attribute", "attributeGroup"} \cup {"anyAttribute"} \subseteq DOMAIN Class[c].kid
<1>1. \A c \in {"SimpleContentRestriction"} :
        Class[c] \in {SimpleContentRestriction}
  BY DEF Class
<1>. DEFINE extra == [simpleType |-> "AnonymousSimpleType", facet |-> "Facet"]
<1>2. \A row \in {SimpleContentRestriction} : row.kid = Joined({Note, AttributeKids, extra})
  BY RestrictionRow DEF Others
<1>3. DOMAIN extra = {"simpleType", "facet"}
  OBVIOUS
<1>. HIDE DEF extra
<1>4. DOMAIN Note \cup DOMAIN AttributeKids \cup DOMAIN extra \subseteq DOMAIN Joined({Note, AttributeKids, extra})
  BY JoinedHas
<1>. QED BY <1>1, <1>2, <1>3, <1>4 DEF Note, AttributeKids

LEMMA KidTags14 ==
  \A c \in {"SimpleType", "AnonymousSimpleType"} :
    {"annotation"} \cup {"restriction", "list", "union"} \subseteq DOMAIN Class[c].kid
<1>1. \A c \in {"SimpleType", "AnonymousSimpleType"} :
        Class[c] \in {AnonymousSimpleType, SimpleType}
  BY DEF Class
<1>2. \A row \in {AnonymousSimpleType, SimpleType} : row.kid = Joined({Note, SimpleKids})
  BY SimpleRows DEF Others
<1>4. DOMAIN Note \cup DOMAIN SimpleKids \subseteq DOMAIN Joined({Note, SimpleKids})
  BY JoinedHas
<1>. QED BY <1>1, <1>2, <1>4 DEF Note, SimpleKids

LEMMA KidTags15 ==
  \A c \in {"SimpleTypeRestriction"} :
    {"annotation"} \cup {"simpleType"} \cup {"facet"} \subseteq DOMAIN Class[c].kid
<1>1. \A c \in {"SimpleTypeRestriction"} :
        Class[c] \in {SimpleTypeRestriction}
  BY DEF Class
<1>. DEFINE extra == [simpleType |-> "AnonymousSimpleType", facet |-> "Facet"]
<1>2. \A row \in {SimpleTypeRestriction} : row.kid = Joined({Note, extra})
  BY SimpleRows DEF Others
<1>3. DOMAIN extra = {"simpleType", "facet"}
  OBVIOUS
<1>. HIDE DEF extra
<1>4. DOMAIN Note \cup DOMAIN extra \subseteq DOMAIN Joined({Note, extra})
  BY JoinedHas
<1>. QED BY <1>1, <1>2, <1>3, <1>4 DEF Note

LEMMA KidTags16 ==
  \A c \in {"Include", "AttributeWildCard", "AttributeReference", "AttributeGroupReference", "Selector",
            "Field", "ElementReference", "ElementWildCard", "ModelGroupReference"} :
    "annotation" \in DOMAIN Class[c].kid
<1>1. \A c \in {"Include", "AttributeWildCard", "AttributeReference", "AttributeGroupReference", "Selector",
                "Field", "ElementReference", "ElementWildCard", "ModelGroupReference"} :
        Class[c] \in {Noted, Reference, Include, Selector}
  BY DEF Class, AttributeWildCard, AttributeReference, AttributeGroupReference, Field, ElementReference,
         ElementWildCard, ModelGroupReference
<1>2. \A row \in {Noted, Reference, Include, Selector} : row.kid = Note
  BY NotedRows DEF Others
<1>. QED BY <1>1, <1>2 DEF Note

------------------------------------------------------------------------------
\* The docstrings.

\* Documented, with its groups and the group of a tag as definitions.
GroupOf(c, tag) == CHOOSE g \in DOMAIN Docstring(c) : tag \in Docstring(c)[g].tags
Members(c, read, g) == {i \in DOMAIN read : GroupOf(c, read[i]) = g}

LEMMA DocumentedIs ==
  ASSUME NEW c, NEW read
  PROVE  Documented(c, read) <=>
           /\ \A i \in DOMAIN read : \E g \in DOMAIN Docstring(c) : read[i] \in Docstring(c)[g].tags
           /\ \A i, j \in DOMAIN read : i < j => GroupOf(c, read[i]) <= GroupOf(c, read[j])
           /\ \A g \in DOMAIN Docstring(c) : Cardinality(Members(c, read, g)) <= Docstring(c)[g].most
           /\ \A i \in 1..Len(read) - 1 : read[i] \notin {"simpleContent", "complexContent"}
BY Zenon DEF Documented, GroupOf, Members

\* Where the groups of a class are.
GroupsFit(c, groups) ==
  /\ DOMAIN groups \subseteq Nat \ {0} /\ 1 \in DOMAIN groups
  /\ \A g \in DOMAIN groups : groups[g].most \in Nat
  /\ groups[1] = One({"annotation"})
  /\ \A g \in DOMAIN groups : g # 1 => "annotation" \notin groups[g].tags
  /\ Alone(c) # {} =>
       /\ 2 \in DOMAIN groups /\ groups[2] = One(Alone(c))
       /\ \A g \in DOMAIN groups : g # 2 => groups[g].tags \cap Alone(c) = {}
  /\ c = "AttributeGroupDefinition" =>
       /\ DOMAIN groups = 1..3 /\ groups[3] = One({"anyAttribute"})
       /\ "anyAttribute" \notin groups[2].tags
  /\ c \in {"ComplexType", "LocalComplexType"} => \A g \in DOMAIN groups : "any" \notin groups[g].tags
  /\ c \in Lasts => DOMAIN groups = 1..2

\* All that is listed is read, but for what is dropped.
ListedFit(c) == Listed(c) \subseteq DOMAIN Class[c].kid \cup Class[c].ignored \cup Dropped(c)

\* What concatenation makes of displayed sequences.
LEMMA Tuple11 ==
  ASSUME NEW a, NEW b
  PROVE  <<a>> \o <<b>> = <<a, b>>
<1>. DEFINE S == {a, b}
            r == <<a>>
            s == <<b>>
            t == r \o s
<1>1. /\ r \in Seq(S) /\ Len(r) = 1 /\ r[1] = a
      /\ s \in Seq(S) /\ Len(s) = 1 /\ s[1] = b
  OBVIOUS
<1>. HIDE DEF r, s, S
<1>2. /\ t \in Seq(S) /\ Len(t) = Len(r) + Len(s)
      /\ \A i \in 1 .. Len(r) + Len(s) : t[i] = IF i <= Len(r) THEN r[i] ELSE s[i - Len(r)]
  BY <1>1, ConcatProperties, Zenon
<1>. HIDE DEF t
<1>3. t = <<a, b>>
  BY <1>1, <1>2
<1>. QED BY <1>3 DEF r, s, t

LEMMA Tuple12 ==
  ASSUME NEW a, NEW b, NEW c
  PROVE  <<a>> \o <<b, c>> = <<a, b, c>>
<1>. DEFINE S == {a, b, c}
            r == <<a>>
            s == <<b, c>>
            t == r \o s
<1>1. /\ r \in Seq(S) /\ Len(r) = 1 /\ r[1] = a
      /\ s \in Seq(S) /\ Len(s) = 2 /\ s[1] = b /\ s[2] = c
  OBVIOUS
<1>. HIDE DEF r, s, S
<1>2. /\ t \in Seq(S) /\ Len(t) = Len(r) + Len(s)
      /\ \A i \in 1 .. Len(r) + Len(s) : t[i] = IF i <= Len(r) THEN r[i] ELSE s[i - Len(r)]
  BY <1>1, ConcatProperties, Zenon
<1>. HIDE DEF t
<1>3. t = <<a, b, c>>
  BY <1>1, <1>2
<1>. QED BY <1>3 DEF r, s, t

LEMMA Tuple13 ==
  ASSUME NEW a, NEW b, NEW c, NEW d
  PROVE  <<a>> \o <<b, c, d>> = <<a, b, c, d>>
<1>. DEFINE S == {a, b, c, d}
            r == <<a>>
            s == <<b, c, d>>
            t == r \o s
<1>1. /\ r \in Seq(S) /\ Len(r) = 1 /\ r[1] = a
      /\ s \in Seq(S) /\ Len(s) = 3 /\ s[1] = b /\ s[2] = c /\ s[3] = d
  OBVIOUS
<1>. HIDE DEF r, s, S
<1>2. /\ t \in Seq(S) /\ Len(t) = Len(r) + Len(s)
      /\ \A i \in 1 .. Len(r) + Len(s) : t[i] = IF i <= Len(r) THEN r[i] ELSE s[i - Len(r)]
  BY <1>1, ConcatProperties, Zenon
<1>. HIDE DEF t
<1>3. t = <<a, b, c, d>>
  BY <1>1, <1>2
<1>. QED BY <1>3 DEF r, s, t

LEMMA Tuple14 ==
  ASSUME NEW a, NEW b, NEW c, NEW d, NEW e
  PROVE  <<a>> \o <<b, c, d, e>> = <<a, b, c, d, e>>
<1>. DEFINE S == {a, b, c, d, e}
            r == <<a>>
            s == <<b, c, d, e>>
            t == r \o s
<1>1. /\ r \in Seq(S) /\ Len(r) = 1 /\ r[1] = a
      /\ s \in Seq(S) /\ Len(s) = 4 /\ s[1] = b /\ s[2] = c /\ s[3] = d /\ s[4] = e
  OBVIOUS
<1>. HIDE DEF r, s, S
<1>2. /\ t \in Seq(S) /\ Len(t) = Len(r) + Len(s)
      /\ \A i \in 1 .. Len(r) + Len(s) : t[i] = IF i <= Len(r) THEN r[i] ELSE s[i - Len(r)]
  BY <1>1, ConcatProperties, Zenon
<1>. HIDE DEF t
<1>3. t = <<a, b, c, d, e>>
  BY <1>1, <1>2
<1>. QED BY <1>3 DEF r, s, t

LEMMA Tuple22 ==
  ASSUME NEW a, NEW b, NEW c, NEW d
  PROVE  <<a, b>> \o <<c, d>> = <<a, b, c, d>>
<1>. DEFINE S == {a, b, c, d}
            r == <<a, b>>
            s == <<c, d>>
            t == r \o s
<1>1. /\ r \in Seq(S) /\ Len(r) = 2 /\ r[1] = a /\ r[2] = b
      /\ s \in Seq(S) /\ Len(s) = 2 /\ s[1] = c /\ s[2] = d
  OBVIOUS
<1>. HIDE DEF r, s, S
<1>2. /\ t \in Seq(S) /\ Len(t) = Len(r) + Len(s)
      /\ \A i \in 1 .. Len(r) + Len(s) : t[i] = IF i <= Len(r) THEN r[i] ELSE s[i - Len(r)]
  BY <1>1, ConcatProperties, Zenon
<1>. HIDE DEF t
<1>3. t = <<a, b, c, d>>
  BY <1>1, <1>2
<1>. QED BY <1>3 DEF r, s, t


LEMMA GroupsAreFit ==
  ASSUME GrammarAssumption, NEW c \in Classes \ Bare
  PROVE  GroupsFit(c, Docstring(c)) /\ ListedFit(c)
<1>. DEFINE N == One({"annotation"})
<1>0. Docstring(c) = <<N>> \o Contents(c)
  BY DEF Docstring, Bare
<1>18. MaxKids \in Nat
  BY GrammarAssumption
<1>. HIDE DEF N
<1>1. CASE c \in {"AttributeDeclaration", "LocalAttributeDeclaration"}
  <2>. DEFINE x == One({"simpleType"})
  <2>1. Contents(c) = <<x>>
    BY <1>1 DEF Contents, Uses
  <2>. HIDE DEF x
  <2>3. <<N>> \o <<x>> = <<N, x>>
    BY Tuple11
  <2>4. Docstring(c) = <<N, x>>
    BY <1>0, <2>1, <2>3
  <2>5. /\ DOMAIN Docstring(c) = {1, 2} /\ Docstring(c)[1] = N
        /\ Docstring(c)[2] = x
    BY <2>4
  <2>6. Alone(c) = {"simpleType"}
    BY <1>1 DEF Alone
  <2>7. GroupsFit(c, Docstring(c))
    BY <2>5, <2>6, <1>1, <1>18 DEF N, x, GroupsFit, One, Many, Model, Lasts
  <2>8. Listed(c) = {"annotation"} \cup {"simpleType"}
    BY <2>5 DEF N, x, Listed, One, Many
  <2>9. Listed(c) \subseteq DOMAIN Class[c].kid \cup Dropped(c)
    BY <1>1, <2>8, KidTags1 DEF Dropped
  <2>. QED BY <2>7, <2>9 DEF ListedFit
<1>2. CASE c \in {"List"}
  <2>. DEFINE x == One({"simpleType"})
  <2>1. Contents(c) = <<x>>
    BY <1>2 DEF Contents, Uses
  <2>. HIDE DEF x
  <2>3. <<N>> \o <<x>> = <<N, x>>
    BY Tuple11
  <2>4. Docstring(c) = <<N, x>>
    BY <1>0, <2>1, <2>3
  <2>5. /\ DOMAIN Docstring(c) = {1, 2} /\ Docstring(c)[1] = N
        /\ Docstring(c)[2] = x
    BY <2>4
  <2>6. Alone(c) = {"simpleType"}
    BY <1>2 DEF Alone
  <2>7. GroupsFit(c, Docstring(c))
    BY <2>5, <2>6, <1>2, <1>18 DEF N, x, GroupsFit, One, Many, Model, Lasts
  <2>8. Listed(c) = {"annotation"} \cup {"simpleType"}
    BY <2>5 DEF N, x, Listed, One, Many
  <2>9. Listed(c) \subseteq DOMAIN Class[c].kid \cup Dropped(c)
    BY <1>2, <2>8, KidTags2 DEF Dropped
  <2>. QED BY <2>7, <2>9 DEF ListedFit
<1>3. CASE c \in {"Union"}
  <2>. DEFINE x == Many({"simpleType"})
  <2>1. Contents(c) = <<x>>
    BY <1>3 DEF Contents, Uses
  <2>. HIDE DEF x
  <2>3. <<N>> \o <<x>> = <<N, x>>
    BY Tuple11
  <2>4. Docstring(c) = <<N, x>>
    BY <1>0, <2>1, <2>3
  <2>5. /\ DOMAIN Docstring(c) = {1, 2} /\ Docstring(c)[1] = N
        /\ Docstring(c)[2] = x
    BY <2>4
  <2>6. Alone(c) = {}
    BY <1>3 DEF Alone
  <2>7. GroupsFit(c, Docstring(c))
    BY <2>5, <2>6, <1>3, <1>18 DEF N, x, GroupsFit, One, Many, Model, Lasts
  <2>8. Listed(c) = {"annotation"} \cup {"simpleType"}
    BY <2>5 DEF N, x, Listed, One, Many
  <2>9. Listed(c) \subseteq DOMAIN Class[c].kid \cup Dropped(c)
    BY <1>3, <2>8, KidTags3 DEF Dropped
  <2>. QED BY <2>7, <2>9 DEF ListedFit
<1>4. CASE c \in {"AttributeGroupDefinition", "SimpleContentExtension"}
  <2>. DEFINE x == Many({"attribute", "attributeGroup"})
              y == One({"anyAttribute"})
  <2>1. Contents(c) = <<x, y>>
    BY <1>4 DEF Contents, Uses
  <2>. HIDE DEF x, y
  <2>3. <<N>> \o <<x, y>> = <<N, x, y>>
    BY Tuple12
  <2>4. Docstring(c) = <<N, x, y>>
    BY <1>0, <2>1, <2>3
  <2>5. /\ DOMAIN Docstring(c) = {1, 2, 3} /\ Docstring(c)[1] = N
        /\ Docstring(c)[2] = x /\ Docstring(c)[3] = y
    BY <2>4
  <2>6. Alone(c) = {}
    BY <1>4 DEF Alone
  <2>7. GroupsFit(c, Docstring(c))
    BY <2>5, <2>6, <1>4, <1>18 DEF N, x, y, GroupsFit, One, Many, Model, Lasts
  <2>8. Listed(c) = {"annotation"} \cup {"attribute", "attributeGroup"} \cup {"anyAttribute"}
    BY <2>5 DEF N, x, y, Listed, One, Many
  <2>9. Listed(c) \subseteq DOMAIN Class[c].kid \cup Dropped(c)
    BY <1>4, <2>8, KidTags4 DEF Dropped
  <2>. QED BY <2>7, <2>9 DEF ListedFit
<1>5. CASE c \in {"Unique", "Key", "KeyRef"}
  <2>. DEFINE x == One({"selector"})
              y == Many({"field"})
  <2>1. Contents(c) = <<x, y>>
    BY <1>5 DEF Contents, Uses
  <2>. HIDE DEF x, y
  <2>3. <<N>> \o <<x, y>> = <<N, x, y>>
    BY Tuple12
  <2>4. Docstring(c) = <<N, x, y>>
    BY <1>0, <2>1, <2>3
  <2>5. /\ DOMAIN Docstring(c) = {1, 2, 3} /\ Docstring(c)[1] = N
        /\ Docstring(c)[2] = x /\ Docstring(c)[3] = y
    BY <2>4
  <2>6. Alone(c) = {"selector"}
    BY <1>5 DEF Alone
  <2>7. GroupsFit(c, Docstring(c))
    BY <2>5, <2>6, <1>5, <1>18 DEF N, x, y, GroupsFit, One, Many, Model, Lasts
  <2>8. Listed(c) = {"annotation"} \cup {"selector"} \cup {"field"}
    BY <2>5 DEF N, x, y, Listed, One, Many
  <2>9. Listed(c) \subseteq DOMAIN Class[c].kid \cup Dropped(c)
    BY <1>5, <2>8, KidTags5 DEF Dropped
  <2>. QED BY <2>7, <2>9 DEF ListedFit
<1>6. CASE c \in {"ElementDeclaration", "LocalElementDeclaration"}
  <2>. DEFINE x == One({"simpleType", "complexType"})
              y == Many({"key", "keyref", "unique"})
  <2>1. Contents(c) = <<x, y>>
    BY <1>6 DEF Contents, Uses
  <2>. HIDE DEF x, y
  <2>3. <<N>> \o <<x, y>> = <<N, x, y>>
    BY Tuple12
  <2>4. Docstring(c) = <<N, x, y>>
    BY <1>0, <2>1, <2>3
  <2>5. /\ DOMAIN Docstring(c) = {1, 2, 3} /\ Docstring(c)[1] = N
        /\ Docstring(c)[2] = x /\ Docstring(c)[3] = y
    BY <2>4
  <2>6. Alone(c) = {"simpleType", "complexType"}
    BY <1>6 DEF Alone
  <2>7. GroupsFit(c, Docstring(c))
    BY <2>5, <2>6, <1>6, <1>18 DEF N, x, y, GroupsFit, One, Many, Model, Lasts
  <2>8. Listed(c) = {"annotation"} \cup {"simpleType", "complexType"} \cup {"key", "keyref", "unique"}
    BY <2>5 DEF N, x, y, Listed, One, Many
  <2>9. Listed(c) \subseteq DOMAIN Class[c].kid \cup Dropped(c)
    BY <1>6, <2>8, KidTags6 DEF Dropped
  <2>. QED BY <2>7, <2>9 DEF ListedFit
<1>7. CASE c \in {"Sequence", "Choice"}
  <2>. DEFINE x == Many({"element", "group", "choice", "sequence", "any"})
  <2>1. Contents(c) = <<x>>
    BY <1>7 DEF Contents, Uses
  <2>. HIDE DEF x
  <2>3. <<N>> \o <<x>> = <<N, x>>
    BY Tuple11
  <2>4. Docstring(c) = <<N, x>>
    BY <1>0, <2>1, <2>3
  <2>5. /\ DOMAIN Docstring(c) = {1, 2} /\ Docstring(c)[1] = N
        /\ Docstring(c)[2] = x
    BY <2>4
  <2>6. Alone(c) = {}
    BY <1>7 DEF Alone
  <2>7. GroupsFit(c, Docstring(c))
    BY <2>5, <2>6, <1>7, <1>18 DEF N, x, GroupsFit, One, Many, Model, Lasts
  <2>8. Listed(c) = {"annotation"} \cup {"element", "group", "choice", "sequence", "any"}
    BY <2>5 DEF N, x, Listed, One, Many
  <2>9. Listed(c) \subseteq DOMAIN Class[c].kid \cup Dropped(c)
    BY <1>7, <2>8, KidTags7 DEF Dropped
  <2>. QED BY <2>7, <2>9 DEF ListedFit
<1>8. CASE c \in {"All"}
  <2>. DEFINE x == Many({"element"})
  <2>1. Contents(c) = <<x>>
    BY <1>8 DEF Contents, Uses
  <2>. HIDE DEF x
  <2>3. <<N>> \o <<x>> = <<N, x>>
    BY Tuple11
  <2>4. Docstring(c) = <<N, x>>
    BY <1>0, <2>1, <2>3
  <2>5. /\ DOMAIN Docstring(c) = {1, 2} /\ Docstring(c)[1] = N
        /\ Docstring(c)[2] = x
    BY <2>4
  <2>6. Alone(c) = {}
    BY <1>8 DEF Alone
  <2>7. GroupsFit(c, Docstring(c))
    BY <2>5, <2>6, <1>8, <1>18 DEF N, x, GroupsFit, One, Many, Model, Lasts
  <2>8. Listed(c) = {"annotation"} \cup {"element"}
    BY <2>5 DEF N, x, Listed, One, Many
  <2>9. Listed(c) \subseteq DOMAIN Class[c].kid \cup Dropped(c)
    BY <1>8, <2>8, KidTags8 DEF Dropped
  <2>. QED BY <2>7, <2>9 DEF ListedFit
<1>9. CASE c \in {"ModelGroupDefinition"}
  <2>. DEFINE x == One({"all", "choice", "sequence"})
  <2>1. Contents(c) = <<x>>
    BY <1>9 DEF Contents, Uses
  <2>. HIDE DEF x
  <2>3. <<N>> \o <<x>> = <<N, x>>
    BY Tuple11
  <2>4. Docstring(c) = <<N, x>>
    BY <1>0, <2>1, <2>3
  <2>5. /\ DOMAIN Docstring(c) = {1, 2} /\ Docstring(c)[1] = N
        /\ Docstring(c)[2] = x
    BY <2>4
  <2>6. Alone(c) = {"all", "choice", "sequence"}
    BY <1>9 DEF Alone
  <2>7. GroupsFit(c, Docstring(c))
    BY <2>5, <2>6, <1>9, <1>18 DEF N, x, GroupsFit, One, Many, Model, Lasts
  <2>8. Listed(c) = {"annotation"} \cup {"all", "choice", "sequence"}
    BY <2>5 DEF N, x, Listed, One, Many
  <2>9. Listed(c) \subseteq DOMAIN Class[c].kid \cup Dropped(c)
    BY <1>9, <2>8, KidTags9 DEF Dropped
  <2>. QED BY <2>7, <2>9 DEF ListedFit
<1>10. CASE c \in {"ComplexType", "LocalComplexType"}
  <2>. DEFINE x == One(Model \cup {"simpleContent", "complexContent"})
              y == Many({"attribute", "attributeGroup"})
              z == One({"anyAttribute"})
  <2>1. Contents(c) = <<x>> \o <<y, z>>
    BY <1>10 DEF Contents, Uses
  <2>. HIDE DEF x, y, z
  <2>2. <<x>> \o <<y, z>> = <<x, y, z>>
    BY Tuple12
  <2>3. <<N>> \o <<x, y, z>> = <<N, x, y, z>>
    BY Tuple13
  <2>4. Docstring(c) = <<N, x, y, z>>
    BY <1>0, <2>1, <2>2, <2>3
  <2>5. /\ DOMAIN Docstring(c) = {1, 2, 3, 4} /\ Docstring(c)[1] = N
        /\ Docstring(c)[2] = x /\ Docstring(c)[3] = y /\ Docstring(c)[4] = z
    BY <2>4
  <2>6. Alone(c) = Model \cup {"simpleContent", "complexContent"}
    BY <1>10 DEF Alone
  <2>7. GroupsFit(c, Docstring(c))
    BY <2>5, <2>6, <1>10, <1>18 DEF N, x, y, z, GroupsFit, One, Many, Model, Lasts
  <2>8. Listed(c) = {"annotation"} \cup (Model \cup {"simpleContent", "complexContent"}) \cup {"attribute", "attributeGroup"} \cup {"anyAttribute"}
    BY <2>5 DEF N, x, y, z, Listed, One, Many
  <2>9. Listed(c) \subseteq DOMAIN Class[c].kid \cup Dropped(c)
    BY <1>10, <2>8, KidTags10 DEF Dropped
  <2>. QED BY <2>7, <2>9 DEF ListedFit
<1>11. CASE c \in {"ComplexContent", "SimpleContent"}
  <2>. DEFINE x == One({"restriction", "extension"})
  <2>1. Contents(c) = <<x>>
    BY <1>11 DEF Contents, Uses
  <2>. HIDE DEF x
  <2>3. <<N>> \o <<x>> = <<N, x>>
    BY Tuple11
  <2>4. Docstring(c) = <<N, x>>
    BY <1>0, <2>1, <2>3
  <2>5. /\ DOMAIN Docstring(c) = {1, 2} /\ Docstring(c)[1] = N
        /\ Docstring(c)[2] = x
    BY <2>4
  <2>6. Alone(c) = {"restriction", "extension"}
    BY <1>11 DEF Alone
  <2>7. GroupsFit(c, Docstring(c))
    BY <2>5, <2>6, <1>11, <1>18 DEF N, x, GroupsFit, One, Many, Model, Lasts
  <2>8. Listed(c) = {"annotation"} \cup {"restriction", "extension"}
    BY <2>5 DEF N, x, Listed, One, Many
  <2>9. Listed(c) \subseteq DOMAIN Class[c].kid \cup Dropped(c)
    BY <1>11, <2>8, KidTags11 DEF Dropped
  <2>. QED BY <2>7, <2>9 DEF ListedFit
<1>12. CASE c \in {"DerivationBase"}
  <2>. DEFINE x == One(Model)
              y == Many({"attribute", "attributeGroup"})
              z == One({"anyAttribute"})
  <2>1. Contents(c) = <<x>> \o <<y, z>>
    BY <1>12 DEF Contents, Uses
  <2>. HIDE DEF x, y, z
  <2>2. <<x>> \o <<y, z>> = <<x, y, z>>
    BY Tuple12
  <2>3. <<N>> \o <<x, y, z>> = <<N, x, y, z>>
    BY Tuple13
  <2>4. Docstring(c) = <<N, x, y, z>>
    BY <1>0, <2>1, <2>2, <2>3
  <2>5. /\ DOMAIN Docstring(c) = {1, 2, 3, 4} /\ Docstring(c)[1] = N
        /\ Docstring(c)[2] = x /\ Docstring(c)[3] = y /\ Docstring(c)[4] = z
    BY <2>4
  <2>6. Alone(c) = Model
    BY <1>12 DEF Alone
  <2>7. GroupsFit(c, Docstring(c))
    BY <2>5, <2>6, <1>12, <1>18, SMTT(60) DEF N, x, y, z, GroupsFit, One, Many, Model, Lasts
  <2>8. Listed(c) = {"annotation"} \cup Model \cup {"attribute", "attributeGroup"} \cup {"anyAttribute"}
    BY <2>5 DEF N, x, y, z, Listed, One, Many
  <2>9. Listed(c) \subseteq DOMAIN Class[c].kid \cup Dropped(c)
    BY <1>12, <2>8, KidTags12 DEF Dropped
  <2>. QED BY <2>7, <2>9 DEF ListedFit
<1>13. CASE c \in {"SimpleContentRestriction"}
  <2>. DEFINE x == One({"simpleType"})
              y == Many({"facet"})
              z == Many({"attribute", "attributeGroup"})
              w == One({"anyAttribute"})
  <2>1. Contents(c) = <<x, y>> \o <<z, w>>
    BY <1>13 DEF Contents, Uses
  <2>. HIDE DEF x, y, z, w
  <2>2. <<x, y>> \o <<z, w>> = <<x, y, z, w>>
    BY Tuple22
  <2>3. <<N>> \o <<x, y, z, w>> = <<N, x, y, z, w>>
    BY Tuple14
  <2>4. Docstring(c) = <<N, x, y, z, w>>
    BY <1>0, <2>1, <2>2, <2>3
  <2>5. /\ DOMAIN Docstring(c) = {1, 2, 3, 4, 5} /\ Docstring(c)[1] = N
        /\ Docstring(c)[2] = x /\ Docstring(c)[3] = y /\ Docstring(c)[4] = z /\ Docstring(c)[5] = w
    BY <2>4
  <2>6. Alone(c) = {}
    BY <1>13 DEF Alone
  <2>7. GroupsFit(c, Docstring(c))
    BY <2>5, <2>6, <1>13, <1>18 DEF N, x, y, z, w, GroupsFit, One, Many, Model, Lasts
  <2>8. Listed(c) = {"annotation"} \cup {"simpleType"} \cup {"facet"} \cup {"attribute", "attributeGroup"} \cup {"anyAttribute"}
    BY <2>5 DEF N, x, y, z, w, Listed, One, Many
  <2>9. Listed(c) \subseteq DOMAIN Class[c].kid \cup Dropped(c)
    BY <1>13, <2>8, KidTags13 DEF Dropped
  <2>. QED BY <2>7, <2>9 DEF ListedFit
<1>14. CASE c \in {"SimpleType", "AnonymousSimpleType"}
  <2>. DEFINE x == One({"restriction", "list", "union"})
  <2>1. Contents(c) = <<x>>
    BY <1>14 DEF Contents, Uses
  <2>. HIDE DEF x
  <2>3. <<N>> \o <<x>> = <<N, x>>
    BY Tuple11
  <2>4. Docstring(c) = <<N, x>>
    BY <1>0, <2>1, <2>3
  <2>5. /\ DOMAIN Docstring(c) = {1, 2} /\ Docstring(c)[1] = N
        /\ Docstring(c)[2] = x
    BY <2>4
  <2>6. Alone(c) = {"restriction", "list", "union"}
    BY <1>14 DEF Alone
  <2>7. GroupsFit(c, Docstring(c))
    BY <2>5, <2>6, <1>14, <1>18 DEF N, x, GroupsFit, One, Many, Model, Lasts
  <2>8. Listed(c) = {"annotation"} \cup {"restriction", "list", "union"}
    BY <2>5 DEF N, x, Listed, One, Many
  <2>9. Listed(c) \subseteq DOMAIN Class[c].kid \cup Dropped(c)
    BY <1>14, <2>8, KidTags14 DEF Dropped
  <2>. QED BY <2>7, <2>9 DEF ListedFit
<1>15. CASE c \in {"SimpleTypeRestriction"}
  <2>. DEFINE x == One({"simpleType"})
              y == Many({"facet"})
  <2>1. Contents(c) = <<x, y>>
    BY <1>15 DEF Contents, Uses
  <2>. HIDE DEF x, y
  <2>3. <<N>> \o <<x, y>> = <<N, x, y>>
    BY Tuple12
  <2>4. Docstring(c) = <<N, x, y>>
    BY <1>0, <2>1, <2>3
  <2>5. /\ DOMAIN Docstring(c) = {1, 2, 3} /\ Docstring(c)[1] = N
        /\ Docstring(c)[2] = x /\ Docstring(c)[3] = y
    BY <2>4
  <2>6. Alone(c) = {"simpleType"}
    BY <1>15 DEF Alone
  <2>7. GroupsFit(c, Docstring(c))
    BY <2>5, <2>6, <1>15, <1>18 DEF N, x, y, GroupsFit, One, Many, Model, Lasts
  <2>8. Listed(c) = {"annotation"} \cup {"simpleType"} \cup {"facet"}
    BY <2>5 DEF N, x, y, Listed, One, Many
  <2>9. Listed(c) \subseteq DOMAIN Class[c].kid \cup Dropped(c)
    BY <1>15, <2>8, KidTags15 DEF Dropped
  <2>. QED BY <2>7, <2>9 DEF ListedFit
<1>16. CASE c \notin {"AttributeDeclaration", "LocalAttributeDeclaration", "List", "Union",
                     "AttributeGroupDefinition", "SimpleContentExtension", "Unique", "Key", "KeyRef",
                     "ElementDeclaration", "LocalElementDeclaration", "Sequence", "Choice", "All",
                     "ModelGroupDefinition", "ComplexType", "LocalComplexType", "ComplexContent",
                     "SimpleContent", "DerivationBase", "SimpleContentRestriction", "SimpleType",
                     "AnonymousSimpleType", "SimpleTypeRestriction"}
  <2>1. Contents(c) = <<>>
    BY <1>16 DEF Contents
  <2>2. <<N>> \o <<>> = <<N>>
    OBVIOUS
  <2>3. Docstring(c) = <<N>>
    BY <1>0, <2>1, <2>2
  <2>4. DOMAIN Docstring(c) = {1} /\ Docstring(c)[1] = N
    BY <2>3
  <2>5. GroupsFit(c, Docstring(c))
    BY <2>4, <1>16, <1>18 DEF N, GroupsFit, One, Alone, Lasts
  <2>6. Listed(c) = {"annotation"}
    BY <2>4 DEF N, Listed, One
  <2>7. "annotation" \in DOMAIN Class[c].kid \cup Dropped(c)
    BY <1>16, KidTags16, ClassNames DEF Bare, Dropped
  <2>. QED BY <2>5, <2>6, <2>7 DEF ListedFit
<1>. QED
  BY <1>1, <1>2, <1>3, <1>4, <1>5, <1>6, <1>7, <1>8, <1>9, <1>10, <1>11, <1>12, <1>13, <1>14, <1>15, <1>16

LEMMA BareRows ==
  /\ DOMAIN Class["Annotation"].kid = {} /\ DOMAIN Class["Facet"].kid = {}
  /\ \A c \in Bare : \A g \in DOMAIN Docstring(c) :
       /\ GrammarAssumption => Docstring(c)[g].most \in Nat
       /\ Docstring(c)[g].tags \subseteq DOMAIN Class[c].kid \cup Class[c].ignored \cup Dropped(c)
<1>1. DOMAIN Class["Annotation"].kid = {} /\ DOMAIN Class["Facet"].kid = {}
  <2>1. Class["Annotation"] = Annotation /\ Class["Facet"] = Facet
    BY DEF Class
  <2>2. Annotation.kid = <<>> /\ Facet.kid = <<>>
    BY PlainRows DEF Others
  <2>. QED BY <2>1, <2>2
<1>2. ASSUME NEW g \in DOMAIN Docstring("XMLSchema")
      PROVE  /\ GrammarAssumption => Docstring("XMLSchema")[g].most \in Nat
             /\ Docstring("XMLSchema")[g].tags
                  \subseteq DOMAIN Class["XMLSchema"].kid \cup Dropped("XMLSchema")
  <2>1. Class["XMLSchema"] = XMLSchema /\ XMLSchema.kid = SchemaKids
    BY SchemaRow DEF Class, Others
  <2>2. Docstring("XMLSchema")[g] =
          Many({"include", "redefine", "annotation", "attribute", "attributeGroup", "complexType",
                "element", "group", "notation", "simpleType"})
    BY DEF Docstring
  <2>. QED BY <2>1, <2>2 DEF Many, SchemaKids, Dropped, GrammarAssumption
<1>3. ASSUME NEW g \in DOMAIN Docstring("Annotation")
      PROVE  /\ GrammarAssumption => Docstring("Annotation")[g].most \in Nat
             /\ Docstring("Annotation")[g].tags \subseteq Dropped("Annotation")
  BY DEF Docstring, Many, Dropped, GrammarAssumption
<1>4. DOMAIN Docstring("Facet") = {}
  BY DEF Docstring
<1>. QED BY <1>1, <1>2, <1>3, <1>4 DEF Bare

LEMMA MostIs ==
  ASSUME GrammarAssumption, NEW c \in Classes, NEW g \in DOMAIN Docstring(c)
  PROVE  Docstring(c)[g].most \in Nat
<1>1. CASE c \in Bare
  BY <1>1, BareRows
<1>2. CASE c \notin Bare
  BY <1>2, GroupsAreFit DEF GroupsFit
<1>. QED BY <1>1, <1>2

LEMMA AllListed == ASSUME GrammarAssumption, NEW c \in Classes PROVE ListedFit(c)
<1>1. CASE c \in Bare
  BY <1>1, BareRows DEF ListedFit, Listed
<1>2. CASE c \notin Bare
  BY <1>2, GroupsAreFit
<1>. QED BY <1>1, <1>2

------------------------------------------------------------------------------
\* What documented contents have in common.

LEMMA SameElement ==
  ASSUME NEW S, IsFiniteSet(S), Cardinality(S) <= 1, NEW i \in S, NEW j \in S
  PROVE  i = j
<1>1. Cardinality(S) \in Nat
  BY FS_CardinalityType
<1>2. CASE Cardinality(S) = 0
  BY <1>2, FS_EmptySet
<1>3. CASE Cardinality(S) = 1
  <2>1. PICK x : S = {x}
    BY <1>3, FS_Singleton
  <2>. QED BY <2>1
<1>. QED BY <1>1, <1>2, <1>3

LEMMA MembersFinite ==
  ASSUME NEW c, NEW read \in Seq(Tags), NEW g
  PROVE  IsFiniteSet(Members(c, read, g))
<1>1. Len(read) \in Nat /\ DOMAIN read = 1..Len(read)
  OBVIOUS
<1>2. IsFiniteSet(1..Len(read))
  BY <1>1, FS_Interval
<1>. QED BY <1>1, <1>2, FS_Subset DEF Members

\* Documented contents stay documented when the last child is left out.
LEMMA DocumentedPrefix ==
  ASSUME GrammarAssumption, NEW c \in Classes, NEW read \in Seq(Tags), NEW tag \in Tags,
         Documented(c, Append(read, tag))
  PROVE  Documented(c, read)
<1>. DEFINE longer == Append(read, tag)
<1>1. /\ longer \in Seq(Tags) /\ Len(read) \in Nat /\ Len(longer) = Len(read) + 1
      /\ DOMAIN read = 1..Len(read) /\ DOMAIN longer = 1..Len(read) + 1
      /\ \A i \in DOMAIN read : i \in DOMAIN longer /\ longer[i] = read[i]
  OBVIOUS
<1>2. Documented(c, longer)
  OBVIOUS
<1>. HIDE DEF longer
<1>3. /\ \A i \in DOMAIN longer : \E g \in DOMAIN Docstring(c) : longer[i] \in Docstring(c)[g].tags
      /\ \A i, j \in DOMAIN longer : i < j => GroupOf(c, longer[i]) <= GroupOf(c, longer[j])
      /\ \A g \in DOMAIN Docstring(c) : Cardinality(Members(c, longer, g)) <= Docstring(c)[g].most
      /\ \A i \in 1..Len(longer) - 1 : longer[i] \notin {"simpleContent", "complexContent"}
  BY <1>2, DocumentedIs, Zenon
<1>4. \A i \in DOMAIN read : \E g \in DOMAIN Docstring(c) : read[i] \in Docstring(c)[g].tags
  BY <1>1, <1>3
<1>5. \A i, j \in DOMAIN read : i < j => GroupOf(c, read[i]) <= GroupOf(c, read[j])
  BY <1>1, <1>3
<1>6. ASSUME NEW g \in DOMAIN Docstring(c)
      PROVE  Cardinality(Members(c, read, g)) <= Docstring(c)[g].most
  <2>1. Docstring(c)[g].most \in Nat
    BY MostIs
  <2>2. Members(c, read, g) \subseteq Members(c, longer, g)
    BY <1>1 DEF Members
  <2>3. IsFiniteSet(Members(c, longer, g)) /\ IsFiniteSet(Members(c, read, g))
    BY <1>1, MembersFinite
  <2>4. /\ Cardinality(Members(c, read, g)) <= Cardinality(Members(c, longer, g))
        /\ Cardinality(Members(c, read, g)) \in Nat /\ Cardinality(Members(c, longer, g)) \in Nat
    BY <2>2, <2>3, FS_Subset, FS_CardinalityType
  <2>. QED BY <1>3, <2>1, <2>4
<1>7. \A i \in 1..Len(read) - 1 : read[i] \notin {"simpleContent", "complexContent"}
  BY <1>1, <1>3
<1>. QED BY <1>4, <1>5, <1>6, <1>7, DocumentedIs, Zenon

\* An annotation comes first, and nothing but an annotation comes before one
\* of the tags that are allowed only there.
LEMMA DocumentedOrder ==
  ASSUME GrammarAssumption, NEW c \in Classes \ Bare, NEW read \in Seq(Tags),
         Documented(c, read), NEW i \in DOMAIN read
  PROVE  /\ read[i] = "annotation" => i = 1
         /\ read[i] \in Alone(c) =>
              \A j \in DOMAIN read : j < i => j = 1 /\ read[j] = "annotation"
<1>1. GroupsFit(c, Docstring(c))
  BY GroupsAreFit
<1>2. /\ \A k \in DOMAIN read : \E g \in DOMAIN Docstring(c) : read[k] \in Docstring(c)[g].tags
      /\ \A k, j \in DOMAIN read : k < j => GroupOf(c, read[k]) <= GroupOf(c, read[j])
      /\ \A g \in DOMAIN Docstring(c) : Cardinality(Members(c, read, g)) <= Docstring(c)[g].most
  BY DocumentedIs, Zenon
<1>3. Len(read) \in Nat /\ DOMAIN read = 1..Len(read)
  OBVIOUS
<1>4. \A k \in DOMAIN read :
        /\ GroupOf(c, read[k]) \in DOMAIN Docstring(c)
        /\ read[k] \in Docstring(c)[GroupOf(c, read[k])].tags
  BY <1>2, Zenon DEF GroupOf
<1>5. DOMAIN Docstring(c) \subseteq Nat \ {0} /\ 1 \in DOMAIN Docstring(c)
  BY <1>1 DEF GroupsFit
<1>6. ASSUME NEW g \in DOMAIN Docstring(c), Docstring(c)[g].most = 1,
             NEW j \in DOMAIN read, NEW k \in DOMAIN read,
             GroupOf(c, read[j]) = g, GroupOf(c, read[k]) = g
      PROVE  j = k
  <2>1. IsFiniteSet(Members(c, read, g))
    BY MembersFinite
  <2>2. Cardinality(Members(c, read, g)) <= 1
    BY <1>2, <1>6
  <2>3. j \in Members(c, read, g) /\ k \in Members(c, read, g)
    BY <1>6 DEF Members
  <2>. QED BY <2>1, <2>2, <2>3, SameElement
<1>7. ASSUME NEW j \in DOMAIN read
      PROVE  read[j] = "annotation" <=> GroupOf(c, read[j]) = 1
  <2>1. /\ Docstring(c)[1].tags = {"annotation"}
        /\ \A g \in DOMAIN Docstring(c) : g # 1 => "annotation" \notin Docstring(c)[g].tags
    BY <1>1 DEF GroupsFit, One
  <2>. QED BY <1>4, <2>1
<1>8. Docstring(c)[1].most = 1
  BY <1>1 DEF GroupsFit, One
<1>9. ASSUME NEW j \in DOMAIN read, GroupOf(c, read[j]) = 1
      PROVE  j = 1
  <2>1. 1 \in DOMAIN read /\ (j # 1 => 1 < j)
    BY <1>3
  <2>2. GroupOf(c, read[1]) = 1
    BY <1>2, <1>4, <1>5, <1>9, <2>1
  <2>. QED BY <1>5, <1>6, <1>8, <1>9, <2>1, <2>2
<1>10. ASSUME read[i] \in Alone(c), NEW j \in DOMAIN read, j < i
       PROVE  j = 1 /\ read[j] = "annotation"
  <2>1. /\ 2 \in DOMAIN Docstring(c) /\ Docstring(c)[2].most = 1
        /\ \A g \in DOMAIN Docstring(c) : g # 2 => read[i] \notin Docstring(c)[g].tags
    BY <1>1, <1>10 DEF GroupsFit, One
  <2>2. GroupOf(c, read[i]) = 2
    BY <1>4, <2>1
  <2>3. GroupOf(c, read[j]) <= 2
    BY <1>2, <1>10, <2>2
  <2>4. GroupOf(c, read[j]) # 2
    BY <1>3, <1>6, <1>10, <2>1, <2>2
  <2>5. GroupOf(c, read[j]) = 1
    BY <1>4, <1>5, <2>3, <2>4
  <2>. QED BY <1>7, <1>9, <2>5
<1>. QED BY <1>7, <1>9, <1>10

------------------------------------------------------------------------------
\* What fromDom does with documented contents.

LEMMA Appended ==
  ASSUME NEW read \in Seq(Tags), NEW tag \in Tags
  PROVE  /\ Append(read, tag) \in Seq(Tags) /\ Len(read) \in Nat
         /\ DOMAIN read = 1..Len(read) /\ DOMAIN Append(read, tag) = 1..Len(read) + 1
         /\ \A i \in DOMAIN read : Append(read, tag)[i] = read[i]
         /\ Append(read, tag)[Len(read) + 1] = tag
OBVIOUS

LEMMA AloneTags == ASSUME NEW c PROVE "annotation" \notin Alone(c)
BY DEF Alone, Model

\* The child that comes last in documented contents: an annotation is the
\* only one, and one that is allowed only there has at most an annotation
\* before it.
LEMMA DocumentedLast ==
  ASSUME GrammarAssumption, NEW c \in Classes \ Bare, NEW read \in Seq(Tags),
         NEW tag \in Tags, Documented(c, Append(read, tag))
  PROVE  /\ tag = "annotation" => read = <<>>
         /\ tag \in Alone(c) => read \in {<<>>, <<"annotation">>} /\ Len(read) <= 1
<1>. DEFINE longer == Append(read, tag)
            n == Len(read) + 1
<1>1. /\ longer \in Seq(Tags) /\ Len(read) \in Nat /\ n \in Nat
      /\ DOMAIN read = 1..Len(read) /\ DOMAIN longer = 1..n
      /\ \A i \in DOMAIN read : longer[i] = read[i]
      /\ longer[n] = tag
  BY Appended
<1>2. Documented(c, longer)
  OBVIOUS
<1>. HIDE DEF longer
<1>3. n \in DOMAIN longer
  BY <1>1
<1>. HIDE DEF n
<1>4. /\ longer[n] = "annotation" => n = 1
      /\ longer[n] \in Alone(c) =>
           \A j \in DOMAIN longer : j < n => j = 1 /\ longer[j] = "annotation"
  BY <1>1, <1>2, <1>3, DocumentedOrder
<1>5. ASSUME tag = "annotation"
      PROVE  read = <<>>
  <2>1. Len(read) = 0
    BY <1>1, <1>4, <1>5 DEF n
  <2>. QED BY <2>1
<1>6. ASSUME tag \in Alone(c)
      PROVE  read \in {<<>>, <<"annotation">>} /\ Len(read) <= 1
  <2>1. \A j \in DOMAIN read : j = 1 /\ read[j] = "annotation"
    BY <1>1, <1>4, <1>6 DEF n
  <2>2. Len(read) <= 1
    <3>1. CASE Len(read) \in DOMAIN read
      BY <2>1, <3>1
    <3>2. CASE Len(read) \notin DOMAIN read
      BY <1>1, <3>2
    <3>. QED BY <3>1, <3>2
  <2>3. CASE Len(read) = 0
    BY <2>3
  <2>4. CASE Len(read) = 1
    <3>1. read[1] = "annotation"
      BY <2>1, <2>4
    <3>. QED BY <2>4, <3>1
  <2>. QED BY <1>1, <2>2, <2>3, <2>4
<1>. QED BY <1>5, <1>6

\* No tag that shares an instance variable with the last one has come before.
LEMMA NothingReplaced ==
  ASSUME GrammarAssumption, NEW c \in Classes, NEW read \in Seq(Tags),
         NEW tag \in DOMAIN Class[c].kid, tag \in Tags, Documented(c, Append(read, tag)),
         NEW tags \in Class[c].single, tag \in tags
  PROVE  ~Has(read, tags)
<1>1. Fits(c, Class[c])
  BY RowsFit
<1>2. /\ "annotation" \in DOMAIN Class[c].kid => c # "XMLSchema"
      /\ c = "XMLSchema" => Class[c].single = Notes1
      /\ Class[c].single \subseteq Notes1 \cup SUBSET Alone(c)
  BY <1>1 DEF Fits, KidsFit, OthersFit
<1>3. c \notin Bare
  BY <1>2, BareRows DEF Notes1, Bare
<1>4. /\ tag = "annotation" => read = <<>>
      /\ tag \in Alone(c) => read \in {<<>>, <<"annotation">>} /\ Len(read) <= 1
  BY <1>3, DocumentedLast
<1>5. CASE tags = {"annotation"}
  BY <1>4, <1>5 DEF Has
<1>6. CASE tags \subseteq Alone(c)
  <2>1. read = <<>> \/ read = <<"annotation">>
    BY <1>4, <1>6
  <2>2. "annotation" \notin tags
    BY <1>6, AloneTags
  <2>3. CASE read = <<>>
    BY <2>3 DEF Has
  <2>4. CASE read = <<"annotation">>
    BY <2>2, <2>4 DEF Has
  <2>. QED BY <2>1, <2>3, <2>4
<1>. QED BY <1>2, <1>5, <1>6 DEF Notes1

\* A documented child has its place, but for a facet in a restriction of
\* simpleContent.
LEMMA DocumentedPlaced ==
  ASSUME GrammarAssumption, NEW c \in Classes, NEW read \in Seq(Tags), NEW tag \in Tags,
         tag \in DOMAIN Class[c].kid, Documented(c, Append(read, tag)), c = "XMLSchema" => read = <<>>
  PROVE  Placed(c, read, tag) \/ Unread(c, Append(read, tag))
<1>. DEFINE row == Class[c]
<1>1. Fits(c, row)
  BY RowsFit
<1>. HIDE DEF row
<1>2. SUFFICES ASSUME ~Unread(c, Append(read, tag))
               PROVE  Placed(c, read, tag)
  OBVIOUS
<1>3. c # "XMLSchema" =>
        /\ tag = "annotation" => read = <<>>
        /\ tag \in Alone(c) => read \in {<<>>, <<"annotation">>} /\ Len(read) <= 1
  BY DocumentedLast, BareRows DEF Bare
<1>4. Alone("XMLSchema") = {}
  BY DEF Alone
<1>5. /\ tag = "annotation" => read = <<>>
      /\ tag \in Alone(c) => read \in {<<>>, <<"annotation">>} /\ Len(read) <= 1
  BY <1>3, <1>4
<1>6. tag \notin row.refused
  <2>1. CASE c \in {"ComplexType", "LocalComplexType"} /\ row.refused = {"any"}
    <3>1. \A g \in DOMAIN Docstring(c) : "any" \notin Docstring(c)[g].tags
      BY <2>1, GroupsAreFit DEF GroupsFit, Bare
    <3>2. Len(read) + 1 \in DOMAIN Append(read, tag) /\ Append(read, tag)[Len(read) + 1] = tag
      BY Appended
    <3>3. \E g \in DOMAIN Docstring(c) : tag \in Docstring(c)[g].tags
      BY <3>2, DocumentedIs
    <3>. QED BY <2>1, <3>1, <3>3
  <2>2. CASE c = "SimpleContentRestriction" /\ row.refused = {"facet"}
    <3>1. Len(read) + 1 \in DOMAIN Append(read, tag) /\ Append(read, tag)[Len(read) + 1] = tag
      BY Appended
    <3>. QED BY <1>2, <2>2, <3>1 DEF Unread, Has
  <2>3. CASE row.refused = {}
    BY <2>3
  <2>. QED BY <1>1, <2>1, <2>2, <2>3 DEF Fits, OthersFit
<1>7. ~Has(read, row.last)
  <2>1. CASE row.last = {}
    BY <2>1 DEF Has
  <2>2. CASE c = "AttributeGroupDefinition" /\ row.last = {"anyAttribute"}
    <3>. DEFINE longer == Append(read, tag)
                n == Len(read) + 1
    <3>1. SUFFICES ASSUME NEW i \in DOMAIN read, read[i] = "anyAttribute"
                   PROVE  FALSE
      BY <2>2 DEF Has
    <3>2. /\ longer \in Seq(Tags) /\ n \in DOMAIN longer /\ i \in DOMAIN longer /\ i < n
          /\ longer[i] = "anyAttribute" /\ n # i
      BY <3>1, Appended
    <3>. HIDE DEF longer, n
    <3>3. Documented(c, longer)
      BY DEF longer
    <3>4. /\ \A k \in DOMAIN longer : \E g \in DOMAIN Docstring(c) : longer[k] \in Docstring(c)[g].tags
          /\ \A k, j \in DOMAIN longer : k < j => GroupOf(c, longer[k]) <= GroupOf(c, longer[j])
          /\ \A g \in DOMAIN Docstring(c) : Cardinality(Members(c, longer, g)) <= Docstring(c)[g].most
      BY <3>3, DocumentedIs, Zenon
    <3>5. /\ DOMAIN Docstring(c) = 1..3 /\ Docstring(c)[3].most = 1
          /\ Docstring(c)[1].tags = {"annotation"} /\ "anyAttribute" \notin Docstring(c)[2].tags
      <4>1. GroupsFit(c, Docstring(c))
        BY <2>2, GroupsAreFit DEF Bare
      <4>2. DOMAIN Docstring(c) = 1..3
        BY <2>2, <4>1 DEF GroupsFit
      <4>3. Docstring(c)[3].most = 1 /\ "anyAttribute" \notin Docstring(c)[2].tags
        BY <2>2, <4>1 DEF GroupsFit, One
      <4>4. Docstring(c)[1].tags = {"annotation"}
        BY <4>1 DEF GroupsFit, One
      <4>. QED BY <4>2, <4>3, <4>4
    <3>6. /\ GroupOf(c, longer[i]) \in 1..3 /\ longer[i] \in Docstring(c)[GroupOf(c, longer[i])].tags
          /\ GroupOf(c, longer[n]) \in 1..3
      BY <3>2, <3>4, <3>5, Zenon DEF GroupOf
    <3>7. GroupOf(c, longer[i]) = 3
      BY <3>2, <3>5, <3>6
    <3>8. GroupOf(c, longer[n]) = 3
      <4>1. GroupOf(c, longer[i]) <= GroupOf(c, longer[n])
        BY <3>2, <3>4
      <4>. QED BY <3>6, <3>7, <4>1
    <3>9. i \in Members(c, longer, 3) /\ n \in Members(c, longer, 3)
      BY <3>2, <3>7, <3>8 DEF Members
    <3>10. IsFiniteSet(Members(c, longer, 3)) /\ Cardinality(Members(c, longer, 3)) <= 1
      BY <3>2, <3>4, <3>5, MembersFinite
    <3>. QED BY <3>2, <3>9, <3>10, SameElement
  <2>. QED BY <1>1, <2>1, <2>2 DEF Fits, LimitsFit
<1>8. ASSUME NEW tags \in row.once, tag \in tags
      PROVE  ~Has(read, tags)
  <2>1. CASE tags = {"annotation"}
    BY <1>5, <1>8, <2>1 DEF Has
  <2>2. CASE tags \subseteq Alone(c)
    <3>1. read = <<>> \/ read = <<"annotation">>
      BY <1>5, <1>8, <2>2
    <3>2. "annotation" \notin tags
      BY <2>2, AloneTags
    <3>3. CASE read = <<>>
      BY <3>3 DEF Has
    <3>4. CASE read = <<"annotation">>
      BY <3>2, <3>4 DEF Has
    <3>. QED BY <3>1, <3>3, <3>4
  <2>. QED BY <1>1, <2>1, <2>2 DEF Fits, LimitsFit, Notes1
<1>9. tag \in row.first => read = <<>>
  BY <1>1, <1>5 DEF Fits, LimitsFit
<1>10. /\ tag \in row.lead => read \in {<<>>, <<"annotation">>}
       /\ tag \in row.second => Len(read) <= 1
  BY <1>1, <1>5 DEF Fits, LimitsFit
<1>. QED BY <1>6, <1>7, <1>8, <1>9, <1>10 DEF Placed, row

\* Documented contents go no further than a child that ends the loop.
LEMMA StopEnds ==
  ASSUME GrammarAssumption, NEW c \in Classes, NEW read \in Seq(Tags), NEW tag \in Tags,
         Documented(c, Append(read, tag))
  PROVE  ~Has(read, Class[c].stop)
<1>. DEFINE longer == Append(read, tag)
            n == Len(read) + 1
            stop == Class[c].stop
<1>1. EndsFit(c, Class[c])
  BY RowsEnd
<1>2. /\ longer \in Seq(Tags) /\ n \in DOMAIN longer /\ Len(longer) = n
      /\ \A i \in DOMAIN read : i \in DOMAIN longer /\ longer[i] = read[i] /\ i < n /\ i \in 1..n - 1
  BY Appended
<1>3. Documented(c, longer)
  OBVIOUS
<1>. HIDE DEF longer, n
<1>4. /\ \A k \in DOMAIN longer : \E g \in DOMAIN Docstring(c) : longer[k] \in Docstring(c)[g].tags
      /\ \A k, j \in DOMAIN longer : k < j => GroupOf(c, longer[k]) <= GroupOf(c, longer[j])
      /\ \A g \in DOMAIN Docstring(c) : Cardinality(Members(c, longer, g)) <= Docstring(c)[g].most
      /\ \A i \in 1..Len(longer) - 1 : longer[i] \notin {"simpleContent", "complexContent"}
  BY <1>3, DocumentedIs, Zenon
<1>5. SUFFICES ASSUME NEW i \in DOMAIN read, read[i] \in stop
               PROVE  FALSE
  BY DEF Has
<1>6. CASE stop = ContentTypes
  BY <1>2, <1>4, <1>5, <1>6 DEF ContentTypes
<1>7. CASE c \in Lasts /\ stop = Alone(c)
  <2>1. GroupsFit(c, Docstring(c)) /\ Alone(c) # {}
    BY <1>5, <1>7, GroupsAreFit DEF Bare, Lasts
  <2>2. /\ DOMAIN Docstring(c) = 1..2 /\ Docstring(c)[2].most = 1
        /\ Docstring(c)[1].tags \cap Alone(c) = {}
    BY <1>7, <2>1 DEF GroupsFit, One
  <2>3. /\ GroupOf(c, longer[i]) \in 1..2 /\ longer[i] \in Docstring(c)[GroupOf(c, longer[i])].tags
        /\ GroupOf(c, longer[n]) \in 1..2
    BY <1>2, <1>4, <2>2, Zenon DEF GroupOf
  <2>4. GroupOf(c, longer[i]) = 2
    BY <1>2, <1>5, <1>7, <2>2, <2>3
  <2>5. GroupOf(c, longer[n]) = 2
    <3>1. GroupOf(c, longer[i]) <= GroupOf(c, longer[n])
      BY <1>2, <1>4
    <3>. QED BY <2>3, <2>4, <3>1
  <2>6. i \in Members(c, longer, 2) /\ n \in Members(c, longer, 2)
    BY <1>2, <2>4, <2>5 DEF Members
  <2>7. IsFiniteSet(Members(c, longer, 2)) /\ Cardinality(Members(c, longer, 2)) <= 1
    BY <1>2, <1>4, <2>2, MembersFinite
  <2>8. i = n
    BY <2>6, <2>7, SameElement
  <2>. QED BY <1>2, <2>8
<1>. QED BY <1>1, <1>5, <1>6, <1>7 DEF EndsFit

\* Neither is there documented content that a class looks beyond the end of,
\* other than that of Unread.
LEMMA EagerUnread ==
  ASSUME NEW c \in Classes, NEW read \in Class[c].eager
  PROVE  Unread(c, read)
<1>1. OthersFit(c, Class[c])
  BY RowsFit DEF Fits
<1>. QED BY <1>1 DEF OthersFit, Unread

------------------------------------------------------------------------------
\* The namespace that getXMLNS finds.

LEMMA LeastElement ==
  ASSUME NEW T \in SUBSET Nat, T # {}
  PROVE  \E m \in T : \A n \in T : m <= n
<1>. DEFINE R == OpToRel(<, Nat)
<1>1. IsWellFoundedOn(R, Nat)
  BY NatLessThanWellFounded, Zenon
<1>2. \A m, n \in Nat : n < m => <<n, m>> \in R
  BY DEF OpToRel
<1>. HIDE DEF R
<1>3. PICK m \in T : \A n \in T : ~(<<n, m>> \in R)
  BY <1>1, WFMin
<1>4. \A n \in T : n \in Nat /\ m \in Nat /\ ~(n < m)
  BY <1>2, <1>3
<1>. QED BY <1>4

Declares(frame, prefix) == prefix \in DOMAIN frame.scope /\ frame.scope[prefix] # NoNs
Declaring(st, prefix, i) == {j \in 1..i : Declares(st[j], prefix)}

\* One step of the search, f being what it finds further out.
Stops(frame, prefix) == Declares(frame, prefix) \/ frame.class = "WSDLToolsAdapter"
StopsWith(frame, prefix) ==
  IF Declares(frame, prefix) THEN frame.scope[prefix]
  ELSE IF prefix = NoPrefix THEN NoNs ELSE "SchemaError"
Found(st, prefix, f, i) ==
  IF i = 0 THEN "TypeError"
  ELSE IF Stops(st[i], prefix) THEN StopsWith(st[i], prefix) ELSE f[i - 1]

\* The recursive definition has a solution: what the last place says at which
\* the search would stop.
LEMMA SearchExists ==
  ASSUME NEW st, NEW prefix, NEW n \in Nat
  PROVE  \E f : f = [i \in 0..n |-> Found(st, prefix, f, i)]
<1>. DEFINE Stopping(i) == {j \in 1..i : Stops(st[j], prefix)}
            Latest(S) == CHOOSE j \in S : \A k \in S : k <= j
            At(S) == IF S = {} THEN "TypeError" ELSE StopsWith(st[Latest(S)], prefix)
            f == [i \in 0..n |-> At(Stopping(i))]
<1>1. ASSUME NEW i \in 0..n
      PROVE  f[i] = Found(st, prefix, f, i)
  <2>1. CASE i = 0
    BY <2>1 DEF Found
  <2>2. CASE i # 0 /\ Stops(st[i], prefix)
    <3>1. i \in Stopping(i) /\ \A k \in Stopping(i) : k <= i /\ k \in Nat
      BY <2>2
    <3>2. Latest(Stopping(i)) = i
      <4>. DEFINE S == Stopping(i)
      <4>. HIDE DEF S
      <4>. QED BY <3>1 DEF S
    <3>. QED BY <2>2, <3>1, <3>2 DEF Found
  <2>3. CASE i # 0 /\ ~Stops(st[i], prefix)
    <3>1. i - 1 \in 0..n /\ Stopping(i) = Stopping(i - 1)
      BY <2>3
    <3>. HIDE DEF At, Stopping
    <3>2. f[i] = f[i - 1]
      BY <3>1
    <3>. QED BY <2>3, <3>2 DEF Found
  <2>. QED BY <2>1, <2>2, <2>3
<1>2. f = [i \in 0..n |-> f[i]]
  OBVIOUS
<1>. HIDE DEF f
<1>. QED BY <1>1, <1>2

LEMMA SearchIs ==
  ASSUME NEW st, NEW prefix, Len(st) \in Nat
  PROVE  \E f : /\ \A i \in 0..Len(st) : f[i] = Found(st, prefix, f, i)
                /\ getXMLNS(st, prefix) = f[Len(st)]
<1>. DEFINE Search[i \in 0..Len(st)] == Found(st, prefix, Search, i)
<1>1. \E f : f = [i \in 0..Len(st) |-> Found(st, prefix, f, i)]
  BY SearchExists
<1>2. Search = [i \in 0..Len(st) |-> Found(st, prefix, Search, i)]
  BY <1>1
<1>3. getXMLNS(st, prefix) = Search[Len(st)]
  BY DEF getXMLNS, Found, Stops, StopsWith, Declares
<1>. HIDE DEF Search
<1>4. \A i \in 0..Len(st) : Search[i] = Found(st, prefix, Search, i)
  BY <1>2
<1>. QED BY <1>3, <1>4

------------------------------------------------------------------------------
\* The invariant.  Typed: what the frames on the stack are.  Nested: the
\* adapter is at most at the bottom, below the schema, and a child is one
\* that the contents of its parent's class name.

Frames ==
  [tag : Tags \cup {"schema", "definitions"}, class : Classes \cup {Adapter}, scope : Scopes,
   names : SUBSET (NsPrefixes \X (Ns \cup {NoNs})), read : Seq(Tags), kept : SUBSET Nat,
   strays : SUBSET Tags, notes : Nat]

Typed == stack \in Seq(Frames)

AdapterLowest(st) ==
  /\ st # <<>> => st[1].class \in {"XMLSchema", Adapter}
  /\ \A i \in DOMAIN st : st[i].class = Adapter => i = 1 /\ Len(st) >= 2 /\ st[2].class = "XMLSchema"
KidsOfParents(st) ==
  \A i \in 2..Len(st) : st[i - 1].class # Adapter => st[i].tag \in DOMAIN Class[st[i - 1].class].kid
Nested == (ended = Reading => stack # <<>>) /\ AdapterLowest(stack) /\ KidsOfParents(stack)

\* What the search finds.
IsInnermost(st, prefix, i, ns) ==
  IF Declaring(st, prefix, i) = {} THEN prefix = NoPrefix /\ ns = NoNs /\ st[1].class = Adapter
  ELSE \E j \in Declaring(st, prefix, i) :
         ns = st[j].scope[prefix] /\ \A k \in Declaring(st, prefix, i) : k <= j

LEMMA NamespaceFound ==
  ASSUME NEW st \in Seq(Frames), AdapterLowest(st), NEW prefix,
         getXMLNS(st, prefix) \notin {"TypeError", "SchemaError"}
  PROVE  IsInnermost(st, prefix, Len(st), getXMLNS(st, prefix))
<1>1. Len(st) \in Nat /\ DOMAIN st = 1..Len(st)
  OBVIOUS
<1>2. PICK f : /\ \A i \in 0..Len(st) : f[i] = Found(st, prefix, f, i)
               /\ getXMLNS(st, prefix) = f[Len(st)]
  BY <1>1, SearchIs
<1>. DEFINE Right(i) == f[i] \in {"TypeError", "SchemaError"} \/ IsInnermost(st, prefix, i, f[i])
            Wrong == {i \in 0..Len(st) : ~Right(i)}
<1>3. Right(0)
  BY <1>1, <1>2 DEF Found
<1>4. ASSUME NEW i \in 1..Len(st), Right(i - 1)
      PROVE  Right(i)
  <2>1. f[i] = IF Stops(st[i], prefix) THEN StopsWith(st[i], prefix) ELSE f[i - 1]
    BY <1>1, <1>2 DEF Found
  <2>2. CASE Declares(st[i], prefix)
    <3>1. f[i] = st[i].scope[prefix]
      BY <2>1, <2>2 DEF Stops, StopsWith
    <3>2. i \in Declaring(st, prefix, i) /\ \A k \in Declaring(st, prefix, i) : k <= i
      BY <1>1, <2>2 DEF Declaring
    <3>3. IsInnermost(st, prefix, i, f[i])
      BY <3>1, <3>2 DEF IsInnermost
    <3>. QED BY <3>3
  <2>3. CASE ~Declares(st[i], prefix) /\ st[i].class = Adapter
    <3>1. i = 1 /\ st[1].class = Adapter
      BY <1>1, <2>3 DEF AdapterLowest
    <3>2. Declaring(st, prefix, i) = {}
      BY <2>3, <3>1 DEF Declaring
    <3>3. f[i] = IF prefix = NoPrefix THEN NoNs ELSE "SchemaError"
      BY <2>1, <2>3 DEF Stops, StopsWith, Adapter
    <3>4. prefix = NoPrefix => IsInnermost(st, prefix, i, f[i])
      BY <3>1, <3>2, <3>3 DEF IsInnermost
    <3>. QED BY <3>3, <3>4
  <2>4. CASE ~Declares(st[i], prefix) /\ st[i].class # Adapter
    <3>1. f[i] = f[i - 1]
      BY <2>1, <2>4 DEF Stops, Adapter
    <3>2. Declaring(st, prefix, i) = Declaring(st, prefix, i - 1)
      BY <1>1, <2>4 DEF Declaring
    <3>3. IsInnermost(st, prefix, i - 1, f[i - 1]) => IsInnermost(st, prefix, i, f[i])
      BY <3>1, <3>2 DEF IsInnermost
    <3>. QED BY <1>4, <3>1, <3>3
  <2>. QED BY <2>2, <2>3, <2>4
<1>5. Wrong = {}
  <2>1. SUFFICES ASSUME Wrong # {}
                 PROVE  FALSE
    OBVIOUS
  <2>. HIDE DEF Right
  <2>7. Wrong \in SUBSET Nat
    BY <1>1
  <2>. HIDE DEF Wrong
  <2>2. PICK m \in Wrong : \A n \in Wrong : m <= n
    BY <2>1, <2>7, LeastElement
  <2>3. m \in 0..Len(st) /\ ~Right(m)
    BY DEF Wrong
  <2>4. m # 0
    BY <1>3, <2>3
  <2>5. m \in 1..Len(st) /\ m - 1 \in 0..Len(st) /\ m - 1 < m
    BY <1>1, <2>3, <2>4
  <2>6. Right(m - 1)
    BY <1>1, <2>2, <2>5 DEF Wrong
  <2>. QED BY <1>4, <2>3, <2>5, <2>6
<1>6. Right(Len(st))
  BY <1>1, <1>5
<1>. QED BY <1>2, <1>6

\* It depends on the declarations and classes around the name alone.
LEMMA InnermostSame ==
  ASSUME NEW st, NEW other, NEW i \in Nat, NEW prefix, NEW ns,
         \A j \in 1..i : other[j].scope = st[j].scope, other[1].class = st[1].class,
         IsInnermost(st, prefix, i, ns)
  PROVE  IsInnermost(other, prefix, i, ns)
<1>1. Declaring(other, prefix, i) = Declaring(st, prefix, i)
  BY DEF Declaring, Declares
<1>2. \A j \in Declaring(st, prefix, i) : other[j].scope[prefix] = st[j].scope[prefix]
  BY DEF Declaring
<1>. QED BY <1>1, <1>2 DEF IsInnermost

InnermostIn(st) ==
  \A i \in DOMAIN st : \A n \in st[i].names : IsInnermost(st, n[1], i, n[2])

LEMMA InnermostIs ==
  /\ Typed => (InnermostNamespace <=> InnermostIn(stack))
  /\ Typed' => (InnermostNamespace' <=> InnermostIn(stack'))
<1>1. ASSUME NEW st \in Seq(Frames), NEW i \in DOMAIN st, NEW n \in st[i].names
      PROVE  n = <<NoPrefix, NoNs>> <=> n[1] = NoPrefix /\ n[2] = NoNs
  <2>1. st[i] \in Frames
    OBVIOUS
  <2>2. n \in NsPrefixes \X (Ns \cup {NoNs})
    BY <2>1 DEF Frames
  <2>. QED BY <2>2
<1>2. ASSUME NEW st \in Seq(Frames), NEW i \in DOMAIN st, NEW n \in st[i].names
      PROVE  (LET declaring == {j \in 1..i : n[1] \in DOMAIN st[j].scope /\ st[j].scope[n[1]] # NoNs}
              IN  IF declaring = {} THEN n = <<NoPrefix, NoNs>> /\ st[1].class = "WSDLToolsAdapter"
                  ELSE \E j \in declaring : n[2] = st[j].scope[n[1]] /\ \A k \in declaring : k <= j)
              <=> IsInnermost(st, n[1], i, n[2])
  BY <1>1 DEF IsInnermost, Declaring, Declares, Adapter
<1>3. Typed => (InnermostNamespace <=> InnermostIn(stack))
  BY <1>2, Zenon DEF Typed, InnermostNamespace, InnermostIn
<1>4. Typed' => (InnermostNamespace' <=> InnermostIn(stack'))
  BY <1>2, Zenon DEF Typed, InnermostNamespace, InnermostIn
<1>. QED BY <1>3, <1>4

\* What DocumentedContentsKept says of each frame.
KeptIn(f) ==
  /\ f.strays \cap Listed(f.class) \subseteq Dropped(f.class)
  /\ Documented(f.class, f.read) =>
       \A k \in DOMAIN f.read : k \in f.kept \/ f.read[k] \in Dropped(f.class)

LEMMA KeptInAll ==
  /\ DocumentedContentsKept <=> \A i \in DOMAIN stack : KeptIn(stack[i])
  /\ DocumentedContentsKept' <=> \A i \in DOMAIN stack' : KeptIn(stack'[i])
BY DEF DocumentedContentsKept, KeptIn

------------------------------------------------------------------------------
\* The steps.

LEMMA TopIs ==
  ASSUME Typed, Nested, ended = Reading
  PROVE  /\ Len(stack) \in Nat \ {0} /\ DOMAIN stack = 1..Len(stack)
         /\ Len(stack) \in DOMAIN stack /\ Top \in Frames /\ Top.class \in Classes
<1>1. Len(stack) \in Nat /\ DOMAIN stack = 1..Len(stack) /\ stack # <<>>
  BY DEF Typed, Nested
<1>2. Len(stack) # 0
  BY <1>1 DEF Typed
<1>3. Len(stack) \in DOMAIN stack
  BY <1>1, <1>2
<1>4. Top \in Frames
  BY <1>3 DEF Typed, Top
<1>5. Top.class # Adapter
  BY <1>3 DEF Nested, AdapterLowest, Top
<1>. QED BY <1>1, <1>2, <1>3, <1>4, <1>5 DEF Frames

\* An exception, or the end of a component: no fromDom runs any more.
LEMMA RaiseStep ==
  ASSUME NEW how, how # "reading", NEW cause, NEW class, NEW read, Raise(how, cause, class, read)
  PROVE  /\ Typed' /\ Nested' /\ InnermostNamespace' /\ DocumentedContentsKept'
         /\ cause # "contents" \/ ~Documented(class, read) \/ Unread(class, read)
              => DocumentedContentsRead'
<1>1. stack' = <<>> /\ ended' = [how |-> how, cause |-> cause, class |-> class, read |-> read]
  BY DEF Raise
<1>2. ended' # Reading
  BY <1>1 DEF Reading
<1>3. Typed'
  BY <1>1 DEF Typed
<1>4. Nested'
  BY <1>1, <1>2 DEF Nested, AdapterLowest, KidsOfParents
<1>5. InnermostNamespace' /\ DocumentedContentsKept'
  BY <1>1 DEF InnermostNamespace, DocumentedContentsKept
<1>6. ASSUME cause # "contents" \/ ~Documented(class, read) \/ Unread(class, read)
      PROVE  DocumentedContentsRead'
  BY <1>1, <1>6 DEF DocumentedContentsRead
<1>. QED BY <1>3, <1>4, <1>5, <1>6

LEMMA KidClassIs ==
  ASSUME NEW c \in Classes, NEW tag \in DOMAIN Class[c].kid, NEW given, KidClass(c, tag, given) # ""
  PROVE  KidClass(c, tag, given) \in Classes
<1>1. Class[c].kid[tag] \in Classes
  BY RowsFit DEF Fits, KidsFit
<1>2. {"LocalAttributeDeclaration", "AttributeReference", "ElementReference",
       "AttributeGroupDefinition"} \subseteq Classes
  BY ClassNames
<1>. QED BY <1>1, <1>2 DEF KidClass

\* A component starts to be read.
LEMMA OpenStep ==
  ASSUME GrammarAssumption, Typed, Nested, InnermostNamespace, DocumentedContentsKept,
         NEW tag \in Tags, Comes(tag), NEW given, NEW scope \in Scopes, NEW prefix \in NsPrefixes,
         Open(tag, given, scope, prefix)
  PROVE  Typed' /\ Nested' /\ InnermostNamespace' /\ DocumentedContentsKept'
           /\ (DocumentedContentsRead => DocumentedContentsRead')
<1>. DEFINE class == KidClass(Top.class, tag, given)
            qnames == IF tag = "facet" THEN {} ELSE given \cap QNames
            bare == Frame(tag, class, scope, {})
            st == Append(stack, bare)
            ns == getXMLNS(st, prefix)
            names == IF qnames = {} THEN {} ELSE {<<prefix, ns>>}
            full == Frame(tag, class, scope, names)
            n == Len(stack) + 1
<1>1. ended = Reading /\ tag \in DOMAIN Class[Top.class].kid
  BY DEF Comes, Another, Row
<1>2. /\ Len(stack) \in Nat \ {0} /\ DOMAIN stack = 1..Len(stack)
      /\ Len(stack) \in DOMAIN stack /\ Top \in Frames /\ Top.class \in Classes
  BY <1>1, TopIs
<1>3. Legal(class, given) /\ class # ""
  BY DEF Open, Legal
<1>4. class \in Classes
  BY <1>1, <1>2, <1>3, KidClassIs
<1>5. CASE qnames # {} /\ ns \in {"SchemaError", "TypeError"}
  <2>1. Raise(ns, "names", class, <<>>)
    BY <1>5 DEF Open
  <2>. HIDE DEF ns, class
  <2>2. ns # "reading"
    BY <1>5
  <2>. QED BY <2>1, <2>2, RaiseStep
<1>6. CASE ~(qnames # {} /\ ns \in {"SchemaError", "TypeError"})
  <2>1. stack' = Append(stack, full) /\ ended' = ended
    BY <1>6 DEF Open
  <2>. HIDE DEF class
  <2>2. bare \in Frames
    BY <1>4 DEF Frame, Frames
  <2>3. bare.scope = scope /\ bare.class = class /\ bare.names = {} /\ bare.tag = tag
    BY DEF Frame
  <2>4. /\ full.scope = scope /\ full.class = class /\ full.names = names /\ full.tag = tag
        /\ full.read = <<>> /\ full.kept = {} /\ full.strays = {}
    BY DEF Frame
  <2>. HIDE DEF bare
  <2>5. stack \in Seq(Frames)
    BY DEF Typed
  <2>6. /\ st \in Seq(Frames) /\ Len(st) = n /\ DOMAIN st = 1..n /\ st[n] = bare
        /\ \A i \in 1..Len(stack) : st[i] = stack[i]
    BY <1>2, <2>2, <2>5
  <2>. HIDE DEF st
  <2>7. AdapterLowest(st)
    <3>1. st # <<>> /\ st[1].class = stack[1].class /\ stack # <<>> /\ n >= 2
      BY <1>2, <2>5, <2>6
    <3>2. ASSUME NEW i \in DOMAIN st, st[i].class = Adapter
          PROVE  i = 1 /\ Len(st) >= 2 /\ st[2].class = "XMLSchema"
      <4>1. i # n
        BY <1>4, <2>3, <2>6, <3>2, ClassNames
      <4>2. i \in DOMAIN stack /\ stack[i].class = Adapter
        BY <1>2, <2>6, <3>2, <4>1
      <4>3. i = 1 /\ Len(stack) >= 2 /\ stack[2].class = "XMLSchema"
        BY <4>2 DEF Nested, AdapterLowest
      <4>. QED BY <1>2, <2>6, <4>3
    <3>. QED BY <3>1, <3>2 DEF Nested, AdapterLowest
  <2>8. qnames # {} => IsInnermost(st, prefix, n, ns)
    BY <1>6, <2>6, <2>7, NamespaceFound
  <2>9. qnames # {} => ns \in Ns \cup {NoNs}
    <3>1. \A j \in 1..n : st[j].scope \in Scopes
      <4>1. \A j \in 1..n : st[j] \in Frames
        BY <2>6
      <4>. QED BY <4>1 DEF Frames
    <3>2. \A s \in Scopes : \A p \in DOMAIN s : s[p] \in Ns \cup {NoNs}
      BY GrammarAssumption
    <3>3. \A j \in Declaring(st, prefix, n) : st[j].scope[prefix] \in Ns \cup {NoNs}
      BY <3>1, <3>2 DEF Declaring, Declares
    <3>. QED BY <2>8, <3>3 DEF IsInnermost
  <2>. HIDE DEF ns
  <2>10. names \in SUBSET (NsPrefixes \X (Ns \cup {NoNs}))
    BY <2>9
  <2>. HIDE DEF names
  <2>11. full \in Frames
    BY <1>4, <2>10 DEF Frame, Frames
  <2>. HIDE DEF full
  <2>12. /\ stack' \in Seq(Frames) /\ Len(stack') = n /\ DOMAIN stack' = 1..n /\ stack'[n] = full
         /\ \A i \in 1..Len(stack) : stack'[i] = stack[i]
    BY <1>2, <2>1, <2>5, <2>11
  <2>13. Typed'
    BY <2>12 DEF Typed
  <2>14. \A j \in 1..n : stack'[j].scope = st[j].scope /\ stack'[j].class = st[j].class
    BY <1>2, <2>3, <2>4, <2>6, <2>12
  <2>15. Nested'
    <3>1. AdapterLowest(stack')
      BY <1>2, <2>6, <2>7, <2>12, <2>14 DEF AdapterLowest
    <3>2. KidsOfParents(stack')
      <4>1. ASSUME NEW i \in 2..Len(stack'), stack'[i - 1].class # Adapter
            PROVE  stack'[i].tag \in DOMAIN Class[stack'[i - 1].class].kid
        <5>1. CASE i = n
          BY <1>1, <1>2, <2>4, <2>12, <5>1 DEF Top
        <5>2. CASE i # n
          <6>1. /\ i \in 2..Len(stack) /\ i \in 1..Len(stack) /\ i - 1 \in 1..Len(stack)
            BY <1>2, <2>12, <5>2
          <6>2. stack'[i] = stack[i] /\ stack'[i - 1] = stack[i - 1]
            BY <2>12, <6>1
          <6>. QED BY <4>1, <6>1, <6>2 DEF Nested, KidsOfParents
        <5>. QED BY <5>1, <5>2
      <4>. QED BY <4>1 DEF KidsOfParents
    <3>3. stack' # <<>>
      BY <1>2, <2>12
    <3>. QED BY <3>1, <3>2, <3>3 DEF Nested
  <2>16. ASSUME NEW i \in DOMAIN stack', NEW m \in stack'[i].names
         PROVE  IsInnermost(stack', m[1], i, m[2])
    <3>1. CASE i = n
      <4>1. qnames # {} /\ m = <<prefix, ns>>
        BY <2>4, <2>12, <2>16, <3>1 DEF names
      <4>2. IsInnermost(st, prefix, n, ns) /\ n \in Nat
        BY <1>2, <2>8, <4>1
      <4>3. IsInnermost(stack', prefix, n, ns)
        <5>1. 1 \in 1..n /\ stack'[1].class = st[1].class /\ \A j \in 1..n : stack'[j].scope = st[j].scope
          BY <1>2, <2>14
        <5>. HIDE DEF n
        <5>. QED BY <4>2, <5>1, InnermostSame
      <4>. QED BY <3>1, <4>1, <4>3
    <3>2. CASE i # n
      <4>1. i \in DOMAIN stack /\ i \in Nat /\ m \in stack[i].names
        BY <1>2, <2>12, <2>16, <3>2
      <4>2. IsInnermost(stack, m[1], i, m[2])
        BY <4>1, InnermostIs DEF InnermostIn
      <4>3. \A j \in 1..i : stack'[j].scope = stack[j].scope
        BY <1>2, <2>12, <4>1
      <4>4. stack'[1].class = stack[1].class
        BY <1>2, <2>12
      <4>. QED BY <4>1, <4>2, <4>3, <4>4, InnermostSame
    <3>. QED BY <3>1, <3>2
  <2>17. InnermostNamespace'
    <3>1. InnermostIn(stack')
      BY <2>16 DEF InnermostIn
    <3>. QED BY <2>13, <3>1, InnermostIs
  <2>18. DocumentedContentsKept'
    <3>1. ASSUME NEW i \in DOMAIN stack'
          PROVE  \/ stack'[i] = full
                 \/ i \in DOMAIN stack /\ stack'[i] = stack[i]
      BY <1>2, <2>12
    <3>2. KeptIn(full)
      BY <2>4 DEF KeptIn
    <3>. QED BY <3>1, <3>2, KeptInAll
  <2>. QED BY <2>1, <2>13, <2>15, <2>17, <2>18 DEF DocumentedContentsRead
<1>. QED BY <1>5, <1>6

\* What a component holds when it has read another child.
LEMMA KeptIs ==
  ASSUME GrammarAssumption, NEW frame \in Frames, frame.class \in Classes,
         NEW tag \in DOMAIN Class[frame.class].kid, tag \in Tags
  PROVE  /\ Kept(frame, tag) \in SUBSET Nat
         /\ KeptIn(frame) /\ Documented(frame.class, Append(frame.read, tag)) =>
              \A k \in DOMAIN Append(frame.read, tag) :
                k \in Kept(frame, tag) \/ Append(frame.read, tag)[k] \in Dropped(frame.class)
<1>. DEFINE Of(tags) == {i \in DOMAIN frame.read : frame.read[i] \in tags}
            replaced == UNION {Of(tags) : tags \in {t \in Class[frame.class].single : tag \in t}}
            n == Len(frame.read) + 1
<1>1. /\ frame.read \in Seq(Tags) /\ frame.kept \in SUBSET Nat
      /\ DOMAIN frame.read = 1..Len(frame.read) /\ Len(frame.read) \in Nat
      /\ DOMAIN Append(frame.read, tag) = DOMAIN frame.read \cup {n}
  <2>1. frame.read \in Seq(Tags) /\ frame.kept \in SUBSET Nat
    BY DEF Frames
  <2>. QED BY <2>1, Appended
<1>2. Kept(frame, tag) = CASE tag = "field" -> frame.kept
                           [] tag = "annotation" -> (frame.kept \ replaced) \cup {n} \cup Of({"field"})
                           [] OTHER -> (frame.kept \ replaced) \cup {n}
  BY DEF Kept
<1>3. Of({"field"}) \subseteq DOMAIN frame.read
  OBVIOUS
<1>4. ASSUME KeptIn(frame), Documented(frame.class, Append(frame.read, tag)),
             NEW k \in DOMAIN Append(frame.read, tag)
      PROVE  k \in Kept(frame, tag) \/ Append(frame.read, tag)[k] \in Dropped(frame.class)
  <2>1. tag = "field" => tag \in Dropped(frame.class)
    BY RowsFit DEF Fits, KidsFit, Keys, Dropped
  <2>2. ASSUME NEW tags \in Class[frame.class].single, tag \in tags
        PROVE  Of(tags) = {}
    <3>1. ~Has(frame.read, tags)
      BY <1>1, <1>4, <2>2, NothingReplaced
    <3>. QED BY <3>1 DEF Has
  <2>. HIDE DEF Of
  <2>3. replaced = {}
    BY <2>2
  <2>. HIDE DEF replaced
  <2>4. \A j \in DOMAIN frame.read : j \in frame.kept \/ frame.read[j] \in Dropped(frame.class)
    <3>1. Documented(frame.class, frame.read)
      BY <1>1, <1>4, DocumentedPrefix
    <3>. QED BY <1>4, <3>1 DEF KeptIn
  <2>5. frame.kept \subseteq Kept(frame, tag) /\ (tag # "field" => n \in Kept(frame, tag))
    BY <1>2, <2>3
  <2>6. CASE k \in DOMAIN frame.read
    <3>1. Append(frame.read, tag)[k] = frame.read[k]
      BY <1>1, <2>6, Appended
    <3>. QED BY <2>4, <2>5, <2>6, <3>1
  <2>7. CASE k = n
    <3>1. Append(frame.read, tag)[k] = tag
      BY <1>1, <2>7, Appended
    <3>. HIDE DEF n
    <3>. QED BY <2>1, <2>5, <2>7, <3>1
  <2>. QED BY <1>1, <1>4, <2>6, <2>7
<1>. HIDE DEF replaced, Of
<1>5. Kept(frame, tag) \in SUBSET Nat
  BY <1>1, <1>2, <1>3
<1>. QED BY <1>4, <1>5

\* A fromDom ends and its caller takes the component.
LEMMA CloseStep ==
  ASSUME GrammarAssumption, Typed, Nested, InnermostNamespace, DocumentedContentsKept, Close
  PROVE  Typed' /\ Nested' /\ InnermostNamespace' /\ DocumentedContentsKept'
           /\ (DocumentedContentsRead => DocumentedContentsRead')
<1>. DEFINE m == Len(stack) - 1
            parent == stack[m]
            read == Append(parent.read, Top.tag)
            last == LastAttribute(parent.read)
            frame == [parent EXCEPT !.read = read, !.kept = Kept(parent, Top.tag), !.notes = Notes]
<1>1. ended = Reading /\ Top.class # "XMLSchema"
  BY DEF Close
<1>2. /\ Len(stack) \in Nat \ {0} /\ DOMAIN stack = 1..Len(stack)
      /\ Len(stack) \in DOMAIN stack /\ Top \in Frames /\ Top.class \in Classes
  BY <1>1, TopIs
<1>3. stack \in Seq(Frames)
  BY DEF Typed
<1>4. m \in DOMAIN stack /\ m \in Nat /\ m \in 1..Len(stack) /\ m # 0
  <2>1. stack # <<>>
    BY <1>2
  <2>2. Len(stack) # 1
    BY <1>1, <1>2, <2>1 DEF Nested, AdapterLowest, Top
  <2>. QED BY <1>2, <2>2
<1>5. parent \in Frames /\ parent.class # Adapter
  <2>1. stack[m] \in Frames
    BY <1>3, <1>4
  <2>2. ASSUME stack[m].class = Adapter
        PROVE  FALSE
    <3>1. m = 1 /\ stack[2].class = "XMLSchema"
      BY <1>4, <2>2 DEF Nested, AdapterLowest
    <3>2. Len(stack) \in Nat /\ Len(stack) - 1 = 1
      BY <1>2, <3>1, Zenon
    <3>3. Len(stack) = 2
      BY <3>2
    <3>. QED BY <1>1, <3>1, <3>3 DEF Top
  <2>. QED BY <2>1, <2>2
<1>6. parent.class \in Classes /\ Top.tag \in DOMAIN Class[parent.class].kid
  <2>1. parent.class \in Classes
    BY <1>5 DEF Frames
  <2>2. Len(stack) \in 2..Len(stack)
    BY <1>2, <1>4
  <2>. QED BY <1>5, <2>1, <2>2 DEF Nested, KidsOfParents, Top
<1>7. Top.tag \in Tags
  BY <1>6 DEF Tags, Classes
<1>8. CASE Top.read \in Row.eager
  <2>1. Raise("IndexError", "contents", Top.class, Top.read)
    BY <1>8 DEF Close
  <2>2. Unread(Top.class, Top.read)
    BY <1>2, <1>8, EagerUnread DEF Row
  <2>. QED BY <2>1, <2>2, RaiseStep
<1>9. ASSUME Rereads
      PROVE  Unread(parent.class, read)
  <2>1. Top.tag = "simpleType" /\ parent.class = "SimpleContentRestriction"
    BY <1>9 DEF Rereads
  <2>2. parent.read \in Seq(Tags)
    BY <1>5 DEF Frames
  <2>. HIDE DEF parent
  <2>3. Len(parent.read) + 1 \in DOMAIN read /\ read[Len(parent.read) + 1] = Top.tag
    BY <1>7, <2>2, Appended
  <2>. QED BY <2>1, <2>3 DEF Unread, Has
<1>10. CASE Top.read \notin Row.eager /\ Rereads /\ (last = 0 \/ parent.read[last] # "anyAttribute" \/ Notes > 1)
  <2>1. PICK how \in {"IndexError", "SchemaError"} : Raise(how, "contents", parent.class, read)
    BY <1>10, Zenon DEF Close
  <2>. HIDE DEF parent, read
  <2>. QED BY <1>9, <1>10, <2>1, RaiseStep
<1>11. CASE Top.read \notin Row.eager /\ ~(Rereads /\ (last = 0 \/ parent.read[last] # "anyAttribute" \/ Notes > 1))
  <2>1. stack' = Append(SubSeq(stack, 1, Len(stack) - 2), frame) /\ ended' = ended
    BY <1>11, Zenon DEF Close
  <2>2. Notes \in Nat
    <3>1. Top.read \in Seq(Tags)
      BY <1>2 DEF Frames
    <3>2. Cardinality({i \in DOMAIN Top.read : Top.read[i] = "annotation"}) \in Nat
      <4>1. Len(Top.read) \in Nat /\ DOMAIN Top.read = 1..Len(Top.read)
        BY <3>1
      <4>2. IsFiniteSet(DOMAIN Top.read)
        BY <4>1, FS_Interval
      <4>. QED BY <4>2, FS_Subset, FS_CardinalityType
    <3>3. parent.notes \in Nat
      BY <1>5 DEF Frames
    <3>. QED BY <3>2, <3>3 DEF Notes
  <2>3. read \in Seq(Tags) /\ Kept(parent, Top.tag) \in SUBSET Nat
    <3>1. parent.read \in Seq(Tags)
      BY <1>5 DEF Frames
    <3>. HIDE DEF parent
    <3>2. read \in Seq(Tags)
      BY <1>7, <3>1
    <3>. QED BY <1>5, <1>6, <1>7, <3>2, KeptIs
  <2>. DEFINE kept == Kept(parent, Top.tag)
              notes == Notes
  <2>4. frame = [parent EXCEPT !.read = read, !.kept = kept, !.notes = notes]
    OBVIOUS
  <2>5. notes \in Nat /\ kept \in SUBSET Nat /\ read \in Seq(Tags) /\ parent \in Frames
    BY <1>5, <2>2, <2>3
  <2>6. /\ kept = Kept(parent, Top.tag) /\ read = Append(parent.read, Top.tag)
        /\ parent = stack[m] /\ m = Len(stack) - 1
    OBVIOUS
  <2>. HIDE DEF kept, notes, read, parent, frame
  <2>7. /\ frame \in Frames /\ frame.tag = parent.tag /\ frame.class = parent.class
        /\ frame.scope = parent.scope /\ frame.names = parent.names
        /\ frame.read = read /\ frame.kept = kept /\ frame.strays = parent.strays
    BY <2>4, <2>5 DEF Frames
  <2>. HIDE DEF m
  <2>8. /\ stack' \in Seq(Frames) /\ Len(stack') = m /\ DOMAIN stack' = 1..m /\ stack'[m] = frame
        /\ \A i \in 1..(m - 1) : stack'[i] = stack[i]
    <3>1. Len(stack) - 2 \in Nat /\ Len(stack) - 2 = m - 1
      BY <1>2, <1>4, <2>6
    <3>. DEFINE outer == SubSeq(stack, 1, Len(stack) - 2)
    <3>2. /\ outer \in Seq(Frames) /\ Len(outer) = m - 1
          /\ \A i \in 1..(m - 1) : outer[i] = stack[i]
      BY <1>2, <1>3, <1>4, <3>1
    <3>3. stack' = Append(outer, frame)
      BY <2>1
    <3>. HIDE DEF outer
    <3>. QED BY <1>4, <2>7, <3>1, <3>2, <3>3
  <2>9. Typed'
    BY <2>8 DEF Typed
  <2>10. \A i \in 1..m : /\ stack'[i].tag = stack[i].tag /\ stack'[i].class = stack[i].class
                         /\ stack'[i].scope = stack[i].scope /\ stack'[i].names = stack[i].names
                         /\ i \in DOMAIN stack /\ i \in Nat
    BY <1>2, <1>4, <2>6, <2>7, <2>8
  <2>11. Nested'
    <3>1. stack' # <<>> /\ 1 \in 1..m /\ stack # <<>>
      BY <1>2, <1>4, <2>8
    <3>2. stack'[1].class \in {"XMLSchema", Adapter}
      BY <2>10, <3>1 DEF Nested, AdapterLowest
    <3>3. ASSUME NEW i \in DOMAIN stack', stack'[i].class = Adapter
          PROVE  i = 1 /\ Len(stack') >= 2 /\ stack'[2].class = "XMLSchema"
      <4>1. stack[i].class = Adapter /\ i \in 1..m
        BY <2>8, <2>10, <3>3
      <4>2. i = 1 /\ Len(stack) >= 2 /\ stack[2].class = "XMLSchema"
        BY <2>10, <4>1 DEF Nested, AdapterLowest
      <4>3. i # m
        BY <1>5, <2>6, <4>1
      <4>4. 2 \in 1..m
        BY <1>4, <4>1, <4>2, <4>3
      <4>. QED BY <1>4, <2>8, <2>10, <4>2, <4>4
    <3>4. AdapterLowest(stack')
      BY <3>1, <3>2, <3>3 DEF AdapterLowest
    <3>5. KidsOfParents(stack')
      <4>1. ASSUME NEW i \in 2..Len(stack'), stack'[i - 1].class # Adapter
            PROVE  stack'[i].tag \in DOMAIN Class[stack'[i - 1].class].kid
        <5>1. i \in 1..m /\ i - 1 \in 1..m /\ i \in 2..Len(stack)
          BY <1>2, <1>4, <2>6, <2>8
        <5>2. stack[i - 1].class # Adapter /\ stack'[i - 1].class = stack[i - 1].class
              /\ stack'[i].tag = stack[i].tag
          BY <2>10, <4>1, <5>1
        <5>. QED BY <5>1, <5>2 DEF Nested, KidsOfParents
      <4>. QED BY <4>1 DEF KidsOfParents
    <3>. QED BY <3>1, <3>4, <3>5 DEF Nested
  <2>12. InnermostNamespace'
    <3>1. ASSUME NEW i \in DOMAIN stack', NEW n \in stack'[i].names
          PROVE  IsInnermost(stack', n[1], i, n[2])
      <4>1. i \in 1..m /\ i \in DOMAIN stack /\ i \in Nat /\ n \in stack[i].names
        BY <2>8, <2>10, <3>1
      <4>2. IsInnermost(stack, n[1], i, n[2])
        BY <4>1, InnermostIs DEF InnermostIn
      <4>3. \A j \in 1..i : stack'[j].scope = stack[j].scope
        BY <1>4, <2>10, <4>1
      <4>4. stack'[1].class = stack[1].class
        BY <1>4, <2>10
      <4>. QED BY <4>1, <4>2, <4>3, <4>4, InnermostSame
    <3>2. InnermostIn(stack')
      BY <3>1 DEF InnermostIn
    <3>. QED BY <2>9, <3>2, InnermostIs
  <2>13. DocumentedContentsKept'
    <3>1. KeptIn(frame)
      <4>1. KeptIn(parent)
        BY <1>4, <2>6, KeptInAll
      <4>2. frame.strays \cap Listed(frame.class) \subseteq Dropped(frame.class)
        BY <2>7, <4>1 DEF KeptIn
      <4>3. Documented(frame.class, frame.read) =>
              \A k \in DOMAIN frame.read : k \in frame.kept \/ frame.read[k] \in Dropped(frame.class)
        <5>1. ASSUME NEW f \in Frames, f.class \in Classes, NEW tag \in DOMAIN Class[f.class].kid,
                     tag \in Tags, KeptIn(f), Documented(f.class, Append(f.read, tag))
              PROVE  \A k \in DOMAIN Append(f.read, tag) :
                       k \in Kept(f, tag) \/ Append(f.read, tag)[k] \in Dropped(f.class)
          BY <5>1, KeptIs
        <5>. DEFINE tag == Top.tag
        <5>2. tag \in Tags /\ tag \in DOMAIN Class[parent.class].kid /\ parent.class \in Classes
          BY <1>6, <1>7 DEF parent
        <5>3. kept = Kept(parent, tag) /\ read = Append(parent.read, tag)
          BY <2>6
        <5>. HIDE DEF tag
        <5>. QED BY <2>5, <2>7, <4>1, <5>1, <5>2, <5>3
      <4>. QED BY <4>2, <4>3 DEF KeptIn
    <3>2. ASSUME NEW i \in DOMAIN stack'
          PROVE  \/ stack'[i] = frame
                 \/ i \in DOMAIN stack /\ stack'[i] = stack[i]
      <4>1. i \in 1..m /\ (i # m => i \in 1..(m - 1))
        BY <1>4, <2>8
      <4>2. CASE i = m
        BY <2>8, <4>2
      <4>3. CASE i # m
        BY <2>8, <2>10, <4>1, <4>3
      <4>. QED BY <4>2, <4>3
    <3>. QED BY <3>1, <3>2, KeptInAll
  <2>. QED BY <2>1, <2>9, <2>11, <2>12, <2>13 DEF DocumentedContentsRead
<1>. QED BY <1>8, <1>10, <1>11

\* The innermost fromDom passes a child that no component is made of.
LEMMA PassStep ==
  ASSUME Typed, Nested, InnermostNamespace, DocumentedContentsKept, ended = Reading,
         NEW frame \in Frames, frame.tag = Top.tag, frame.class = Top.class, frame.scope = Top.scope,
         frame.names = Top.names, KeptIn(frame),
         stack' = [stack EXCEPT ![Len(stack)] = frame], ended' = ended
  PROVE  Typed' /\ Nested' /\ InnermostNamespace' /\ DocumentedContentsKept'
           /\ (DocumentedContentsRead => DocumentedContentsRead')
<1>. DEFINE n == Len(stack)
<1>1. n \in Nat \ {0} /\ DOMAIN stack = 1..n /\ n \in DOMAIN stack /\ Top = stack[n]
  BY TopIs DEF Top
<1>2. stack \in Seq(Frames)
  BY DEF Typed
<1>3. /\ stack' \in Seq(Frames) /\ Len(stack') = n /\ DOMAIN stack' = 1..n /\ stack'[n] = frame
      /\ \A i \in 1..n : i # n => stack'[i] = stack[i]
  <2>. DEFINE st == [stack EXCEPT ![n] = frame]
  <2>1. /\ st \in Seq(Frames) /\ Len(st) = n /\ st[n] = frame
        /\ \A i \in 1..n : i # n => st[i] = stack[i]
    BY <1>1, <1>2, ExceptSeq
  <2>2. stack' = st
    OBVIOUS
  <2>. HIDE DEF st, n
  <2>3. DOMAIN st = 1..n
    BY <2>1
  <2>. QED BY <2>1, <2>2, <2>3, Zenon
<1>9. Len(stack) = n
  OBVIOUS
<1>. HIDE DEF n
<1>4. \A i \in 1..n : /\ stack'[i].tag = stack[i].tag /\ stack'[i].class = stack[i].class
                      /\ stack'[i].scope = stack[i].scope /\ stack'[i].names = stack[i].names
  BY <1>1, <1>3
<1>5. Typed'
  BY <1>3 DEF Typed
<1>6. Nested'
  <2>1. stack' # <<>> /\ 1 \in 1..n /\ stack # <<>> /\ Len(stack) = n
    BY <1>1, <1>3, <1>9
  <2>2. AdapterLowest(stack')
    <3>1. stack'[1].class \in {"XMLSchema", Adapter}
      BY <1>4, <2>1 DEF Nested, AdapterLowest
    <3>2. ASSUME NEW i \in DOMAIN stack', stack'[i].class = Adapter
          PROVE  i = 1 /\ Len(stack') >= 2 /\ stack'[2].class = "XMLSchema"
      <4>1. i = 1 /\ n >= 2 /\ stack[2].class = "XMLSchema"
        BY <1>1, <1>3, <1>4, <2>1, <3>2 DEF Nested, AdapterLowest
      <4>2. 2 \in 1..n
        BY <1>1, <4>1
      <4>. QED BY <1>3, <1>4, <4>1, <4>2
    <3>. QED BY <3>1, <3>2 DEF AdapterLowest
  <2>3. ASSUME NEW i \in 2..Len(stack'), stack'[i - 1].class # Adapter
        PROVE  stack'[i].tag \in DOMAIN Class[stack'[i - 1].class].kid
    <3>1. i \in 1..n /\ i - 1 \in 1..n /\ i \in 2..Len(stack)
      BY <1>1, <1>3, <2>1
    <3>. QED BY <1>4, <2>3, <3>1 DEF Nested, KidsOfParents
  <2>. QED BY <2>1, <2>2, <2>3 DEF Nested, KidsOfParents
<1>7. InnermostNamespace'
  <2>1. ASSUME NEW i \in DOMAIN stack', NEW m \in stack'[i].names
        PROVE  IsInnermost(stack', m[1], i, m[2])
    <3>1. i \in DOMAIN stack /\ i \in Nat /\ i \in 1..n /\ m \in stack[i].names
      BY <1>1, <1>3, <1>4, <2>1
    <3>2. IsInnermost(stack, m[1], i, m[2])
      BY <3>1, InnermostIs DEF InnermostIn
    <3>3. stack'[1].class = stack[1].class /\ \A j \in 1..i : stack'[j].scope = stack[j].scope
      BY <1>1, <1>4, <3>1
    <3>. QED BY <3>1, <3>2, <3>3, InnermostSame
  <2>. QED BY <1>5, <2>1, InnermostIs DEF InnermostIn
<1>8. DocumentedContentsKept'
  BY <1>1, <1>3, KeptInAll
<1>. QED BY <1>5, <1>6, <1>7, <1>8 DEF DocumentedContentsRead

LEMMA FilteredStep ==
  ASSUME GrammarAssumption, Typed, Nested, InnermostNamespace, DocumentedContentsKept,
         NEW tag \in Tags, Filtered(tag)
  PROVE  Typed' /\ Nested' /\ InnermostNamespace' /\ DocumentedContentsKept'
           /\ (DocumentedContentsRead => DocumentedContentsRead')
<1>. DEFINE frame == [Top EXCEPT !.strays = @ \cup {tag}]
<1>1. ended = Reading /\ ended' = ended /\ tag \notin DOMAIN Class[Top.class].kid \cup Class[Top.class].ignored
  BY DEF Filtered, Another, Row
<1>2. Top \in Frames /\ Top.class \in Classes /\ KeptIn(Top)
  BY <1>1, TopIs, KeptInAll DEF Top
<1>3. stack' = [stack EXCEPT ![Len(stack)] = frame]
  BY DEF Filtered, Top
<1>4. /\ frame \in Frames /\ frame.tag = Top.tag /\ frame.class = Top.class /\ frame.scope = Top.scope
      /\ frame.names = Top.names /\ frame.read = Top.read /\ frame.kept = Top.kept
      /\ frame.strays = Top.strays \cup {tag}
  BY <1>2 DEF Frames
<1>. HIDE DEF frame
<1>5. tag \in Listed(Top.class) => tag \in Dropped(Top.class)
  BY <1>1, <1>2, AllListed DEF ListedFit
<1>6. KeptIn(frame)
  BY <1>2, <1>4, <1>5 DEF KeptIn
<1>. QED BY <1>1, <1>3, <1>4, <1>6, PassStep

LEMMA IgnoredStep ==
  ASSUME GrammarAssumption, Typed, Nested, InnermostNamespace, DocumentedContentsKept,
         NEW tag \in Tags, Ignored(tag)
  PROVE  Typed' /\ Nested' /\ InnermostNamespace' /\ DocumentedContentsKept'
           /\ (DocumentedContentsRead => DocumentedContentsRead')
<1>. DEFINE read == Append(Top.read, tag)
            frame == [Top EXCEPT !.read = read]
<1>1. /\ ended = Reading /\ ended' = ended
      /\ tag \in Class[Top.class].ignored \/ Has(Top.read, Class[Top.class].stop)
  BY DEF Ignored, Another, Row
<1>2. Top \in Frames /\ Top.class \in Classes /\ KeptIn(Top)
  BY <1>1, TopIs, KeptInAll DEF Top
<1>3. stack' = [stack EXCEPT ![Len(stack)] = frame]
  BY DEF Ignored, Top
<1>4. Top.read \in Seq(Tags)
  BY <1>2 DEF Frames
<1>5. /\ read \in Seq(Tags) /\ DOMAIN read = DOMAIN Top.read \cup {Len(Top.read) + 1}
      /\ read[Len(Top.read) + 1] = tag /\ \A k \in DOMAIN Top.read : read[k] = Top.read[k]
  BY <1>4, Appended
<1>6. ASSUME Documented(Top.class, read), NEW k \in DOMAIN read
      PROVE  k \in Top.kept \/ read[k] \in Dropped(Top.class)
  <2>1. Documented(Top.class, Top.read) /\ ~Has(Top.read, Class[Top.class].stop)
    BY <1>2, <1>4, <1>6, DocumentedPrefix, StopEnds
  <2>2. tag \in Dropped(Top.class)
    BY <1>1, <1>2, <2>1, RowsEnd DEF EndsFit
  <2>. QED BY <1>2, <1>5, <1>6, <2>1, <2>2 DEF KeptIn
<1>. HIDE DEF read
<1>7. /\ frame \in Frames /\ frame.tag = Top.tag /\ frame.class = Top.class /\ frame.scope = Top.scope
      /\ frame.names = Top.names /\ frame.read = read /\ frame.kept = Top.kept
      /\ frame.strays = Top.strays
  BY <1>2, <1>5 DEF Frames
<1>. HIDE DEF frame
<1>8. KeptIn(frame)
  BY <1>2, <1>6, <1>7 DEF KeptIn
<1>. QED BY <1>1, <1>3, <1>7, <1>8, PassStep

------------------------------------------------------------------------------
\* The theorems.

Inv ==
  /\ Typed /\ Nested /\ DocumentedContentsRead /\ DocumentedContentsKept /\ InnermostNamespace

LEMMA InitInv == GrammarAssumption /\ Init => Inv
<1>1. SUFFICES ASSUME GrammarAssumption, Init
               PROVE  Inv
  OBVIOUS
<1>2. PICK c \in Contexts :
        LET schema == Frame("schema", "XMLSchema", c[Len(c)], {}) IN
        stack = IF Len(c) = 1 THEN <<schema>>
                ELSE <<Frame("definitions", "WSDLToolsAdapter", c[1], {}), schema>>
  BY <1>1 DEF Init
<1>3. c \in Seq(Scopes) /\ Len(c) \in 1..2
  BY <1>1 DEF GrammarAssumption
<1>4. c[Len(c)] \in Scopes /\ c[1] \in Scopes
  BY <1>3
<1>. DEFINE schema == Frame("schema", "XMLSchema", c[Len(c)], {})
            adapter == Frame("definitions", "WSDLToolsAdapter", c[1], {})
<1>5. stack = <<schema>> \/ stack = <<adapter, schema>>
  BY <1>2
<1>6. schema \in Frames /\ adapter \in Frames
  BY <1>4, ClassNames DEF Frame, Frames, Adapter
<1>7. /\ schema.class = "XMLSchema" /\ adapter.class = Adapter /\ Adapter # "XMLSchema"
      /\ schema.names = {} /\ adapter.names = {} /\ schema.kept = {} /\ adapter.kept = {}
      /\ schema.strays = {} /\ adapter.strays = {} /\ schema.read = <<>> /\ adapter.read = <<>>
  BY DEF Frame, Adapter
<1>. HIDE DEF schema, adapter
<1>8. Typed
  <2>1. CASE stack = <<schema>>
    BY <1>6, <2>1 DEF Typed
  <2>2. CASE stack = <<adapter, schema>>
    BY <1>6, <2>2 DEF Typed
  <2>. QED BY <1>5, <2>1, <2>2
<1>9. stack # <<>> /\ AdapterLowest(stack) /\ KidsOfParents(stack)
  <2>1. CASE stack = <<schema>>
    BY <1>7, <2>1 DEF AdapterLowest, KidsOfParents
  <2>2. CASE stack = <<adapter, schema>>
    BY <1>7, <2>2 DEF AdapterLowest, KidsOfParents
  <2>. QED BY <1>5, <2>1, <2>2
<1>10. \A i \in DOMAIN stack :
         stack[i].names = {} /\ stack[i].strays = {} /\ DOMAIN stack[i].read = {}
  BY <1>5, <1>7
<1>11. InnermostNamespace /\ DocumentedContentsKept
  BY <1>10 DEF InnermostNamespace, DocumentedContentsKept
<1>12. DocumentedContentsRead
  BY <1>1 DEF Init, Reading, DocumentedContentsRead
<1>. QED BY <1>8, <1>9, <1>11, <1>12 DEF Inv, Nested

LEMMA NextInv == GrammarAssumption /\ Inv /\ [Next]_vars => Inv'
<1>1. SUFFICES ASSUME GrammarAssumption, Inv, [Next]_vars
               PROVE  Inv'
  OBVIOUS
<1>. USE <1>1 DEF Inv
<1>2. ASSUME NEW tag \in Tags, Comes(tag), Misplaced(tag)
      PROVE  Inv'
  <2>. DEFINE read == Append(Top.read, tag)
              class == Top.class
  <2>1. ended = Reading /\ (class = "XMLSchema" => Top.read = <<>>)
    BY <1>2 DEF Comes, Another
  <2>2. class \in Classes /\ Top.read \in Seq(Tags)
    BY <2>1, TopIs DEF Frames
  <2>3. ~Placed(class, Top.read, tag) /\ Raise("SchemaError", "contents", class, read)
    BY <1>2 DEF Misplaced
  <2>4. ~Documented(class, read) \/ Unread(class, read)
    BY <1>2, <2>1, <2>2, <2>3, DocumentedPlaced DEF Comes, Row
  <2>. HIDE DEF read, class
  <2>. QED BY <2>3, <2>4, RaiseStep
<1>3. ASSUME NEW tag \in Tags, NEW given, BadAttributes(tag, given)
      PROVE  Inv'
  <2>. DEFINE read == Append(Top.read, tag)
              class == Top.class
  <2>1. Raise("SchemaError", "attributes", class, read)
    BY <1>3 DEF BadAttributes
  <2>. HIDE DEF read, class
  <2>. QED BY <2>1, RaiseStep
<1>4. ASSUME NEW tag \in Tags, Comes(tag), NEW given, NEW scope \in Scopes, NEW prefix \in NsPrefixes,
             Open(tag, given, scope, prefix)
      PROVE  Inv'
  BY <1>4, OpenStep
<1>5. CASE Close
  BY <1>5, CloseStep
<1>6. CASE Read
  <2>. DEFINE read == Top.read
  <2>1. Raise("read", "", "XMLSchema", read)
    BY <1>6 DEF Read
  <2>. DEFINE how == "read"
              cause == ""
  <2>2. how # "reading" /\ cause # "contents" /\ Raise(how, cause, "XMLSchema", read)
    BY <2>1
  <2>. HIDE DEF read, how, cause
  <2>. QED BY <2>2, RaiseStep
<1>7. CASE UNCHANGED vars
  <2>1. stack' = stack /\ ended' = ended
    BY <1>7 DEF vars
  <2>. QED BY <2>1 DEF Typed, Nested, DocumentedContentsRead, DocumentedContentsKept, InnermostNamespace
<1>8. ASSUME NEW tag \in Tags, Filtered(tag) \/ Ignored(tag)
      PROVE  Inv'
  BY <1>8, FilteredStep, IgnoredStep
<1>. QED BY <1>2, <1>3, <1>4, <1>5, <1>6, <1>7, <1>8 DEF Next, Child

LEMMA Invariance == Spec => []Inv
<1>1. GrammarAssumption
  BY GrammarAssumption
<1>. QED BY <1>1, InitInv, NextInv, PTL DEF Spec

\* A QName has the namespace of the innermost declaration of its prefix
\* around it; one without a prefix and a declaration has none, and only in
\* the types of a WSDL (getXMLNS and setAttributes).
THEOREM QNamesResolveInnermost == Spec => []InnermostNamespace
<1>1. Inv => InnermostNamespace
  BY DEF Inv
<1>. QED BY <1>1, Invariance, PTL

\* No fromDom refuses contents that its docstring allows, but for those of
\* Unread.
THEOREM DocumentedIsRead == Spec => []DocumentedContentsRead
<1>1. Inv => DocumentedContentsRead
  BY DEF Inv
<1>. QED BY <1>1, Invariance, PTL

\* No child that the docstring of a component lists is filtered out, and a
\* component that has read what its docstring allows holds all of it, but for
\* the children in Dropped.
THEOREM DocumentedIsKept == Spec => []DocumentedContentsKept
<1>1. Inv => DocumentedContentsKept
  BY DEF Inv
<1>. QED BY <1>1, Invariance, PTL
=====
