------------------------- MODULE SchemaLoadingProofs -------------------------
(***************************************************************************)
(* Theorems about SchemaLoading, for any documents, namespaces and calls:  *)
(* an import never reads a namespace within itself, all imports of a       *)
(* namespace lead to one schema, a schema that was read to the end answers *)
(* as its document and its includes say, and the schemas of a WSDL find    *)
(* each other.                                                             *)
(*                                                                         *)
(* Every action is shown to be a step of two kinds: Steady says what       *)
(* becomes of the stack, the registered namespaces and the references;     *)
(* Informed what the schemas learn of the documents.  The invariants are   *)
(* kept by any such step.                                                  *)
(***************************************************************************)
EXTENDS SchemaLoading, SequenceTheorems, TLAPS

------------------------------------------------------------------------------
\* Types.

Hows == {"root", "types", "import", "include"}
Frame ==
  [how : Hows, schema : Nat, at : Locs, next : Nat \ {0}, ns : Ns \cup {NoNs},
   last : BOOLEAN, provided : SUBSET Locs]

\* A schema object; nothing has to be known of what its elements are.
IsSchema(x) ==
  /\ x = [tns |-> x.tns, at |-> x.at, wsdl |-> x.wsdl, whole |-> x.whole,
          elements |-> x.elements, imports |-> x.imports, listable |-> x.listable,
          included |-> x.included]
  /\ x.wsdl \in Nat /\ x.whole \in BOOLEAN
  /\ x.imports \in [Ns -> Int] /\ x.included \in [Locs -> Nat]

\* It refers to n schemas and w WSDLs.
Refers(x, n, w) ==
  /\ x.wsdl <= w
  /\ \A m \in Ns : x.imports[m] <= n
  /\ \A l \in Locs : x.included[l] <= n

\* A list of them; a list of lists is not in any Seq(S) that can be named.
AreSchemas(s) ==
  /\ Len(s) \in Nat
  /\ s = [i \in 1..Len(s) |-> s[i]]
  /\ \A i \in 1..Len(s) : IsSchema(s[i])

\* The stack: one reading of a program or a WSDL, and those within it.
IsStack(st, n) ==
  /\ st \in Seq(Frame)
  /\ \A k \in 1..Len(st) :
       /\ st[k].schema \in 1..n
       /\ st[k].how = "import" => st[k].ns \in Ns
       /\ st[k].how \in {"root", "types"} <=> k = 1
       /\ \A j \in 1..(k - 1) : st[j].schema < st[k].schema

Readable == \A k \in 1..Len(stack) : stack[k].at \in DOMAIN repo.docs

TypeInv ==
  /\ repo \in Repositories
  /\ AreSchemas(schemas)
  /\ \A i \in 1..Len(schemas) : Refers(schemas[i], Len(schemas), Len(wsdls))
  /\ cache \in [Ns -> Nat] /\ \A n \in Ns : cache[n] <= Len(schemas)
  /\ IsStack(stack, Len(schemas)) /\ Readable
  /\ raised \in {Nothing, "SchemaError", "other"} /\ (raised # Nothing => stack # <<>>)
  /\ inline \in Seq(DOMAIN repo.docs) /\ (inline # <<>> => wsdls # <<>>)
  /\ wsdls \in Seq([Ns -> Nat])
  /\ \A w \in 1..Len(wsdls), n \in Ns : wsdls[w][n] <= Len(schemas)
  /\ loaded \subseteq 1..Len(schemas)

------------------------------------------------------------------------------
\* Lists of schemas.

LEMMA SchemasSeq ==
  ASSUME NEW s, AreSchemas(s)
  PROVE  \A r : s \in Seq({s[i] : i \in 1..Len(s)} \cup {r})
BY DEF AreSchemas

\* One more.
LEMMA AppendSchema ==
  ASSUME NEW s, AreSchemas(s), NEW r, IsSchema(r)
  PROVE  /\ AreSchemas(Append(s, r)) /\ Len(Append(s, r)) = Len(s) + 1
         /\ Append(s, r)[Len(s) + 1] = r
         /\ \A i \in 1..Len(s) : Append(s, r)[i] = s[i]
<1> DEFINE t == Append(s, r)
           n == Len(s)
<1>1. s \in Seq({s[i] : i \in 1..Len(s)} \cup {r}) /\ n \in Nat
  BY SchemasSeq DEF AreSchemas
<1>2. /\ t \in Seq({s[i] : i \in 1..Len(s)} \cup {r})
      /\ Len(t) = n + 1 /\ t[n + 1] = r /\ \A i \in 1..n : t[i] = s[i]
  BY <1>1, AppendProperties
<1> HIDE DEF t
<1>3. t = [i \in 1..Len(t) |-> t[i]]
  BY <1>2
<1>4. \A i \in 1..(n + 1) : i \in 1..n \/ i = n + 1
  BY <1>1
<1>5. \A i \in 1..n : IsSchema(s[i])
  BY DEF AreSchemas
<1>6. \A i \in 1..Len(t) : IsSchema(t[i])
  BY <1>2, <1>4, <1>5
<1>7. AreSchemas(t)
  BY <1>1, <1>2, <1>3, <1>6 DEF AreSchemas
<1> QED BY <1>2, <1>7 DEF t

\* Another one in the place of one.
Put(s, me, r) == [s EXCEPT ![me] = r]

LEMMA PutSchema ==
  ASSUME NEW s, AreSchemas(s), NEW me \in 1..Len(s), NEW r, IsSchema(r),
         NEW t, t = Put(s, me, r)
  PROVE  /\ AreSchemas(t) /\ Len(t) = Len(s) /\ t[me] = r
         /\ \A i \in 1..Len(s) : i # me => t[i] = s[i]
<1> DEFINE n == Len(s)
<1>1. n \in Nat /\ s = [i \in 1..n |-> s[i]] /\ \A i \in 1..n : IsSchema(s[i])
  BY DEF AreSchemas
<1>2. t = [i \in 1..n |-> IF i = me THEN r ELSE s[i]]
  BY <1>1 DEF Put
<1>3. s \in Seq({s[i] : i \in 1..n} \cup {r})
  BY SchemasSeq
<1>4. t \in Seq({s[i] : i \in 1..n} \cup {r}) /\ Len(t) = n
  BY <1>3, ExceptSeq DEF Put
<1>5. t[me] = r /\ \A i \in 1..n : i # me => t[i] = s[i]
  BY <1>2
<1>6. t = [i \in 1..n |-> t[i]]
  BY <1>2
<1>7. \A i \in 1..n : IsSchema(t[i])
  BY <1>1, <1>5
<1>8. AreSchemas(t)
  BY <1>1, <1>4, <1>6, <1>7 DEF AreSchemas
<1> QED BY <1>4, <1>5, <1>8

\* A schema changes, but not what it was made with.
Updates(s, t, me) ==
  /\ AreSchemas(t) /\ Len(t) = Len(s)
  /\ \A i \in 1..Len(s) : i # me => t[i] = s[i]
  /\ t[me].tns = s[me].tns /\ t[me].at = s[me].at /\ t[me].wsdl = s[me].wsdl

LEMMA RecordUpdate ==
  ASSUME NEW s, AreSchemas(s), NEW me \in 1..Len(s), NEW r, IsSchema(r),
         r.tns = s[me].tns, r.at = s[me].at, r.wsdl = s[me].wsdl,
         NEW t, t = Put(s, me, r)
  PROVE  Updates(s, t, me) /\ t[me] = r
<1>1. /\ AreSchemas(t) /\ Len(t) = Len(s) /\ t[me] = r
      /\ \A i \in 1..Len(s) : i # me => t[i] = s[i]
  BY PutSchema
<1> QED BY <1>1 DEF Updates

\* The fields of a schema that has another value in one of them.
LEMMA Fields ==
  ASSUME NEW x, IsSchema(x), NEW v
  PROVE  /\ [x EXCEPT !.elements = v] =
              [tns |-> x.tns, at |-> x.at, wsdl |-> x.wsdl, whole |-> x.whole, elements |-> v,
            imports |-> x.imports, listable |-> x.listable, included |-> x.included]
         /\ [x EXCEPT !.whole = v] =
              [tns |-> x.tns, at |-> x.at, wsdl |-> x.wsdl, whole |-> v, elements |-> x.elements,
            imports |-> x.imports, listable |-> x.listable, included |-> x.included]
         /\ [x EXCEPT !.imports = v] =
              [tns |-> x.tns, at |-> x.at, wsdl |-> x.wsdl, whole |-> x.whole, elements |-> x.elements,
            imports |-> v, listable |-> x.listable, included |-> x.included]
         /\ [x EXCEPT !.included = v] =
              [tns |-> x.tns, at |-> x.at, wsdl |-> x.wsdl, whole |-> x.whole, elements |-> x.elements,
            imports |-> x.imports, listable |-> x.listable, included |-> v]
BY DEF IsSchema

PostponedRecord(x, v, b) == [[x EXCEPT !.imports = v] EXCEPT !.listable = b]

LEMMA PostponedFields ==
  ASSUME NEW x, IsSchema(x), NEW v, NEW b
  PROVE  PostponedRecord(x, v, b) =
           [tns |-> x.tns, at |-> x.at, wsdl |-> x.wsdl, whole |-> x.whole, elements |-> x.elements,
            imports |-> v, listable |-> b, included |-> x.included]
<1>1. ASSUME NEW y, y = [x EXCEPT !.imports = v]
      PROVE  [y EXCEPT !.listable = b] =
               [tns |-> x.tns, at |-> x.at, wsdl |-> x.wsdl, whole |-> x.whole, elements |-> x.elements,
            imports |-> v, listable |-> b, included |-> x.included]
  <2>1. y = [tns |-> x.tns, at |-> x.at, wsdl |-> x.wsdl, whole |-> x.whole, elements |-> x.elements,
            imports |-> v, listable |-> x.listable, included |-> x.included]
    BY <1>1, Fields
  <2> QED BY <2>1
<1> QED BY <1>1, Zenon DEF PostponedRecord

MergedRecord(x, u, v, e) ==
  [[[x EXCEPT !.included = u] EXCEPT !.imports = v] EXCEPT !.elements = e]

LEMMA MergedFields ==
  ASSUME NEW x, IsSchema(x), NEW u, NEW v, NEW e
  PROVE  MergedRecord(x, u, v, e) =
           [tns |-> x.tns, at |-> x.at, wsdl |-> x.wsdl, whole |-> x.whole, elements |-> e,
            imports |-> v, listable |-> x.listable, included |-> u]
<1>1. ASSUME NEW y, y = [x EXCEPT !.included = u], NEW z, z = [y EXCEPT !.imports = v]
      PROVE  [z EXCEPT !.elements = e] =
               [tns |-> x.tns, at |-> x.at, wsdl |-> x.wsdl, whole |-> x.whole, elements |-> e,
            imports |-> v, listable |-> x.listable, included |-> u]
  <2>1. y = [tns |-> x.tns, at |-> x.at, wsdl |-> x.wsdl, whole |-> x.whole, elements |-> x.elements,
            imports |-> x.imports, listable |-> x.listable, included |-> u]
    BY <1>1, Fields
  <2>2. z = [tns |-> x.tns, at |-> x.at, wsdl |-> x.wsdl, whole |-> x.whole, elements |-> x.elements,
            imports |-> v, listable |-> x.listable, included |-> u]
    BY <1>1, <2>1
  <2> QED BY <2>2
<1> QED BY <1>1, Zenon DEF MergedRecord

\* An element is added.
AddElement(s, me, name) == [s EXCEPT ![me].elements = @ \cup {name}]

LEMMA ElementAdded ==
  ASSUME NEW s, AreSchemas(s), NEW me \in 1..Len(s), NEW name,
         NEW t, t = AddElement(s, me, name)
  PROVE  /\ Updates(s, t, me)
         /\ t[me].imports = s[me].imports /\ t[me].whole = s[me].whole
         /\ t[me].included = s[me].included /\ t[me].elements = s[me].elements \cup {name}
<1> DEFINE x == s[me]
           r == [tns |-> x.tns, at |-> x.at, wsdl |-> x.wsdl, whole |-> x.whole,
                 elements |-> x.elements \cup {name}, imports |-> x.imports,
                 listable |-> x.listable, included |-> x.included]
<1>1. IsSchema(x)
  BY DEF AreSchemas
<1>2. IsSchema(r) /\ r.tns = x.tns /\ r.at = x.at /\ r.wsdl = x.wsdl
  BY <1>1 DEF IsSchema, Lazy
<1>3. [x EXCEPT !.elements = x.elements \cup {name}] = r
  BY <1>1, Fields
<1>4. t = Put(s, me, r)
  BY <1>3 DEF Put, AddElement
<1>5. Updates(s, t, me) /\ t[me] = r
  <2> HIDE DEF r
  <2> QED BY <1>2, <1>4, RecordUpdate
<1> QED BY <1>5

\* A document was read to its end, or is read once more.
SetWhole(s, me, b) == [s EXCEPT ![me].whole = b]

LEMMA WholeSet ==
  ASSUME NEW s, AreSchemas(s), NEW me \in 1..Len(s), NEW b \in BOOLEAN,
         NEW t, t = SetWhole(s, me, b)
  PROVE  /\ Updates(s, t, me)
         /\ t[me].imports = s[me].imports /\ t[me].whole = b
         /\ t[me].included = s[me].included /\ t[me].elements = s[me].elements
<1> DEFINE x == s[me]
           r == [tns |-> x.tns, at |-> x.at, wsdl |-> x.wsdl, whole |-> b,
                 elements |-> x.elements, imports |-> x.imports,
                 listable |-> x.listable, included |-> x.included]
<1>1. IsSchema(x)
  BY DEF AreSchemas
<1>2. IsSchema(r) /\ r.tns = x.tns /\ r.at = x.at /\ r.wsdl = x.wsdl
  BY <1>1 DEF IsSchema, Lazy
<1>3. [x EXCEPT !.whole = b] = r
  BY <1>1, Fields
<1>4. t = Put(s, me, r)
  BY <1>3 DEF Put, SetWhole
<1>5. Updates(s, t, me) /\ t[me] = r
  <2> HIDE DEF r
  <2> QED BY <1>2, <1>4, RecordUpdate
<1> QED BY <1>5

\* An import has its schema.
SetImport(s, me, ns, c) == [s EXCEPT ![me].imports[ns] = c]

LEMMA ImportSet ==
  ASSUME NEW s, AreSchemas(s), NEW me \in 1..Len(s), NEW ns \in Ns, NEW c \in Int,
         NEW t, t = SetImport(s, me, ns, c)
  PROVE  /\ Updates(s, t, me)
         /\ t[me].imports = [s[me].imports EXCEPT ![ns] = c] /\ t[me].whole = s[me].whole
         /\ t[me].included = s[me].included /\ t[me].elements = s[me].elements
<1> DEFINE x == s[me]
           r == [tns |-> x.tns, at |-> x.at, wsdl |-> x.wsdl, whole |-> x.whole,
                 elements |-> x.elements, imports |-> [x.imports EXCEPT ![ns] = c],
                 listable |-> x.listable, included |-> x.included]
<1>1. IsSchema(x)
  BY DEF AreSchemas
<1>2. IsSchema(r) /\ r.tns = x.tns /\ r.at = x.at /\ r.wsdl = x.wsdl
  BY <1>1 DEF IsSchema, Lazy
<1>3. [x EXCEPT !.imports = [x.imports EXCEPT ![ns] = c]] = r
  BY <1>1, Fields
<1>4. t = Put(s, me, r)
  BY <1>3 DEF Put, SetImport
<1>5. Updates(s, t, me) /\ t[me] = r
  <2> HIDE DEF r
  <2> QED BY <1>2, <1>4, RecordUpdate
<1> QED BY <1>5

\* An import is postponed.
LEMMA ImportPostponed ==
  ASSUME NEW s, AreSchemas(s), NEW me \in 1..Len(s), NEW ns \in Ns,
         NEW t, t = Postponed(s, me, ns)
  PROVE  /\ Updates(s, t, me)
         /\ t[me].imports = [s[me].imports EXCEPT ![ns] = Lazy] /\ t[me].whole = s[me].whole
         /\ t[me].included = s[me].included /\ t[me].elements = s[me].elements
<1> DEFINE x == s[me]
           v == [x.imports EXCEPT ![ns] = Lazy]
           r == [tns |-> x.tns, at |-> x.at, wsdl |-> x.wsdl, whole |-> x.whole,
                 elements |-> x.elements, imports |-> v, listable |-> FALSE,
                 included |-> x.included]
<1>1. IsSchema(x)
  BY DEF AreSchemas
<1>2. IsSchema(r) /\ r.tns = x.tns /\ r.at = x.at /\ r.wsdl = x.wsdl
  BY <1>1 DEF IsSchema, Lazy
<1>3. t = Put(s, me, PostponedRecord(x, v, FALSE))
  BY DEF Put, Postponed, PostponedRecord
<1>4. PostponedRecord(x, v, FALSE) = r
  <2> DEFINE b == FALSE
  <2> HIDE DEF v, x, b
  <2>1. PostponedRecord(x, v, b) =
          [tns |-> x.tns, at |-> x.at, wsdl |-> x.wsdl, whole |-> x.whole, elements |-> x.elements,
           imports |-> v, listable |-> b, included |-> x.included]
    BY <1>1, PostponedFields
  <2> QED BY <2>1 DEF b
<1>5. Updates(s, t, me) /\ t[me] = r
  <2>1. t = Put(s, me, r)
    BY <1>3, <1>4, Zenon
  <2> HIDE DEF r
  <2> QED BY <1>2, <2>1, RecordUpdate
<1> QED BY <1>5

\* A schema is included, and what it knows is taken over.
Merged(s, me, at, c) ==
  [s EXCEPT
     ![me].included[at] = c,
     ![me].imports = [n \in Ns |-> IF @[n] = None THEN s[c].imports[n] ELSE @[n]],
     ![me].elements = @ \cup Newcomers(@, s[c].elements)]

\* The imports of a schema and, where there are none, of the one it includes.
Both(s, me, c) ==
  [n \in Ns |-> IF s[me].imports[n] = None THEN s[c].imports[n] ELSE s[me].imports[n]]

LEMMA SchemaMerged ==
  ASSUME NEW s, AreSchemas(s), NEW me \in 1..Len(s), NEW at \in Locs, NEW c \in 1..Len(s),
         NEW t, t = Merged(s, me, at, c)
  PROVE  /\ Updates(s, t, me)
         /\ t[me].imports = Both(s, me, c) /\ t[me].whole = s[me].whole
         /\ t[me].included = [s[me].included EXCEPT ![at] = c]
         /\ t[me].elements = s[me].elements \cup s[c].elements
<1> DEFINE x == s[me]
           u == [x.included EXCEPT ![at] = c]
           v == Both(s, me, c)
           e == x.elements \cup Newcomers(x.elements, s[c].elements)
           r == [tns |-> x.tns, at |-> x.at, wsdl |-> x.wsdl, whole |-> x.whole,
                 elements |-> e, imports |-> v, listable |-> x.listable, included |-> u]
<1>1. IsSchema(x)
  BY DEF AreSchemas
<1>0. IsSchema(s[c]) /\ c \in Nat
  BY DEF AreSchemas
<1>2. IsSchema(r) /\ r.tns = x.tns /\ r.at = x.at /\ r.wsdl = x.wsdl
  <2>1. u \in [Locs -> Nat]
    BY <1>0, <1>1 DEF IsSchema
  <2>2. v \in [Ns -> Int]
    BY <1>0, <1>1 DEF IsSchema, Both
  <2> HIDE DEF u, v, e
  <2> QED BY <1>1, <2>1, <2>2 DEF IsSchema
<1>3. t = Put(s, me, MergedRecord(x, u, v, e))
  BY DEF Put, Merged, AreSchemas, IsSchema, Both, MergedRecord
<1>4. MergedRecord(x, u, v, e) = r
  <2> HIDE DEF u, v, e, x
  <2> QED BY <1>1, MergedFields
<1>5. Updates(s, t, me) /\ t[me] = r
  <2>1. t = Put(s, me, r)
    BY <1>3, <1>4, Zenon
  <2> HIDE DEF r
  <2> QED BY <1>2, <2>1, RecordUpdate
<1>6. t[me].imports = v /\ t[me].whole = x.whole /\ t[me].included = u /\ t[me].elements = e
  <2> HIDE DEF u, v, e
  <2> QED BY <1>5
<1>7. e = s[me].elements \cup s[c].elements
  BY DEF Newcomers
<1> QED BY <1>5, <1>6, <1>7, Zenon

------------------------------------------------------------------------------
\* What a step can do.

SameFrame(f, g) == g.how = f.how /\ g.schema = f.schema /\ g.at = f.at /\ g.ns = f.ns

SameFrames(s, t) ==
  t \in Seq(Frame) /\ Len(t) = Len(s) /\ \A k \in 1..Len(s) : SameFrame(s[k], t[k])

\* The loads that run go on, the innermost ends, or one begins.
Stays == SameFrames(stack, stack')
Pops == stack # <<>> /\ SameFrames(Below, stack')
Pushes ==
  /\ stack' \in Seq(Frame) /\ Len(stack') = Len(stack) + 1
  /\ \A k \in 1..Len(stack) : SameFrame(stack[k], stack'[k])
  /\ LET f == stack'[Len(stack) + 1] IN
       /\ f.schema = Len(schemas) + 1 /\ Len(schemas') = Len(schemas) + 1
       /\ f.at \in DOMAIN repo.docs
       /\ f.how \in {"root", "types"} <=> stack = <<>>
       /\ f.how = "import" => f.ns \in Ns /\ cache'[f.ns] = f.schema
       /\ f.how # "import" => cache' = cache
       /\ f.how = "types" => schemas'[f.schema].wsdl = Len(wsdls) /\ wsdls # <<>>

\* Where the schema of an import can come from.
Sources(n) ==
  {Lazy, cache[n]} \cup {schemas[c].imports[n] : c \in 1..Len(schemas)}
    \cup {wsdls[w][n] : w \in {v \in 1..Len(wsdls) : stack = <<>>}}

\* Schemas change, and new ones are empty; only the innermost load comes to
\* the end of its document.
Develops(i) ==
  /\ schemas'[i].tns = schemas[i].tns /\ schemas'[i].at = schemas[i].at
  /\ schemas'[i].wsdl = schemas[i].wsdl
  /\ \A l \in Locs : schemas'[i].included[l] <= Len(schemas)
  /\ \A n \in Ns : schemas'[i].imports[n] \in Sources(n)
  /\ schemas'[i].whole =>
       \/ schemas[i].whole
       \/ stack # <<>> /\ i = Me /\ (Pops \/ (Stays /\ raised' = "other"))

SchemaStep ==
  /\ AreSchemas(schemas') /\ Len(schemas) <= Len(schemas')
  /\ \A i \in 1..Len(schemas) : Develops(i)
  /\ \A i \in (Len(schemas) + 1)..Len(schemas') :
       /\ schemas'[i].wsdl <= Len(wsdls) /\ ~schemas'[i].whole
       /\ \A l \in Locs : schemas'[i].included[l] = None
       /\ \A n \in Ns : schemas'[i].imports[n] = None

\* A namespace is registered for a new schema.
Registers(ns) ==
  /\ cache[ns] = None
  /\ cache' = [cache EXCEPT ![ns] = Len(schemas) + 1]
  /\ Len(schemas') = Len(schemas) + 1

\* A namespace is forgotten with the load that reads it.
Withdraws ==
  /\ Pops /\ Top.how = "import" /\ raised = "SchemaError"
  /\ cache' = [cache EXCEPT ![Top.ns] = None]
  /\ schemas'[Me].whole = schemas[Me].whole

CacheStep ==
  \/ cache' = cache
  \/ \E ns \in Ns : Registers(ns)
  \/ Withdraws

StackStep ==
  /\ \/ Stays /\ (raised = Nothing \/ (stack # <<>> /\ ~schemas'[Me].whole /\ raised' # "other"))
     \/ Pops
     \/ Pushes /\ raised = Nothing
  /\ raised' \in {Nothing, "SchemaError", "other"} /\ (raised' # Nothing => stack' # <<>>)

\* What the callers of load do.
CallerStep ==
  /\ repo' = repo
  /\ inline' \in Seq(DOMAIN repo.docs) /\ (inline' # <<>> => wsdls' # <<>>)
  /\ wsdls' \in Seq([Ns -> Nat]) /\ Len(wsdls) <= Len(wsdls')
  /\ stack # <<>> => Len(wsdls') = Len(wsdls)
  /\ \A w \in 1..Len(wsdls'), n \in Ns :
       \/ wsdls'[w][n] = None
       \/ w \in 1..Len(wsdls) /\ wsdls'[w][n] = wsdls[w][n]
       \/ stack # <<>> /\ wsdls'[w][n] = Me /\ Top.how = "types" /\ w = Len(wsdls) /\ Pops
  /\ loaded' \subseteq 1..Len(schemas')

\* Every step of a load; no invariant speaks of the counters.
Steady == SchemaStep /\ CacheStep /\ StackStep /\ CallerStep

------------------------------------------------------------------------------
\* The stack.

\* The innermost load and those below it.
LEMMA TopType ==
  ASSUME TypeInv, stack # <<>>
  PROVE  /\ Len(stack) \in Nat \ {0} /\ Len(stack) \in 1..Len(stack)
         /\ Top \in Frame /\ Me \in 1..Len(schemas)
         /\ Top.at \in DOMAIN repo.docs
         /\ Below \in Seq(Frame) /\ Len(Below) = Len(stack) - 1
         /\ \A k \in 1..Len(Below) : Below[k] = stack[k]
<1>1. stack \in Seq(Frame) /\ Len(stack) \in Nat \ {0} /\ Len(stack) \in 1..Len(stack)
  <2>1. stack \in Seq(Frame)
    BY DEF TypeInv, IsStack
  <2> QED BY <2>1, EmptySeq, LenProperties
<1>2. Top \in Frame /\ Me \in 1..Len(schemas) /\ Top.at \in DOMAIN repo.docs
  BY <1>1, ElementOfSeq DEF Top, Me, TypeInv, IsStack, Readable
<1>3. \A i \in 1..(Len(stack) - 1) : stack[i] \in Frame
  BY <1>1, ElementOfSeq
<1>4. /\ Below \in Seq(Frame) /\ Len(Below) = Len(stack) - 1
      /\ \A k \in 1..(Len(stack) - 1) : Below[k] = stack[k]
  <2> DEFINE n == Len(stack) - 1
  <2>1. 1 \in Int /\ n \in Int /\ n >= 0 /\ 1..n = 1..(n - 1 + 1)
    BY <1>1
  <2>2. /\ SubSeq(stack, 1, n) \in Seq(Frame)
        /\ Len(SubSeq(stack, 1, n)) = IF 1 <= n THEN n - 1 + 1 ELSE 0
        /\ \A i \in 1..(n - 1 + 1) : SubSeq(stack, 1, n)[i] = stack[1 + i - 1]
    BY <1>1, <1>3, <2>1, SubSeqProperties
  <2>3. Below = SubSeq(stack, 1, n)
    BY DEF Below
  <2> HIDE DEF n
  <2>4. Len(Below) = n
    BY <2>1, <2>2, <2>3
  <2>5. ASSUME NEW k \in 1..n
        PROVE  Below[k] = stack[k]
    <3>1. 1 + k - 1 = k
      OBVIOUS
    <3> QED BY <2>1, <2>2, <2>3, <3>1
  <2> QED BY <2>2, <2>3, <2>4, <2>5 DEF n
<1> QED BY <1>1, <1>2, <1>4

\* The statement at which it is.
LEMMA StmtType ==
  ASSUME TypeInv, NEW do, Reads(do)
  PROVE  /\ stack # <<>> /\ raised = Nothing /\ Stmt.do = do
         /\ do = "import" => Stmt.ns \in Ns \cup {NoNs} /\ Stmt.at \in Locs \cup {NoLoc}
         /\ do = "include" => Stmt.at \in Locs
<1>1. stack # <<>> /\ raised = Nothing /\ Stmt.do = do /\ Top.next <= Len(Stmts)
  BY DEF Reads, Reading
<1>2. Top \in Frame /\ Top.at \in DOMAIN repo.docs
  BY <1>1, TopType
<1>3. repo.docs[Top.at] \in Document
  BY <1>2, LoadingAssumption DEF TypeInv, AnyRepository
<1>4. Stmts \in Seq(Statement)
  BY <1>3 DEF Document, Stmts
<1>5. Len(Stmts) \in Nat /\ Top.next \in Nat \ {0}
  BY <1>2, <1>4, LenProperties DEF Frame
<1>6. Top.next \in 1..Len(Stmts)
  BY <1>1, <1>5
<1>7. Stmt \in Statement
  BY <1>4, <1>6, ElementOfSeq DEF Stmt
<1> QED BY <1>1, <1>7 DEF Statement

LEMMA SameStack ==
  ASSUME NEW s \in Seq(Frame)
  PROVE  SameFrames(s, s)
BY DEF SameFrames, SameFrame

\* The innermost load goes on with its next statement.
LEMMA AdvancedFrames ==
  ASSUME NEW s \in Seq(Frame), s # <<>>
  PROVE  SameFrames(s, Advanced(s)) /\ Advanced(s) # <<>>
<1> DEFINE n == Len(s)
           f == [s[n] EXCEPT !.next = @ + 1]
<1>1. n \in 1..n /\ s[n] \in Frame /\ n # 0
  BY EmptySeq, LenProperties, ElementOfSeq
<1>2. f \in Frame /\ SameFrame(s[n], f)
  <2> DEFINE g == s[n]
  <2>1. g \in Frame /\ g.next + 1 \in Nat \ {0}
    BY <1>1 DEF Frame
  <2>2. f = [g EXCEPT !.next = g.next + 1]
    OBVIOUS
  <2> HIDE DEF g
  <2>3. [g EXCEPT !.next = g.next + 1] \in Frame /\ SameFrame(g, [g EXCEPT !.next = g.next + 1])
    BY <2>1 DEF Frame, SameFrame
  <2> QED BY <2>2, <2>3, Zenon DEF g
<1>3. Advanced(s) = [s EXCEPT ![n] = f]
  BY DEF Advanced
<1> HIDE DEF f
<1>4. /\ Advanced(s) \in Seq(Frame) /\ Len(Advanced(s)) = n
      /\ \A j \in 1..n : Advanced(s)[j] = IF j = n THEN f ELSE s[j]
  BY <1>1, <1>2, <1>3, ExceptSeq
<1>5. \A j \in 1..n : SameFrame(s[j], Advanced(s)[j])
  BY <1>2, <1>4 DEF SameFrame
<1> QED BY <1>1, <1>4, <1>5 DEF SameFrames

\* A load that runs after a step ran before it, or begins with it.
LEMMA FrameKept ==
  ASSUME TypeInv, Steady, NEW k \in 1..Len(stack')
  PROVE  /\ \/ k \in 1..Len(stack) /\ SameFrame(stack[k], stack'[k])
            \/ k = Len(stack) + 1 /\ Pushes
         /\ Pops => k # Len(stack)
<1>1. Len(stack) \in Nat
  BY LenProperties DEF TypeInv, IsStack
<1>2. CASE Stays
  <2>1. Len(stack') = Len(stack) /\ SameFrame(stack[k], stack'[k])
    BY <1>2 DEF Stays, SameFrames
  <2>2. ~Pops
    <3>1. ASSUME Pops PROVE FALSE
      <4>1. Len(Below) = Len(stack) - 1
        BY <3>1, TopType DEF Pops
      <4>2. Len(stack') = Len(Below)
        BY <3>1 DEF Pops, SameFrames
      <4> QED BY <1>1, <2>1, <4>1, <4>2
    <3> QED BY <3>1
  <2> QED BY <2>1, <2>2
<1>3. CASE Pops
  <2>1. stack # <<>> /\ SameFrames(Below, stack')
    BY <1>3 DEF Pops
  <2>2. Len(Below) = Len(stack) - 1 /\ \A j \in 1..Len(Below) : Below[j] = stack[j]
    BY <2>1, TopType
  <2>3. Len(stack') = Len(Below) /\ SameFrame(Below[k], stack'[k])
    BY <2>1 DEF SameFrames
  <2>4. k \in 1..Len(stack) /\ k # Len(stack) /\ Below[k] = stack[k]
    BY <1>1, <2>2, <2>3
  <2> QED BY <2>3, <2>4
<1>4. CASE Pushes
  <2>1. Len(stack') = Len(stack) + 1 /\ \A j \in 1..Len(stack) : SameFrame(stack[j], stack'[j])
    BY <1>4 DEF Pushes
  <2>2. ~Pops
    <3>1. ASSUME Pops PROVE FALSE
      <4>1. Len(Below) = Len(stack) - 1
        BY <3>1, TopType DEF Pops
      <4>2. Len(stack') = Len(Below)
        BY <3>1 DEF Pops, SameFrames
      <4> QED BY <1>1, <2>1, <4>1, <4>2
    <3> QED BY <3>1
  <2>3. k \in 1..Len(stack) \/ k = Len(stack) + 1
    BY <1>1, <2>1
  <2> QED BY <1>4, <2>1, <2>2, <2>3
<1> QED BY <1>2, <1>3, <1>4 DEF Steady, StackStep

LEMMA SourceBound ==
  ASSUME TypeInv, NEW n \in Ns, NEW z \in Sources(n)
  PROVE  z \in Int /\ z <= Len(schemas)
<1>1. cache[n] \in Nat /\ cache[n] <= Len(schemas) /\ Len(schemas) \in Nat
  BY DEF TypeInv, AreSchemas
<1>2. \A c \in 1..Len(schemas) :
        schemas[c].imports[n] \in Int /\ schemas[c].imports[n] <= Len(schemas)
  BY DEF TypeInv, AreSchemas, IsSchema, Refers
<1>3. \A w \in 1..Len(wsdls) : wsdls[w][n] \in Nat /\ wsdls[w][n] <= Len(schemas)
  <2>1. wsdls \in Seq([Ns -> Nat])
    BY DEF TypeInv
  <2>2. \A w \in 1..Len(wsdls) : wsdls[w] \in [Ns -> Nat]
    BY <2>1, ElementOfSeq
  <2> QED BY <2>2 DEF TypeInv
<1> QED BY <1>1, <1>2, <1>3 DEF Sources, Lazy

\* Nothing is referred to that is not there.
LEMMA RefersStep ==
  ASSUME TypeInv, Steady, NEW i \in 1..Len(schemas')
  PROVE  Refers(schemas'[i], Len(schemas'), Len(wsdls'))
<1>1. /\ Len(schemas) \in Nat /\ Len(schemas') \in Nat /\ Len(schemas) <= Len(schemas')
      /\ Len(wsdls) \in Nat /\ Len(wsdls') \in Nat /\ Len(wsdls) <= Len(wsdls')
  BY LenProperties DEF TypeInv, Steady, CallerStep, SchemaStep, AreSchemas
<1>2. IsSchema(schemas'[i])
  BY DEF Steady, SchemaStep, AreSchemas
<1>3. CASE i \in 1..Len(schemas)
  <2>1. /\ schemas'[i].wsdl = schemas[i].wsdl
        /\ \A l \in Locs : schemas'[i].included[l] <= Len(schemas)
        /\ \A n \in Ns : schemas'[i].imports[n] \in Sources(n)
    BY <1>3 DEF Steady, SchemaStep, Develops
  <2>2. IsSchema(schemas[i]) /\ schemas[i].wsdl <= Len(wsdls)
    BY <1>3 DEF TypeInv, AreSchemas, Refers
  <2>3. schemas'[i].wsdl <= Len(wsdls')
    BY <1>1, <2>1, <2>2 DEF IsSchema
  <2>4. \A l \in Locs : schemas'[i].included[l] <= Len(schemas')
    BY <1>1, <1>2, <2>1 DEF IsSchema
  <2>5. ASSUME NEW n \in Ns
        PROVE  schemas'[i].imports[n] <= Len(schemas')
    <3>1. \A z \in Sources(n) : z \in Int /\ z <= Len(schemas)
      BY SourceBound
    <3> QED BY <1>1, <2>1, <3>1
  <2> QED BY <2>3, <2>4, <2>5 DEF Refers
<1>4. CASE i \in (Len(schemas) + 1)..Len(schemas')
  <2>1. /\ schemas'[i].wsdl <= Len(wsdls)
        /\ \A l \in Locs : schemas'[i].included[l] = 0
        /\ \A n \in Ns : schemas'[i].imports[n] = 0
    BY <1>4 DEF Steady, SchemaStep, None
  <2> QED BY <1>1, <1>2, <2>1 DEF Refers, IsSchema
<1> QED BY <1>1, <1>3, <1>4

LEMMA CacheTyped ==
  ASSUME TypeInv, Steady
  PROVE  cache' \in [Ns -> Nat] /\ \A n \in Ns : cache'[n] <= Len(schemas')
<1>1. /\ Len(schemas) \in Nat /\ Len(schemas') \in Nat /\ Len(schemas) <= Len(schemas')
      /\ cache \in [Ns -> Nat] /\ \A n \in Ns : cache[n] <= Len(schemas)
  BY DEF TypeInv, Steady, SchemaStep, AreSchemas
<1>2. CASE cache' = cache
  BY <1>1, <1>2
<1>3. ASSUME NEW ns \in Ns, Registers(ns)
      PROVE  cache' \in [Ns -> Nat] /\ \A n \in Ns : cache'[n] <= Len(schemas')
  BY <1>1, <1>3 DEF Registers
<1>4. CASE Withdraws
  <2> DEFINE m == Top.ns
  <2>1. cache' = [cache EXCEPT ![m] = 0]
    BY <1>4 DEF Withdraws, None
  <2> HIDE DEF m
  <2>2. cache' = [n \in Ns |-> IF n = m THEN 0 ELSE cache[n]]
    BY <1>1, <2>1
  <2> QED BY <1>1, <2>2
<1> QED BY <1>2, <1>3, <1>4 DEF Steady, CacheStep

LEMMA StackTyped ==
  ASSUME TypeInv, Steady
  PROVE  IsStack(stack', Len(schemas')) /\ Readable'
<1>1. /\ Len(schemas) \in Nat /\ Len(schemas') \in Nat /\ Len(schemas) <= Len(schemas')
      /\ stack \in Seq(Frame) /\ Len(stack) \in Nat
  BY LenProperties DEF TypeInv, Steady, SchemaStep, AreSchemas, IsStack
<1>2. stack' \in Seq(Frame) /\ Len(stack') \in Nat
  <2>1. stack' \in Seq(Frame)
    BY DEF Steady, StackStep, Stays, Pops, Pushes, SameFrames
  <2> QED BY <2>1, LenProperties
<1>3. ASSUME NEW k \in 1..Len(stack')
      PROVE  /\ stack'[k].schema \in 1..Len(schemas')
             /\ stack'[k].how = "import" => stack'[k].ns \in Ns
             /\ stack'[k].how \in {"root", "types"} <=> k = 1
             /\ stack'[k].at \in DOMAIN repo'.docs
             /\ \A j \in 1..(k - 1) : stack'[j].schema < stack'[k].schema
  <2>1. CASE k \in 1..Len(stack) /\ SameFrame(stack[k], stack'[k])
    <3>1. /\ stack[k].schema \in 1..Len(schemas)
          /\ stack[k].how = "import" => stack[k].ns \in Ns
          /\ stack[k].how \in {"root", "types"} <=> k = 1
          /\ stack[k].at \in DOMAIN repo.docs
          /\ \A j \in 1..(k - 1) : stack[j].schema < stack[k].schema
      BY <2>1 DEF TypeInv, IsStack, Readable
    <3>2. ASSUME NEW j \in 1..(k - 1)
          PROVE  stack'[j].schema = stack[j].schema
      <4>1. j \in 1..Len(stack') /\ j # Len(stack) + 1
        BY <1>1, <1>2, <2>1
      <4> QED BY <4>1, FrameKept DEF SameFrame
    <3>3. repo' = repo
      BY DEF Steady, CallerStep
    <3> QED BY <1>1, <2>1, <3>1, <3>2, <3>3 DEF SameFrame
  <2>2. CASE k = Len(stack) + 1 /\ Pushes
    <3>1. /\ stack'[k].schema = Len(schemas) + 1 /\ Len(schemas') = Len(schemas) + 1
          /\ stack'[k].at \in DOMAIN repo.docs
          /\ stack'[k].how \in {"root", "types"} <=> stack = <<>>
          /\ stack'[k].how = "import" => stack'[k].ns \in Ns
      BY <2>2 DEF Pushes
    <3>2. stack = <<>> <=> k = 1
      BY <1>1, <2>2, EmptySeq
    <3>3. ASSUME NEW j \in 1..(k - 1)
          PROVE  stack'[j].schema < stack'[k].schema
      <4>1. j \in 1..Len(stack)
        BY <1>1, <2>2
      <4>2. stack'[j].schema = stack[j].schema
        BY <2>2, <4>1 DEF Pushes, SameFrame
      <4>3. stack[j].schema \in 1..Len(schemas)
        BY <4>1 DEF TypeInv, IsStack
      <4> QED BY <1>1, <3>1, <4>2, <4>3
    <3>4. repo' = repo
      BY DEF Steady, CallerStep
    <3> QED BY <1>1, <3>1, <3>2, <3>3, <3>4
  <2> QED BY <2>1, <2>2, FrameKept
<1>4. IsStack(stack', Len(schemas'))
  BY <1>2, <1>3 DEF IsStack
<1>5. Readable'
  BY <1>3 DEF Readable
<1> QED BY <1>4, <1>5

LEMMA TypeStep ==
  ASSUME TypeInv, Steady
  PROVE  TypeInv'
<1>1. repo' \in Repositories /\ AreSchemas(schemas') /\ repo' = repo
  BY DEF TypeInv, Steady, CallerStep, SchemaStep
<1>2. \A i \in 1..Len(schemas') : Refers(schemas'[i], Len(schemas'), Len(wsdls'))
  BY RefersStep
<1>3. /\ cache' \in [Ns -> Nat] /\ \A n \in Ns : cache'[n] <= Len(schemas')
      /\ IsStack(stack', Len(schemas')) /\ Readable'
  BY CacheTyped, StackTyped
<1>4. /\ raised' \in {Nothing, "SchemaError", "other"} /\ (raised' # Nothing => stack' # <<>>)
      /\ inline' \in Seq(DOMAIN repo'.docs) /\ (inline' # <<>> => wsdls' # <<>>)
      /\ wsdls' \in Seq([Ns -> Nat]) /\ loaded' \subseteq 1..Len(schemas')
  BY <1>1 DEF Steady, StackStep, CallerStep
<1>5. ASSUME NEW w \in 1..Len(wsdls'), NEW n \in Ns
      PROVE  wsdls'[w][n] <= Len(schemas')
  <2>1. Len(schemas) \in Nat /\ Len(schemas') \in Nat /\ Len(schemas) <= Len(schemas')
    BY DEF TypeInv, Steady, SchemaStep, AreSchemas
  <2>2. CASE wsdls'[w][n] = None
    BY <2>1, <2>2 DEF None
  <2>3. CASE w \in 1..Len(wsdls) /\ wsdls'[w][n] = wsdls[w][n]
    <3>1. wsdls \in Seq([Ns -> Nat]) /\ wsdls[w][n] <= Len(schemas)
      BY <2>3 DEF TypeInv
    <3>2. wsdls[w] \in [Ns -> Nat]
      BY <2>3, <3>1, ElementOfSeq
    <3> QED BY <2>1, <2>3, <3>1, <3>2
  <2>4. CASE stack # <<>> /\ wsdls'[w][n] = Me
    <3>1. Me \in 1..Len(schemas)
      BY <2>4, TopType
    <3> QED BY <2>1, <2>4, <3>1
  <2> QED BY <2>2, <2>3, <2>4 DEF Steady, CallerStep
<1> QED BY <1>1, <1>2, <1>3, <1>4, <1>5 DEF TypeInv

------------------------------------------------------------------------------
\* Namespaces and the schemas they lead to.

\* Just the namespaces whose import is being read lead to a schema that is.
Registered ==
  \A k \in 1..Len(stack) :
    IF stack[k].how = "import" THEN cache[stack[k].ns] = stack[k].schema
    ELSE \A n \in Ns : cache[n] # stack[k].schema

Distinct == \A m, n \in Ns : cache[m] = cache[n] /\ cache[m] # None => m = n

\* A schema that is being read is not whole, unless setting its imports failed.
Unfinished ==
  \A k \in 1..Len(stack) :
    schemas[stack[k].schema].whole => k = Len(stack) /\ raised = "other"

\* Only imports of its own namespace know a schema that is being read.
Own ==
  \A k \in 1..Len(stack), i \in 1..Len(schemas), n \in Ns :
    schemas[i].imports[n] = stack[k].schema => stack[k].how = "import" /\ n = stack[k].ns

\* The schemas of a WSDL know that they are.
InTypes ==
  /\ \A k \in 1..Len(stack) : stack[k].how = "types" => schemas[stack[k].schema].wsdl # 0
  /\ \A w \in 1..Len(wsdls), n \in Ns : wsdls[w][n] # None => schemas[wsdls[w][n]].wsdl # 0

AgreeInv == Registered /\ Distinct /\ Unfinished /\ Own /\ InTypes /\ ImportsAgree

\* An import cannot come by a schema that is being read for another namespace.
LEMMA SourceOwn ==
  ASSUME TypeInv, AgreeInv, NEW n \in Ns, NEW k \in 1..Len(stack), stack[k].schema \in Sources(n)
  PROVE  stack[k].how = "import" /\ n = stack[k].ns
<1> DEFINE z == stack[k].schema
<1>1. z \in 1..Len(schemas) /\ (stack[k].how = "import" => stack[k].ns \in Ns)
  BY DEF TypeInv, IsStack
<1>2. z # Lazy /\ z # None
  BY <1>1 DEF Lazy, None
<1>3. CASE z = cache[n]
  <2>1. stack[k].how = "import" /\ cache[stack[k].ns] = z
    BY <1>3 DEF AgreeInv, Registered
  <2> QED BY <1>1, <1>2, <1>3, <2>1 DEF AgreeInv, Distinct
<1>4. ASSUME NEW c \in 1..Len(schemas), z = schemas[c].imports[n]
      PROVE  stack[k].how = "import" /\ n = stack[k].ns
  BY <1>4 DEF AgreeInv, Own
<1>5. stack # <<>>
  BY LenProperties, EmptySeq DEF TypeInv, IsStack
<1> QED BY <1>2, <1>3, <1>4, <1>5 DEF Sources

LEMMA InitialFacts ==
  Init => TypeInv /\ AgreeInv
<1> SUFFICES ASSUME Init PROVE TypeInv /\ AgreeInv
  OBVIOUS
<1>1. Len(schemas) = 0 /\ Len(stack) = 0 /\ Len(wsdls) = 0 /\ Len(inline) = 0
  BY DEF Init
<1>2. 1..0 = {}
  OBVIOUS
<1>3. AreSchemas(schemas)
  <2>1. schemas = [i \in 1..0 |-> schemas[i]]
    BY <1>2 DEF Init
  <2> QED BY <1>1, <1>2, <2>1 DEF AreSchemas
<1>4. cache \in [Ns -> Nat] /\ \A n \in Ns : cache[n] = 0
  BY DEF Init, None
<1>5. IsStack(stack, Len(schemas)) /\ Readable
  BY <1>1, <1>2 DEF Init, IsStack, Readable
<1>6. wsdls \in Seq([Ns -> Nat]) /\ inline \in Seq(DOMAIN repo.docs) /\ loaded \subseteq 1..Len(schemas)
  BY DEF Init
<1>7. TypeInv
  BY <1>1, <1>2, <1>3, <1>4, <1>5, <1>6 DEF Init, TypeInv, Nothing
<1>8. Registered /\ Distinct /\ Unfinished /\ Own /\ InTypes
  BY <1>1, <1>2, <1>4 DEF Registered, Distinct, Unfinished, Own, InTypes, None
<1>9. DOMAIN schemas = {}
  BY DEF Init
<1> QED BY <1>7, <1>8, <1>9 DEF AgreeInv, ImportsAgree

\* A namespace keeps its schema, gets a new one, or loses the one that was being read.
LEMMA CacheCases ==
  ASSUME TypeInv, AgreeInv, Steady, NEW n \in Ns
  PROVE  \/ cache'[n] = cache[n]
         \/ /\ cache[n] = None /\ cache'[n] = Len(schemas) + 1
            /\ Len(schemas') = Len(schemas) + 1
         \/ Withdraws /\ n = Top.ns /\ cache[n] = Me /\ cache'[n] = None
<1>1. cache \in [Ns -> Nat]
  BY DEF TypeInv
<1>2. ASSUME NEW ns \in Ns, Registers(ns), n # ns
      PROVE  cache'[n] = cache[n]
  BY <1>1, <1>2 DEF Registers
<1>3. ASSUME Registers(n)
      PROVE  cache[n] = None /\ cache'[n] = Len(schemas) + 1 /\ Len(schemas') = Len(schemas) + 1
  BY <1>1, <1>3 DEF Registers
<1>4. ASSUME Withdraws, n # Top.ns
      PROVE  cache'[n] = cache[n]
  <2> DEFINE m == Top.ns
  <2>1. cache' = [cache EXCEPT ![m] = None] /\ n # m
    BY <1>4 DEF Withdraws
  <2> HIDE DEF m
  <2> QED BY <1>1, <2>1
<1>5. ASSUME Withdraws, n = Top.ns
      PROVE  cache[n] = Me /\ cache'[n] = None
  <2>1. stack # <<>> /\ Top.how = "import" /\ cache' = [cache EXCEPT ![n] = None]
    BY <1>5 DEF Withdraws, Pops
  <2>2. Len(stack) \in 1..Len(stack)
    BY <2>1, TopType
  <2>3. cache[Top.ns] = Top.schema
    BY <2>1, <2>2 DEF AgreeInv, Registered, Top
  <2> QED BY <1>1, <1>5, <2>1, <2>3 DEF Me
<1> QED BY <1>2, <1>3, <1>4, <1>5 DEF Steady, CacheStep

LEMMA RegisteredStep ==
  ASSUME TypeInv, AgreeInv, Steady
  PROVE  Registered' /\ Distinct'
<1>1. Len(schemas) \in Nat /\ cache \in [Ns -> Nat] /\ \A n \in Ns : cache[n] <= Len(schemas)
  BY DEF TypeInv, AreSchemas
<1>2. ASSUME NEW k \in 1..Len(stack')
      PROVE  IF stack'[k].how = "import" THEN cache'[stack'[k].ns] = stack'[k].schema
             ELSE \A n \in Ns : cache'[n] # stack'[k].schema
  <2>1. CASE k \in 1..Len(stack) /\ SameFrame(stack[k], stack'[k])
    <3>1. /\ stack[k].schema \in 1..Len(schemas)
          /\ stack[k].how = "import" => stack[k].ns \in Ns
      BY <2>1 DEF TypeInv, IsStack
    <3>2. IF stack[k].how = "import" THEN cache[stack[k].ns] = stack[k].schema
          ELSE \A n \in Ns : cache[n] # stack[k].schema
      BY <2>1 DEF AgreeInv, Registered
    <3>3. stack[k].schema # None /\ stack[k].schema # Len(schemas) + 1
      BY <1>1, <3>1 DEF None
    <3>4. ASSUME Withdraws PROVE stack[k].schema # Me
      <4>1. Pops /\ stack # <<>>
        BY <3>4 DEF Withdraws, Pops
      <4>2. k # Len(stack) /\ Len(stack) \in 1..Len(stack)
        BY <4>1, FrameKept, TopType
      <4>3. k \in 1..(Len(stack) - 1)
        BY <2>1, <4>2
      <4>4. stack[k].schema < stack[Len(stack)].schema /\ stack[Len(stack)].schema \in 1..Len(schemas)
        BY <4>2, <4>3 DEF TypeInv, IsStack
      <4> QED BY <3>1, <4>4 DEF Me, Top
    <3>5. CASE stack[k].how = "import"
      <4>1. cache'[stack[k].ns] = stack[k].schema
        BY <3>1, <3>2, <3>3, <3>4, <3>5, CacheCases
      <4> QED BY <2>1, <3>5, <4>1 DEF SameFrame
    <3>6. CASE stack[k].how # "import"
      <4>1. \A n \in Ns : cache'[n] # stack[k].schema
        BY <3>2, <3>3, <3>6, CacheCases
      <4> QED BY <2>1, <3>6, <4>1 DEF SameFrame
    <3> QED BY <3>5, <3>6
  <2>2. CASE k = Len(stack) + 1 /\ Pushes
    <3>1. /\ stack'[k].schema = Len(schemas) + 1
          /\ stack'[k].how = "import" => cache'[stack'[k].ns] = stack'[k].schema
          /\ stack'[k].how # "import" => cache' = cache
      BY <2>2 DEF Pushes
    <3> QED BY <1>1, <3>1
  <2> QED BY <2>1, <2>2, FrameKept
<1>3. Registered'
  BY <1>2 DEF Registered
<1>4. Distinct'
  <2> SUFFICES ASSUME NEW m \in Ns, NEW n \in Ns, cache'[m] = cache'[n], cache'[m] # None
               PROVE  m = n
    BY DEF Distinct
  <2>1. CASE cache' = cache
    BY <2>1 DEF AgreeInv, Distinct
  <2>2. ASSUME NEW ns \in Ns, Registers(ns)
        PROVE  m = n
    <3>1. cache' = [cache EXCEPT ![ns] = Len(schemas) + 1]
      BY <2>2 DEF Registers
    <3>2. m # ns => cache'[m] = cache[m] /\ cache[m] # Len(schemas) + 1
      BY <1>1, <3>1
    <3>3. n # ns => cache'[n] = cache[n] /\ cache[n] # Len(schemas) + 1
      BY <1>1, <3>1
    <3>4. cache'[ns] = Len(schemas) + 1
      BY <1>1, <3>1
    <3> QED BY <3>2, <3>3, <3>4 DEF AgreeInv, Distinct
  <2>3. CASE Withdraws
    <3>1. m # Top.ns => cache'[m] = cache[m]
      <4> DEFINE t == Top.ns
      <4>1. cache' = [cache EXCEPT ![t] = None]
        BY <2>3 DEF Withdraws
      <4> HIDE DEF t
      <4>2. m # t => cache'[m] = cache[m]
        BY <1>1, <4>1
      <4> QED BY <4>2 DEF t
    <3>2. n # Top.ns => cache'[n] = cache[n]
      <4> DEFINE t == Top.ns
      <4>1. cache' = [cache EXCEPT ![t] = None]
        BY <2>3 DEF Withdraws
      <4> HIDE DEF t
      <4>2. n # t => cache'[n] = cache[n]
        BY <1>1, <4>1
      <4> QED BY <4>2 DEF t
    <3>3. m # Top.ns /\ n # Top.ns
      <4>1. ASSUME NEW l \in Ns, l = Top.ns
            PROVE  cache'[l] = None
        BY <1>1, <2>3, <4>1 DEF Withdraws
      <4> QED BY <4>1
    <3> QED BY <3>1, <3>2, <3>3 DEF AgreeInv, Distinct
  <2> QED BY <2>1, <2>2, <2>3 DEF Steady, CacheStep
<1> QED BY <1>3, <1>4

LEMMA UnfinishedStep ==
  ASSUME TypeInv, AgreeInv, Steady
  PROVE  Unfinished'
<1> SUFFICES ASSUME NEW k \in 1..Len(stack'), schemas'[stack'[k].schema].whole
             PROVE  k = Len(stack') /\ raised' = "other"
  BY DEF Unfinished
<1>1. CASE k \in 1..Len(stack) /\ SameFrame(stack[k], stack'[k])
  <2> DEFINE z == stack[k].schema
  <2>1. z \in 1..Len(schemas) /\ stack'[k].schema = z
    BY <1>1 DEF TypeInv, IsStack, SameFrame
  <2>2. stack # <<>>
    BY <1>1, LenProperties, EmptySeq DEF TypeInv, IsStack
  <2>3. Len(stack) \in 1..Len(stack) /\ Me \in 1..Len(schemas)
    BY <2>2, TopType
  <2>4. k # Len(stack) => z # Me
    <3>1. ASSUME k # Len(stack) PROVE z # Me
      <4>1. k \in 1..(Len(stack) - 1)
        BY <1>1, <2>3, <3>1
      <4>2. stack[k].schema < stack[Len(stack)].schema
        BY <2>3, <4>1 DEF TypeInv, IsStack
      <4> QED BY <2>1, <2>3, <4>2 DEF Me, Top
    <3> QED BY <3>1
  <2>5. Pops => k # Len(stack)
    BY FrameKept
  <2>6. CASE schemas[z].whole
    <3>1. k = Len(stack) /\ raised = "other"
      BY <1>1, <2>6 DEF AgreeInv, Unfinished
    <3>2. z = Me
      BY <3>1 DEF Me, Top
    <3>3. ~schemas'[Me].whole
      BY <2>5, <3>1 DEF Steady, StackStep, Nothing
    <3> QED BY <2>1, <3>2, <3>3
  <2>7. CASE z = Me /\ Stays /\ raised' = "other"
    <3>1. Len(stack') = Len(stack)
      BY <2>7 DEF Stays, SameFrames
    <3> QED BY <2>4, <2>7, <3>1
  <2>8. schemas[z].whole \/ (z = Me /\ (Pops \/ (Stays /\ raised' = "other")))
    BY <2>1 DEF Steady, SchemaStep, Develops
  <2> QED BY <2>4, <2>5, <2>6, <2>7, <2>8
<1>2. CASE k = Len(stack) + 1 /\ Pushes
  <2>1. stack'[k].schema = Len(schemas) + 1 /\ Len(schemas') = Len(schemas) + 1
    BY <1>2 DEF Pushes
  <2>2. Len(schemas) \in Nat
    BY DEF TypeInv, AreSchemas
  <2>3. Len(schemas) + 1 \in (Len(schemas) + 1)..Len(schemas')
    BY <2>1, <2>2
  <2> QED BY <2>1, <2>3 DEF Steady, SchemaStep
<1> QED BY <1>1, <1>2, FrameKept

LEMMA OwnStep ==
  ASSUME TypeInv, AgreeInv, Steady
  PROVE  Own'
<1> SUFFICES ASSUME NEW k \in 1..Len(stack'), NEW i \in 1..Len(schemas'), NEW n \in Ns,
                    schemas'[i].imports[n] = stack'[k].schema
             PROVE  stack'[k].how = "import" /\ n = stack'[k].ns
  BY DEF Own
<1>1. /\ Len(schemas) \in Nat /\ Len(schemas') \in Nat
      /\ stack'[k].schema \in 1..Len(schemas')
  BY StackTyped DEF IsStack, TypeInv, AreSchemas, Steady, SchemaStep
<1>2. i \in 1..Len(schemas)
  <2>1. i \notin (Len(schemas) + 1)..Len(schemas')
    BY <1>1 DEF Steady, SchemaStep, None
  <2> QED BY <1>1, <2>1
<1>3. stack'[k].schema \in Sources(n)
  BY <1>2 DEF Steady, SchemaStep, Develops
<1>4. stack'[k].schema <= Len(schemas)
  BY <1>3, SourceBound
<1>5. k \in 1..Len(stack) /\ SameFrame(stack[k], stack'[k])
  <2>1. ~(k = Len(stack) + 1 /\ Pushes)
    <3>1. k = Len(stack) + 1 /\ Pushes => stack'[k].schema = Len(schemas) + 1
      BY DEF Pushes
    <3> QED BY <1>1, <1>4, <3>1
  <2> QED BY <2>1, FrameKept
<1>6. stack[k].how = "import" /\ n = stack[k].ns
  BY <1>3, <1>5, SourceOwn DEF SameFrame
<1> QED BY <1>5, <1>6 DEF SameFrame

LEMMA InTypesStep ==
  ASSUME TypeInv, AgreeInv, Steady
  PROVE  InTypes'
<1>1. ASSUME NEW k \in 1..Len(stack'), stack'[k].how = "types"
      PROVE  schemas'[stack'[k].schema].wsdl # 0
  <2>1. CASE k \in 1..Len(stack) /\ SameFrame(stack[k], stack'[k])
    <3>1. stack[k].schema \in 1..Len(schemas)
      BY <2>1 DEF TypeInv, IsStack
    <3>2. schemas[stack[k].schema].wsdl # 0
      BY <1>1, <2>1 DEF AgreeInv, InTypes, SameFrame
    <3> QED BY <2>1, <3>1, <3>2 DEF SameFrame, Steady, SchemaStep, Develops
  <2>2. CASE k = Len(stack) + 1 /\ Pushes
    <3>1. schemas'[stack'[k].schema].wsdl = Len(wsdls) /\ wsdls # <<>>
      BY <1>1, <2>2 DEF Pushes
    <3>2. Len(wsdls) # 0
      BY <3>1, EmptySeq DEF TypeInv
    <3> QED BY <3>1, <3>2
  <2> QED BY <2>1, <2>2, FrameKept
<1>2. ASSUME NEW w \in 1..Len(wsdls'), NEW n \in Ns, wsdls'[w][n] # None
      PROVE  schemas'[wsdls'[w][n]].wsdl # 0
  <2>1. CASE w \in 1..Len(wsdls) /\ wsdls'[w][n] = wsdls[w][n]
    <3>1. wsdls \in Seq([Ns -> Nat]) /\ wsdls[w][n] <= Len(schemas) /\ Len(schemas) \in Nat
      BY <2>1 DEF TypeInv, AreSchemas
    <3>2. wsdls[w] \in [Ns -> Nat]
      BY <2>1, <3>1, ElementOfSeq
    <3>3. wsdls[w][n] \in 1..Len(schemas)
      BY <1>2, <2>1, <3>1, <3>2 DEF None
    <3>4. schemas[wsdls[w][n]].wsdl # 0
      BY <1>2, <2>1 DEF AgreeInv, InTypes
    <3> QED BY <2>1, <3>3, <3>4 DEF Steady, SchemaStep, Develops
  <2>2. CASE stack # <<>> /\ wsdls'[w][n] = Me /\ Top.how = "types"
    <3>1. Me \in 1..Len(schemas) /\ Len(stack) \in 1..Len(stack)
      BY <2>2, TopType
    <3>2. schemas[Me].wsdl # 0
      BY <2>2, <3>1 DEF AgreeInv, InTypes, Me, Top
    <3> QED BY <2>2, <3>1, <3>2 DEF Steady, SchemaStep, Develops
  <2> QED BY <1>2, <2>1, <2>2 DEF Steady, CallerStep
<1> QED BY <1>1, <1>2 DEF InTypes

LEMMA ImportsStep ==
  ASSUME TypeInv, AgreeInv, Steady
  PROVE  ImportsAgree'
<1> SUFFICES ASSUME NEW i \in DOMAIN schemas', NEW n \in Ns,
                    NEW c, c = schemas'[i].imports[n], c > 0
             PROVE  cache'[n] = c \/ schemas'[c].wsdl # 0 \/ ~schemas'[c].whole
  BY DEF ImportsAgree
<1>1. Len(schemas) \in Nat /\ Len(schemas') \in Nat /\ i \in 1..Len(schemas')
  <2>1. AreSchemas(schemas) /\ AreSchemas(schemas')
    BY DEF TypeInv, Steady, SchemaStep
  <2>2. DOMAIN schemas' = 1..Len(schemas')
    BY <2>1 DEF AreSchemas
  <2> QED BY <2>1, <2>2 DEF AreSchemas
<1>2. i \in 1..Len(schemas)
  <2>1. i \notin (Len(schemas) + 1)..Len(schemas')
    <3>1. i \in (Len(schemas) + 1)..Len(schemas') => c = 0
      BY DEF Steady, SchemaStep, None
    <3> QED BY <3>1
  <2> QED BY <1>1, <2>1
<1>3. c \in Sources(n)
  BY <1>2 DEF Steady, SchemaStep, Develops
<1>4. c \in 1..Len(schemas)
  <2>1. c \in Int /\ c <= Len(schemas)
    BY <1>3, SourceBound
  <2> QED BY <1>1, <2>1
<1>5. /\ schemas'[c].wsdl = schemas[c].wsdl
      /\ schemas'[c].whole =>
           \/ schemas[c].whole
           \/ stack # <<>> /\ c = Me
  BY <1>4 DEF Steady, SchemaStep, Develops
<1>6. ASSUME stack # <<>>, c = Me
      PROVE  cache[n] = c
  <2>1. Len(stack) \in 1..Len(stack) /\ stack[Len(stack)].schema = c
    BY <1>6, TopType DEF Me, Top
  <2>2. stack[Len(stack)].how = "import" /\ n = stack[Len(stack)].ns
    BY <1>3, <2>1, SourceOwn
  <2> QED BY <2>1, <2>2 DEF AgreeInv, Registered
<1>7. cache[n] = c \/ schemas[c].wsdl # 0 \/ ~schemas[c].whole
  <2>1. ASSUME NEW d \in 1..Len(schemas), c = schemas[d].imports[n]
        PROVE  cache[n] = c \/ schemas[c].wsdl # 0 \/ ~schemas[c].whole
    <3>1. d \in DOMAIN schemas
      BY DEF TypeInv, AreSchemas
    <3> QED BY <2>1, <3>1 DEF AgreeInv, ImportsAgree
  <2>2. ASSUME NEW w \in 1..Len(wsdls), c = wsdls[w][n]
        PROVE  schemas[c].wsdl # 0
    BY <1>4, <2>2 DEF AgreeInv, InTypes, None
  <2>3. c # Lazy
    BY <1>4 DEF Lazy
  <2> QED BY <1>3, <2>1, <2>2, <2>3 DEF Sources
<1>8. ASSUME cache[n] = c
      PROVE  cache'[n] = c \/ ~schemas'[c].whole
  <2>1. c # None
    BY <1>4 DEF None
  <2>2. CASE Withdraws /\ n = Top.ns /\ cache[n] = Me
    <3>1. stack # <<>> /\ raised = "SchemaError" /\ schemas'[Me].whole = schemas[Me].whole
      BY <2>2 DEF Withdraws, Pops
    <3>2. Len(stack) \in 1..Len(stack) /\ stack[Len(stack)].schema = Me
      BY <3>1, TopType DEF Me, Top
    <3>3. ~schemas[Me].whole
      BY <3>1, <3>2 DEF AgreeInv, Unfinished
    <3> QED BY <1>8, <2>2, <3>1, <3>3, Zenon
  <2> QED BY <1>8, <2>1, <2>2, CacheCases
<1> QED BY <1>5, <1>6, <1>7, <1>8

LEMMA AgreeStep ==
  ASSUME TypeInv, AgreeInv, Steady
  PROVE  AgreeInv'
BY RegisteredStep, UnfinishedStep, OwnStep, InTypesStep, ImportsStep DEF AgreeInv

------------------------------------------------------------------------------
\* What the actions do to the schemas.

LEMMA OwnSources ==
  ASSUME TypeInv, NEW i \in 1..Len(schemas)
  PROVE  /\ \A l \in Locs : schemas[i].included[l] <= Len(schemas)
         /\ \A n \in Ns : schemas[i].imports[n] \in Sources(n)
BY DEF TypeInv, Refers, Sources

LEMMA Unaffected ==
  ASSUME TypeInv, NEW i \in 1..Len(schemas), schemas'[i] = schemas[i]
  PROVE  Develops(i)
BY OwnSources DEF Develops

LEMMA NoUpdate ==
  ASSUME TypeInv, schemas' = schemas
  PROVE  SchemaStep
<1>1. AreSchemas(schemas) /\ Len(schemas) \in Nat
  BY DEF TypeInv, AreSchemas
<1>2. (Len(schemas) + 1)..Len(schemas') = {}
  BY <1>1
<1> QED BY <1>1, <1>2, Unaffected DEF SchemaStep

LEMMA OneUpdate ==
  ASSUME TypeInv, NEW me \in 1..Len(schemas), Updates(schemas, schemas', me),
         \A l \in Locs : schemas'[me].included[l] <= Len(schemas),
         \A n \in Ns : schemas'[me].imports[n] \in Sources(n),
         schemas'[me].whole =>
           \/ schemas[me].whole
           \/ stack # <<>> /\ me = Me /\ (Pops \/ (Stays /\ raised' = "other"))
  PROVE  SchemaStep
<1>1. AreSchemas(schemas') /\ Len(schemas') = Len(schemas) /\ Len(schemas) \in Nat
  BY DEF Updates, TypeInv, AreSchemas
<1>2. (Len(schemas) + 1)..Len(schemas') = {}
  BY <1>1
<1>3. ASSUME NEW i \in 1..Len(schemas)
      PROVE  Develops(i)
  <2>1. CASE i = me
    BY <2>1 DEF Develops, Updates
  <2>2. CASE i # me
    BY <2>2, Unaffected DEF Updates
  <2> QED BY <2>1, <2>2
<1> QED BY <1>1, <1>2, <1>3 DEF SchemaStep

\* The innermost load has read its document, or starts again.
LEMMA TopSet ==
  ASSUME TypeInv, stack # <<>>, NEW b \in BOOLEAN, NEW t, t = SetWhole(schemas, Me, b)
  PROVE  /\ Updates(schemas, t, Me) /\ t[Me].imports = schemas[Me].imports
         /\ t[Me].whole = b /\ t[Me].included = schemas[Me].included
         /\ t[Me].elements = schemas[Me].elements
<1>1. Me \in 1..Len(schemas) /\ AreSchemas(schemas)
  BY TopType DEF TypeInv
<1>2. ASSUME NEW me \in 1..Len(schemas), t = SetWhole(schemas, me, b)
      PROVE  /\ Updates(schemas, t, me) /\ t[me].imports = schemas[me].imports
             /\ t[me].whole = b /\ t[me].included = schemas[me].included
             /\ t[me].elements = schemas[me].elements
  BY <1>1, <1>2, WholeSet
<1> QED BY <1>1, <1>2

LEMMA TopRead ==
  ASSUME TypeInv, stack # <<>>, NEW t, t = SetWhole(schemas, Me, TRUE)
  PROVE  /\ Updates(schemas, t, Me) /\ t[Me].imports = schemas[Me].imports
         /\ t[Me].included = schemas[Me].included /\ t[Me].elements = schemas[Me].elements
         /\ t[Me].whole
<1> DEFINE b == TRUE
<1>1. b \in BOOLEAN /\ t = SetWhole(schemas, Me, b)
  OBVIOUS
<1>2. b
  OBVIOUS
<1> HIDE DEF b
<1> QED BY <1>1, <1>2, TopSet

LEMMA TopRepeats ==
  ASSUME TypeInv, stack # <<>>, NEW t, t = SetWhole(schemas, Me, FALSE)
  PROVE  /\ Updates(schemas, t, Me) /\ t[Me].imports = schemas[Me].imports
         /\ t[Me].included = schemas[Me].included /\ ~t[Me].whole
         /\ t[Me].elements = schemas[Me].elements
<1> DEFINE b == FALSE
<1>1. b \in BOOLEAN /\ t = SetWhole(schemas, Me, b)
  OBVIOUS
<1>2. ~b
  OBVIOUS
<1> HIDE DEF b
<1> QED BY <1>1, <1>2, TopSet

\* The innermost load ends and tells the one below it.
LEMMA TwoUpdates ==
  ASSUME TypeInv, stack # <<>>, Pops, NEW me \in 1..Len(schemas), me # Me,
         NEW t, t = SetWhole(schemas, Me, TRUE), Updates(t, schemas', me),
         \A l \in Locs : schemas'[me].included[l] <= Len(schemas),
         \A n \in Ns : schemas'[me].imports[n] \in Sources(n),
         schemas'[me].whole = t[me].whole
  PROVE  SchemaStep
<1>1. Me \in 1..Len(schemas) /\ AreSchemas(schemas)
  BY TopType DEF TypeInv
<1>2. Updates(schemas, t, Me) /\ t[Me].imports = schemas[Me].imports /\ t[Me].included = schemas[Me].included
  BY TopRead
<1>3. /\ AreSchemas(schemas') /\ Len(schemas') = Len(schemas) /\ Len(schemas) \in Nat
      /\ Len(t) = Len(schemas)
  BY <1>1, <1>2 DEF Updates, AreSchemas
<1>4. (Len(schemas) + 1)..Len(schemas') = {}
  BY <1>3
<1>5. ASSUME NEW i \in 1..Len(schemas)
      PROVE  Develops(i)
  <2>1. CASE i = me
    <3>1. t[me] = schemas[me]
      BY <1>2 DEF Updates
    <3> QED BY <2>1, <3>1 DEF Develops, Updates
  <2>2. CASE i = Me
    <3>1. schemas'[i] = t[Me] /\ t[Me].tns = schemas[Me].tns /\ t[Me].at = schemas[Me].at
          /\ t[Me].wsdl = schemas[Me].wsdl
      BY <1>2, <1>3, <2>2 DEF Updates
    <3> QED BY <1>1, <1>2, <2>2, <3>1, OwnSources DEF Develops
  <2>3. CASE i # me /\ i # Me
    <3>1. schemas'[i] = schemas[i]
      BY <1>2, <1>3, <2>3 DEF Updates
    <3> QED BY <3>1, Unaffected
  <2> QED BY <2>1, <2>2, <2>3
<1> QED BY <1>3, <1>4, <1>5 DEF SchemaStep

LEMMA NewType ==
  ASSUME NEW tns, NEW at, NEW wsdl \in Nat
  PROVE  /\ IsSchema(NewSchema(tns, at, wsdl))
         /\ NewSchema(tns, at, wsdl).wsdl = wsdl /\ ~NewSchema(tns, at, wsdl).whole
         /\ \A n \in Ns : NewSchema(tns, at, wsdl).imports[n] = None
         /\ \A l \in Locs : NewSchema(tns, at, wsdl).included[l] = None
BY DEF IsSchema, NewSchema, None

LEMMA OneMore ==
  ASSUME TypeInv, NEW tns, NEW at, NEW wsdl \in 0..Len(wsdls),
         schemas' = Append(schemas, NewSchema(tns, at, wsdl))
  PROVE  /\ SchemaStep /\ Len(schemas') = Len(schemas) + 1
         /\ schemas'[Len(schemas) + 1].wsdl = wsdl
<1> DEFINE r == NewSchema(tns, at, wsdl)
<1>1. /\ IsSchema(r) /\ r.wsdl = wsdl /\ ~r.whole
      /\ \A n \in Ns : r.imports[n] = None
      /\ \A l \in Locs : r.included[l] = None
  BY NewType
<1>2. AreSchemas(schemas) /\ Len(schemas) \in Nat
  BY DEF TypeInv, AreSchemas
<1>3. schemas' = Append(schemas, r)
  OBVIOUS
<1> HIDE DEF r
<1>4. /\ AreSchemas(schemas') /\ Len(schemas') = Len(schemas) + 1
      /\ schemas'[Len(schemas) + 1] = r
      /\ \A i \in 1..Len(schemas) : schemas'[i] = schemas[i]
  BY <1>1, <1>2, <1>3, AppendSchema
<1>5. \A i \in (Len(schemas) + 1)..Len(schemas') : i = Len(schemas) + 1
  BY <1>2, <1>4
<1>6. wsdl <= Len(wsdls)
  BY LenProperties DEF TypeInv
<1>7. \A i \in 1..Len(schemas) : Develops(i)
  BY <1>4, Unaffected
<1>8. Len(schemas) <= Len(schemas')
  BY <1>2, <1>4
<1> QED BY <1>1, <1>4, <1>5, <1>6, <1>7, <1>8 DEF SchemaStep

\* A load begins, of a document that can be read.
LEMMA LoadBegins ==
  ASSUME TypeInv, NEW how \in Hows, NEW at \in DOMAIN repo.docs, NEW tns,
         NEW wsdl \in 0..Len(wsdls), NEW ns \in Ns \cup {NoNs}, NEW last \in BOOLEAN,
         NEW provided \in SUBSET Locs,
         Enters(how, at, tns, wsdl, ns, last, provided),
         how \in {"root", "types"} <=> stack = <<>>,
         how = "import" => ns \in Ns /\ Register(ns, Len(schemas) + 1),
         how # "import" => cache' = cache,
         how = "types" => wsdl = Len(wsdls) /\ wsdls # <<>>
  PROVE  SchemaStep /\ Pushes /\ Len(schemas') = Len(schemas) + 1 /\ stack' # <<>>
<1> DEFINE f == NewFrame(how, at, ns, last, provided)
<1>1. schemas' = Append(schemas, NewSchema(tns, at, wsdl)) /\ stack' = Append(stack, f)
  BY DEF Enters, SetSchema
<1>2. SchemaStep /\ Len(schemas') = Len(schemas) + 1 /\ schemas'[Len(schemas) + 1].wsdl = wsdl
  BY <1>1, OneMore
<1>3. /\ f \in Frame /\ f.how = how /\ f.schema = Len(schemas) + 1
      /\ f.at = at /\ f.ns = ns
  <2>1. Len(schemas) \in Nat /\ at \in Locs
    BY LoadingAssumption DEF TypeInv, AreSchemas, AnyRepository
  <2> QED BY <2>1 DEF NewFrame, Frame
<1> HIDE DEF f
<1>4. /\ stack' \in Seq(Frame) /\ Len(stack') = Len(stack) + 1 /\ stack'[Len(stack) + 1] = f
      /\ \A k \in 1..Len(stack) : stack'[k] = stack[k]
  BY <1>1, <1>3, AppendProperties DEF TypeInv, IsStack
<1>5. \A k \in 1..Len(stack) : SameFrame(stack[k], stack'[k])
  BY <1>4 DEF SameFrame
<1>6. how = "import" => cache'[ns] = Len(schemas) + 1
  BY DEF Register, TypeInv
<1>7. stack' # <<>>
  BY <1>1, <1>3, AppendProperties DEF TypeInv, IsStack
<1> QED BY <1>2, <1>3, <1>4, <1>5, <1>6, <1>7 DEF Pushes

\* The callers wait for the load.
LEMMA CallersWait ==
  ASSUME TypeInv, UNCHANGED <<repo, inline, wsdls, loaded>>, SchemaStep
  PROVE  CallerStep
<1>1. wsdls \in Seq([Ns -> Nat]) /\ Len(wsdls) \in Nat
  BY LenProperties DEF TypeInv
<1>2. loaded \subseteq 1..Len(schemas')
  BY DEF TypeInv, SchemaStep, AreSchemas
<1> QED BY <1>1, <1>2 DEF TypeInv, CallerStep

LEMMA InLoadWaits ==
  ASSUME TypeInv, InLoad, SchemaStep
  PROVE  CallerStep
BY CallersWait DEF InLoad, Caller

LEMMA StackStays ==
  ASSUME TypeInv, stack' = stack
  PROVE  Stays
BY SameStack DEF Stays, TypeInv, IsStack

LEMMA StackAdvances ==
  ASSUME TypeInv, stack # <<>>, stack' = Advanced(stack)
  PROVE  Stays /\ stack' # <<>>
BY AdvancedFrames DEF Stays, TypeInv, IsStack

LEMMA StackPops ==
  ASSUME TypeInv, stack # <<>>, stack' = Below
  PROVE  Pops
BY TopType, SameStack DEF Pops

\* An import or an include has a load below it, of another schema.
LEMMA BelowType ==
  ASSUME TypeInv, stack # <<>>, Top.how \in {"import", "include"} \/ Len(stack) # 1
  PROVE  /\ Below # <<>> /\ Below[Len(Below)].schema \in 1..Len(schemas)
         /\ Below[Len(Below)].schema # Me
         /\ stack' = Advanced(Below) => Pops /\ stack' # <<>>
<1>1. /\ Len(stack) \in Nat \ {0} /\ Len(stack) \in 1..Len(stack)
      /\ Below \in Seq(Frame) /\ Len(Below) = Len(stack) - 1
      /\ \A k \in 1..Len(Below) : Below[k] = stack[k]
  BY TopType
<1>2. Len(stack) # 1
  BY <1>1 DEF TypeInv, IsStack, Top
<1>3. Len(Below) \in 1..(Len(stack) - 1) /\ Len(Below) \in 1..Len(stack) /\ Below # <<>>
  BY <1>1, <1>2
<1>4. Below[Len(Below)] = stack[Len(Below)]
  BY <1>1, <1>3
<1>5. /\ stack[Len(Below)].schema \in 1..Len(schemas) /\ stack[Len(stack)].schema \in 1..Len(schemas)
      /\ stack[Len(Below)].schema < stack[Len(stack)].schema
  BY <1>1, <1>3 DEF TypeInv, IsStack
<1>6. Below[Len(Below)].schema # Me
  BY <1>4, <1>5 DEF Me, Top
<1>7. stack' = Advanced(Below) => Pops /\ stack' # <<>>
  BY <1>1, <1>3, AdvancedFrames DEF Pops
<1> QED BY <1>3, <1>4, <1>5, <1>6, <1>7

LEMMA Adopts ==
  ASSUME NEW c, NEW ns, NEW s, NEW st, Adopt(c, ns, s, st)
  PROVE  \/ schemas' = s /\ stack' = st /\ raised' = "SchemaError"
         \/ /\ schemas' = SetImport(s, st[Len(st)].schema, ns, c)
            /\ stack' = Advanced(st) /\ raised' = raised
BY Zenon DEF Adopt, ImportMisfits, SetSchema, SetImport, Raises, Proceeds

LEMMA Merges ==
  ASSUME NEW c, NEW at, NEW s, NEW st, Merge(c, at, s, st)
  PROVE  \/ schemas' = s /\ stack' = st /\ raised' = "SchemaError"
         \/ /\ schemas' = Merged(s, st[Len(st)].schema, at, c)
            /\ stack' = Advanced(st) /\ raised' = raised
BY Zenon DEF Merge, IncludeMisfits, SetSchema, Merged, Raises, Proceeds

------------------------------------------------------------------------------
\* Every action is such a step.

LEMMA LoadSteady ==
  ASSUME TypeInv, NEW call \in Calls, Load(call[1], call[2])
  PROVE  Steady
<1>1. stack = <<>> /\ call[1] \in DOMAIN repo.docs /\ cache' = cache /\ raised' = raised
  BY DEF Load, Idle
<1>2. raised = Nothing
  BY <1>1 DEF TypeInv
<1>3. Enters("root", call[1], TargetNs(call[1], NoNs), 0, NoNs, TRUE, call[2])
  BY DEF Load
<1>4. call[2] \in SUBSET Locs /\ "root" \in Hows
  BY LoadingAssumption DEF Hows
<1>5. 0 \in 0..Len(wsdls)
  BY LenProperties DEF TypeInv
<1>6. SchemaStep /\ Pushes /\ stack' # <<>>
  <2> DEFINE at == call[1]
             tns == TargetNs(call[1], NoNs)
             provided == call[2]
             b == TRUE
  <2>1. /\ at \in DOMAIN repo.docs /\ b \in BOOLEAN /\ provided \in SUBSET Locs
        /\ Enters("root", at, tns, 0, NoNs, b, provided)
    BY <1>1, <1>3, <1>4, Zenon
  <2> HIDE DEF at, tns, provided, b
  <2> QED BY <1>1, <1>4, <1>5, <2>1, LoadBegins
<1>7. CallerStep
  BY <1>6, CallersWait DEF Load
<1> QED BY <1>1, <1>2, <1>6, <1>7 DEF Steady, CacheStep, StackStep

LEMMA LoadTypesSteady ==
  ASSUME TypeInv, LoadTypes
  PROVE  Steady
<1>1. /\ stack' = stack /\ schemas' = schemas /\ cache' = cache /\ raised' = raised
      /\ repo' = repo /\ loaded' = loaded /\ stack = <<>> /\ raised = Nothing
      /\ inline' = repo.types /\ wsdls' = Append(wsdls, [n \in Ns |-> None])
  BY DEF LoadTypes, Idle, TypeInv
<1>2. SchemaStep /\ Stays
  BY <1>1, NoUpdate, StackStays
<1>3. /\ wsdls' \in Seq([Ns -> Nat]) /\ Len(wsdls') = Len(wsdls) + 1 /\ Len(wsdls) \in Nat
      /\ wsdls'[Len(wsdls) + 1] = [n \in Ns |-> None]
      /\ \A w \in 1..Len(wsdls) : wsdls'[w] = wsdls[w]
  <2>1. [n \in Ns |-> None] \in [Ns -> Nat]
    BY DEF None
  <2>2. wsdls \in Seq([Ns -> Nat])
    BY DEF TypeInv
  <2> QED BY <1>1, <2>1, <2>2, AppendProperties, LenProperties
<1>4. \A w \in 1..Len(wsdls') : w \in 1..Len(wsdls) \/ w = Len(wsdls) + 1
  BY <1>3
<1>5. inline' \in Seq(DOMAIN repo.docs) /\ wsdls' # <<>>
  <2>1. AnyRepository(repo)
    BY LoadingAssumption DEF TypeInv
  <2>2. wsdls' # <<>>
    BY <1>3, EmptySeq
  <2> QED BY <1>1, <2>1, <2>2 DEF AnyRepository
<1>6. CallerStep
  <2>1. \A w \in 1..Len(wsdls'), n \in Ns :
          wsdls'[w][n] = None \/ (w \in 1..Len(wsdls) /\ wsdls'[w][n] = wsdls[w][n])
    BY <1>3, <1>4
  <2>2. Len(wsdls) <= Len(wsdls')
    BY <1>3
  <2> QED BY <1>1, <1>3, <1>5, <2>1, <2>2 DEF CallerStep, TypeInv
<1> QED BY <1>1, <1>2, <1>6 DEF Steady, CacheStep, StackStep

LEMMA LoadFromNodeSteady ==
  ASSUME TypeInv, LoadFromNode
  PROVE  Steady
<1>1. /\ stack = <<>> /\ cache' = cache /\ raised' = raised /\ raised = Nothing /\ repo' = repo
      /\ wsdls' = wsdls /\ loaded' = loaded /\ inline # <<>> /\ inline' = Tail(inline)
      /\ inline \in Seq(DOMAIN repo.docs) /\ wsdls # <<>>
  BY DEF LoadFromNode, TypeInv
<1>2. Head(inline) \in DOMAIN repo.docs /\ inline' \in Seq(DOMAIN repo.docs)
  BY <1>1, HeadTailProperties
<1>3. Enters("types", Head(inline), repo.docs[Head(inline)].tns, Len(wsdls), NoNs, TRUE, {})
  BY DEF LoadFromNode
<1>4. SchemaStep /\ Pushes /\ stack' # <<>>
  <2> DEFINE at == Head(inline)
             tns == repo.docs[Head(inline)].tns
             b == TRUE
             provided == {}
             w == Len(wsdls)
  <2>1. /\ at \in DOMAIN repo.docs /\ b \in BOOLEAN /\ provided \in SUBSET Locs
        /\ Enters("types", at, tns, w, NoNs, b, provided)
    BY <1>2, <1>3, Zenon
  <2>2. w \in 0..Len(wsdls) /\ "types" \in Hows /\ w = Len(wsdls)
    BY LenProperties DEF TypeInv, Hows
  <2> HIDE DEF at, tns, provided, b, w
  <2> QED BY <1>1, <2>1, <2>2, LoadBegins
<1>5. CallerStep
  <2>1. wsdls \in Seq([Ns -> Nat]) /\ Len(wsdls) \in Nat
    BY LenProperties DEF TypeInv
  <2>2. loaded' \subseteq 1..Len(schemas')
    BY <1>1, <1>4 DEF TypeInv, SchemaStep, AreSchemas
  <2> QED BY <1>1, <1>2, <2>1, <2>2 DEF CallerStep
<1> QED BY <1>1, <1>4, <1>5 DEF Steady, CacheStep, StackStep

\* A statement that only raises.
LEMMA RaiseSteady ==
  ASSUME TypeInv, stack # <<>>, raised = Nothing, raised' \in {"SchemaError", "other"},
         InLoad, UNCHANGED <<cache, schemas, stack>>
  PROVE  Steady
<1>1. SchemaStep /\ Stays
  BY NoUpdate, StackStays
<1>2. CallerStep
  BY <1>1, InLoadWaits
<1> QED BY <1>1, <1>2 DEF Steady, CacheStep, StackStep

LEMMA ElementSteady ==
  ASSUME TypeInv, Element
  PROVE  Steady
<1>1. /\ stack # <<>> /\ raised = Nothing /\ InLoad /\ cache' = cache /\ raised' = raised
      /\ stack' = Advanced(stack)
  BY StmtType DEF Element, Proceeds, SetSchema
<1>2. schemas' = AddElement(schemas, Me, Stmt.name)
  BY Zenon DEF Element, SetSchema, AddElement
<1>3. Me \in 1..Len(schemas) /\ AreSchemas(schemas)
  BY <1>1, TopType DEF TypeInv
<1>4. /\ Updates(schemas, schemas', Me) /\ schemas'[Me].imports = schemas[Me].imports
      /\ schemas'[Me].whole = schemas[Me].whole /\ schemas'[Me].included = schemas[Me].included
  BY <1>2, <1>3, ElementAdded
<1>5. SchemaStep
  BY <1>3, <1>4, OwnSources, OneUpdate
<1>6. Stays /\ stack' # <<>>
  BY <1>1, StackAdvances
<1>7. CallerStep
  BY <1>1, <1>5, InLoadWaits
<1> QED BY <1>1, <1>5, <1>6, <1>7 DEF Steady, CacheStep, StackStep

\* A schema takes another for a namespace it imports.
LEMMA ImportStep ==
  ASSUME TypeInv, NEW me \in 1..Len(schemas), NEW ns \in Ns, NEW c \in Int, c \in Sources(ns),
         Updates(schemas, schemas', me),
         schemas'[me].imports = [schemas[me].imports EXCEPT ![ns] = c],
         schemas'[me].whole = schemas[me].whole, schemas'[me].included = schemas[me].included
  PROVE  SchemaStep
<1>1. schemas[me].imports \in [Ns -> Int]
  BY DEF TypeInv, AreSchemas, IsSchema
<1>2. ASSUME NEW n \in Ns
      PROVE  schemas'[me].imports[n] \in Sources(n)
  <2>1. CASE n = ns
    BY <1>1, <2>1
  <2>2. CASE n # ns
    <3>1. schemas'[me].imports[n] = schemas[me].imports[n]
      BY <1>1, <2>2
    <3> QED BY <3>1, OwnSources
  <2> QED BY <2>1, <2>2
<1> QED BY <1>2, OwnSources, OneUpdate

LEMMA ImportCachedSteady ==
  ASSUME TypeInv, ImportCached
  PROVE  Steady
<1>1. /\ stack # <<>> /\ raised = Nothing /\ InLoad /\ cache' = cache
      /\ Stmt.ns \in Ns /\ Adopt(cache[Stmt.ns], Stmt.ns, schemas, stack)
  BY StmtType DEF ImportCached, ReadsImport, Cached
<1>2. CASE schemas' = schemas /\ stack' = stack /\ raised' = "SchemaError"
  BY <1>1, <1>2, RaiseSteady
<1>3. CASE /\ schemas' = SetImport(schemas, Me, Stmt.ns, cache[Stmt.ns])
           /\ stack' = Advanced(stack) /\ raised' = raised
  <2>1. Me \in 1..Len(schemas) /\ AreSchemas(schemas)
    BY <1>1, TopType DEF TypeInv
  <2>2. cache[Stmt.ns] \in Int /\ cache[Stmt.ns] \in Sources(Stmt.ns)
    BY <1>1 DEF TypeInv, Sources
  <2>3. SchemaStep
    <3> DEFINE ns == Stmt.ns
               c == cache[Stmt.ns]
    <3>1. ns \in Ns /\ c \in Int /\ c \in Sources(ns) /\ schemas' = SetImport(schemas, Me, ns, c)
      BY <1>1, <1>3, <2>2
    <3> HIDE DEF ns, c
    <3>2. /\ Updates(schemas, schemas', Me)
          /\ schemas'[Me].imports = [schemas[Me].imports EXCEPT ![ns] = c]
          /\ schemas'[Me].whole = schemas[Me].whole /\ schemas'[Me].included = schemas[Me].included
      BY <2>1, <3>1, ImportSet
    <3> QED BY <2>1, <3>1, <3>2, ImportStep
  <2>4. Stays /\ stack' # <<>>
    BY <1>1, <1>3, StackAdvances
  <2>5. CallerStep
    BY <1>1, <2>3, InLoadWaits
  <2> QED BY <1>1, <1>3, <2>3, <2>4, <2>5 DEF Steady, CacheStep, StackStep
<1> QED BY <1>1, <1>2, <1>3, Adopts DEF Me, Top

LEMMA ImportUnlocatedSteady ==
  ASSUME TypeInv, ImportUnlocated
  PROVE  Steady
<1>1. /\ stack # <<>> /\ raised = Nothing /\ InLoad /\ cache' = cache /\ raised' = raised
      /\ Stmt.ns \in Ns /\ stack' = Advanced(stack)
      /\ schemas' = Postponed(schemas, Me, Stmt.ns)
  BY StmtType DEF ImportUnlocated, ReadsImport, SetSchema, Proceeds
<1>2. Me \in 1..Len(schemas) /\ AreSchemas(schemas)
  BY <1>1, TopType DEF TypeInv
<1>3. SchemaStep
  <2> DEFINE ns == Stmt.ns
  <2>1. ns \in Ns /\ schemas' = Postponed(schemas, Me, ns)
    BY <1>1
  <2> HIDE DEF ns
  <2>2. /\ Updates(schemas, schemas', Me)
        /\ schemas'[Me].imports = [schemas[Me].imports EXCEPT ![ns] = Lazy]
        /\ schemas'[Me].whole = schemas[Me].whole /\ schemas'[Me].included = schemas[Me].included
    BY <1>2, <2>1, ImportPostponed
  <2>3. Lazy \in Int /\ Lazy \in Sources(ns)
    BY DEF Lazy, Sources
  <2> QED BY <1>2, <2>1, <2>2, <2>3, ImportStep
<1>4. Stays /\ stack' # <<>>
  BY <1>1, StackAdvances
<1>5. CallerStep
  BY <1>1, <1>3, InLoadWaits
<1> QED BY <1>1, <1>3, <1>4, <1>5 DEF Steady, CacheStep, StackStep

LEMMA ImportUnreadableSteady ==
  ASSUME TypeInv, ImportUnreadable
  PROVE  Steady
<1>1. /\ stack # <<>> /\ raised = Nothing /\ InLoad /\ raised' = "other" /\ stack' = stack
      /\ Stmt.ns \in Ns /\ cache[Stmt.ns] = None /\ Register(Stmt.ns, Len(schemas) + 1)
      /\ schemas' = Append(schemas, NewSchema(Unread, NoLoc, 0))
  BY StmtType DEF ImportUnreadable, ReadsImport, SetSchema, Raises, Cached
<1>2. SchemaStep /\ Len(schemas') = Len(schemas) + 1
  <2>1. 0 \in 0..Len(wsdls)
    BY LenProperties DEF TypeInv
  <2> QED BY <1>1, <2>1, OneMore
<1>3. Registers(Stmt.ns)
  BY <1>1, <1>2 DEF Register, Registers
<1>4. CallerStep /\ Stays
  BY <1>1, <1>2, InLoadWaits, StackStays
<1> QED BY <1>1, <1>2, <1>3, <1>4 DEF Steady, CacheStep, StackStep

LEMMA ImportSteady ==
  ASSUME TypeInv, Import
  PROVE  Steady
<1>1. /\ stack # <<>> /\ raised = Nothing /\ InLoad /\ raised' = raised
      /\ Stmt.ns \in Ns /\ cache[Stmt.ns] = None /\ Stmt.at \in DOMAIN repo.docs
      /\ Register(Stmt.ns, Len(schemas) + 1)
  BY StmtType DEF Import, ReadsImport, Proceeds, Cached
<1>2. Enters("import", Stmt.at, TargetNs(Stmt.at, NoNs), 0, Stmt.ns, Stmt.at \notin repo.files, {})
  BY DEF Import
<1>3. SchemaStep /\ Pushes /\ stack' # <<>> /\ Len(schemas') = Len(schemas) + 1
  <2> DEFINE at == Stmt.at
             ns == Stmt.ns
             tns == TargetNs(Stmt.at, NoNs)
             b == Stmt.at \notin repo.files
             provided == {}
  <2>1. /\ at \in DOMAIN repo.docs /\ b \in BOOLEAN /\ provided \in SUBSET Locs
        /\ Enters("import", at, tns, 0, ns, b, provided)
        /\ ns \in Ns /\ Register(ns, Len(schemas) + 1)
    BY <1>1, <1>2, Zenon
  <2>2. 0 \in 0..Len(wsdls) /\ "import" \in Hows
    BY LenProperties DEF TypeInv, Hows
  <2> HIDE DEF at, ns, tns, provided, b
  <2> QED BY <1>1, <2>1, <2>2, LoadBegins
<1>4. Registers(Stmt.ns)
  BY <1>1, <1>3 DEF Register, Registers
<1>5. CallerStep
  BY <1>1, <1>3, InLoadWaits
<1> QED BY <1>1, <1>3, <1>4, <1>5 DEF Steady, CacheStep, StackStep

\* A schema takes over what another one knows.
LEMMA MergeImports ==
  ASSUME TypeInv, NEW s, AreSchemas(s), Len(s) = Len(schemas),
         NEW me \in 1..Len(s), NEW c \in 1..Len(s), NEW at \in Locs,
         \A i \in 1..Len(schemas) :
           s[i].imports = schemas[i].imports /\ s[i].included = schemas[i].included,
         schemas' = Merged(s, me, at, c)
  PROVE  /\ Updates(s, schemas', me) /\ schemas'[me].whole = s[me].whole
         /\ \A l \in Locs : schemas'[me].included[l] <= Len(schemas)
         /\ \A n \in Ns : schemas'[me].imports[n] \in Sources(n)
<1>1. /\ Updates(s, schemas', me) /\ schemas'[me].whole = s[me].whole
      /\ schemas'[me].imports = Both(s, me, c)
      /\ schemas'[me].included = [s[me].included EXCEPT ![at] = c]
  BY SchemaMerged
<1>2. /\ me \in 1..Len(schemas) /\ c \in 1..Len(schemas) /\ Len(schemas) \in Nat
      /\ s[me].included = schemas[me].included /\ schemas[me].included \in [Locs -> Nat]
  BY DEF TypeInv, AreSchemas, IsSchema
<1>3. \A l \in Locs : schemas'[me].included[l] <= Len(schemas)
  BY <1>1, <1>2, OwnSources
<1>4. ASSUME NEW n \in Ns
      PROVE  schemas'[me].imports[n] \in Sources(n)
  <2>1. schemas'[me].imports[n] = schemas[me].imports[n] \/ schemas'[me].imports[n] = schemas[c].imports[n]
    BY <1>1, <1>2 DEF Both
  <2> QED BY <1>2, <2>1, OwnSources
<1> QED BY <1>1, <1>3, <1>4

LEMMA IncludeAgainSteady ==
  ASSUME TypeInv, IncludeAgain
  PROVE  Steady
<1> DEFINE c == schemas[Me].included[Stmt.at]
<1>1. /\ stack # <<>> /\ raised = Nothing /\ InLoad /\ cache' = cache
      /\ Stmt.at \in Locs /\ c # None /\ Merge(c, Stmt.at, schemas, stack)
  BY StmtType DEF IncludeAgain
<1>2. Me \in 1..Len(schemas) /\ AreSchemas(schemas)
  BY <1>1, TopType DEF TypeInv
<1>3. c \in 1..Len(schemas)
  <2>1. schemas[Me].included \in [Locs -> Nat] /\ Len(schemas) \in Nat
    BY <1>2 DEF AreSchemas, IsSchema
  <2>2. schemas[Me].included[Stmt.at] <= Len(schemas)
    BY <1>1, <1>2, OwnSources
  <2> QED BY <1>1, <2>1, <2>2 DEF None
<1> HIDE DEF c
<1>4. CASE schemas' = schemas /\ stack' = stack /\ raised' = "SchemaError"
  BY <1>1, <1>4, RaiseSteady
<1>5. CASE /\ schemas' = Merged(schemas, Me, Stmt.at, c)
           /\ stack' = Advanced(stack) /\ raised' = raised
  <2>1. SchemaStep
    <3> DEFINE at == Stmt.at
    <3>1. at \in Locs /\ schemas' = Merged(schemas, Me, at, c)
      BY <1>1, <1>5
    <3> HIDE DEF at
    <3>2. /\ Updates(schemas, schemas', Me) /\ schemas'[Me].whole = schemas[Me].whole
          /\ \A l \in Locs : schemas'[Me].included[l] <= Len(schemas)
          /\ \A n \in Ns : schemas'[Me].imports[n] \in Sources(n)
      BY <1>2, <1>3, <3>1, MergeImports
    <3> QED BY <1>2, <3>2, OneUpdate
  <2>2. Stays /\ stack' # <<>>
    BY <1>1, <1>5, StackAdvances
  <2>3. CallerStep
    BY <1>1, <2>1, InLoadWaits
  <2> QED BY <1>1, <1>5, <2>1, <2>2, <2>3 DEF Steady, CacheStep, StackStep
<1> QED BY <1>1, <1>4, <1>5, Merges DEF Me, Top

LEMMA IncludeSteady ==
  ASSUME TypeInv, Include
  PROVE  Steady
<1>1. /\ stack # <<>> /\ raised = Nothing /\ InLoad /\ raised' = raised /\ cache' = cache
      /\ Stmt.at \in DOMAIN repo.docs
  BY StmtType DEF Include, Proceeds
<1>2. Enters("include", Stmt.at, TargetNs(Stmt.at, Tns), 0, NoNs, TRUE, {})
  BY DEF Include
<1>3. SchemaStep /\ Pushes /\ stack' # <<>>
  <2> DEFINE at == Stmt.at
             tns == TargetNs(Stmt.at, Tns)
             b == TRUE
             provided == {}
  <2>1. /\ at \in DOMAIN repo.docs /\ b \in BOOLEAN /\ provided \in SUBSET Locs
        /\ Enters("include", at, tns, 0, NoNs, b, provided)
    BY <1>1, <1>2, Zenon
  <2>2. 0 \in 0..Len(wsdls) /\ "include" \in Hows
    BY LenProperties DEF TypeInv, Hows
  <2> HIDE DEF at, tns, provided, b
  <2> QED BY <1>1, <2>1, <2>2, LoadBegins
<1>4. CallerStep
  BY <1>1, <1>3, InLoadWaits
<1> QED BY <1>1, <1>3, <1>4 DEF Steady, CacheStep, StackStep

\* The innermost load is at the end of its document.
LEMMA EndType ==
  ASSUME TypeInv, AtEnd
  PROVE  /\ stack # <<>> /\ raised = Nothing /\ Me \in 1..Len(schemas)
         /\ Read = SetWhole(schemas, Me, TRUE)
         /\ AreSchemas(Read) /\ Len(Read) = Len(schemas)
         /\ Read[Me].whole /\ Read[Me].elements = schemas[Me].elements
         /\ \A i \in 1..Len(schemas) :
              /\ Read[i].imports = schemas[i].imports /\ Read[i].included = schemas[i].included
              /\ i # Me => Read[i] = schemas[i]
<1>1. stack # <<>> /\ raised = Nothing /\ Me \in 1..Len(schemas)
  BY TopType DEF AtEnd, Reading
<1>2. Read = SetWhole(schemas, Me, TRUE)
  BY Zenon DEF Read, SetWhole
<1>3. /\ Updates(schemas, Read, Me) /\ Read[Me].imports = schemas[Me].imports
      /\ Read[Me].included = schemas[Me].included /\ Read[Me].elements = schemas[Me].elements
      /\ Read[Me].whole
  BY <1>1, <1>2, TopRead
<1> QED BY <1>1, <1>2, <1>3 DEF Updates

\* Its schema is read; what raises then leaves the load where it is.
LEMMA ReadStep ==
  ASSUME TypeInv, AtEnd, schemas' = Read, Pops \/ (Stays /\ raised' = "other")
  PROVE  SchemaStep
<1>1. stack # <<>> /\ Me \in 1..Len(schemas) /\ schemas' = SetWhole(schemas, Me, TRUE)
  BY EndType
<1>2. /\ Updates(schemas, schemas', Me) /\ schemas'[Me].imports = schemas[Me].imports
      /\ schemas'[Me].included = schemas[Me].included
  BY <1>1, TopRead
<1> QED BY <1>1, <1>2, OwnSources, OneUpdate

LEMMA EndFailsSteady ==
  ASSUME TypeInv, EndFails
  PROVE  Steady
<1>1. /\ AtEnd /\ InLoad /\ cache' = cache /\ raised' = "other"
      /\ stack' = stack /\ schemas' = Read
  BY DEF EndFails, SetSchema, Raises
<1>2. stack # <<>> /\ raised = Nothing
  BY <1>1, EndType
<1>3. Stays
  BY <1>1, StackStays
<1>4. SchemaStep
  BY <1>1, <1>3, ReadStep
<1>5. CallerStep
  BY <1>1, <1>4, InLoadWaits
<1> QED BY <1>1, <1>2, <1>3, <1>4, <1>5 DEF Steady, CacheStep, StackStep

LEMMA EndRootSteady ==
  ASSUME TypeInv, EndRoot
  PROVE  Steady
<1>1. /\ AtEnd /\ cache' = cache /\ raised' = raised /\ stack' = Below /\ schemas' = Read
      /\ repo' = repo /\ inline' = inline /\ wsdls' = wsdls /\ loaded' = loaded \cup {Me}
  BY DEF EndRoot, SetSchema
<1>2. stack # <<>> /\ raised = Nothing /\ Me \in 1..Len(schemas)
  BY <1>1, EndType
<1>3. Pops
  BY <1>1, <1>2, StackPops
<1>4. SchemaStep /\ Len(schemas') = Len(schemas)
  BY <1>1, <1>3, EndType, ReadStep
<1>5. CallerStep
  <2>1. wsdls \in Seq([Ns -> Nat]) /\ Len(wsdls) \in Nat
    BY LenProperties DEF TypeInv
  <2> QED BY <1>1, <1>2, <1>4, <2>1 DEF CallerStep, TypeInv
<1> QED BY <1>1, <1>2, <1>3, <1>4, <1>5 DEF Steady, CacheStep, StackStep

LEMMA EndTypesSteady ==
  ASSUME TypeInv, AgreeInv, EndTypes
  PROVE  Steady
<1>1. /\ AtEnd /\ cache' = cache /\ raised' = raised /\ stack' = Below /\ schemas' = Read
      /\ repo' = repo /\ inline' = inline /\ loaded' = loaded \cup {Me}
      /\ Top.how = "types" /\ wsdls' = [wsdls EXCEPT ![Len(wsdls)][Tns] = Me]
  BY DEF EndTypes, SetSchema
<1>2. stack # <<>> /\ raised = Nothing /\ Me \in 1..Len(schemas)
  BY <1>1, EndType
<1>3. Pops
  BY <1>1, <1>2, StackPops
<1>4. SchemaStep /\ Len(schemas') = Len(schemas)
  BY <1>1, <1>3, EndType, ReadStep
<1>5. CallerStep
  <2> DEFINE w == Len(wsdls)
             x == [wsdls[w] EXCEPT ![Tns] = Me]
  <2>1. wsdls \in Seq([Ns -> Nat]) /\ Len(wsdls) \in Nat
    BY LenProperties DEF TypeInv
  <2>2. w \in 1..Len(wsdls)
    <3>1. Len(stack) \in 1..Len(stack)
      BY <1>2, TopType
    <3>2. schemas[Me].wsdl # 0
      BY <1>1, <3>1 DEF AgreeInv, InTypes, Me, Top
    <3>3. schemas[Me].wsdl \in Nat /\ schemas[Me].wsdl <= Len(wsdls)
      BY <1>2 DEF TypeInv, AreSchemas, IsSchema, Refers
    <3> QED BY <2>1, <3>2, <3>3
  <2>3. wsdls[w] \in [Ns -> Nat] /\ Me \in Nat
    BY <1>2, <2>1, <2>2, ElementOfSeq
  <2>4. x \in [Ns -> Nat] /\ \A n \in Ns : x[n] = wsdls[w][n] \/ x[n] = Me
    BY <2>3
  <2>5. wsdls' = [wsdls EXCEPT ![w] = x]
    BY <1>1
  <2> HIDE DEF x
  <2>6. /\ wsdls' \in Seq([Ns -> Nat]) /\ Len(wsdls') = Len(wsdls)
        /\ \A j \in 1..Len(wsdls) : wsdls'[j] = IF j = w THEN x ELSE wsdls[j]
    BY <2>1, <2>2, <2>4, <2>5, ExceptSeq
  <2>7. ASSUME NEW j \in 1..Len(wsdls'), NEW n \in Ns
        PROVE  \/ j \in 1..Len(wsdls) /\ wsdls'[j][n] = wsdls[j][n]
               \/ stack # <<>> /\ wsdls'[j][n] = Me /\ Top.how = "types" /\ j = Len(wsdls) /\ Pops
    BY <1>1, <1>2, <1>3, <2>4, <2>6
  <2>8. inline' \in Seq(DOMAIN repo.docs) /\ (inline' # <<>> => wsdls' # <<>>)
    <3>1. wsdls' # <<>>
      BY <2>2, <2>6, EmptySeq
    <3> QED BY <1>1, <3>1 DEF TypeInv
  <2>9. loaded' \subseteq 1..Len(schemas')
    BY <1>1, <1>2, <1>4 DEF TypeInv
  <2> HIDE DEF w
  <2>10. Len(wsdls) <= Len(wsdls')
    BY <2>1, <2>6
  <2> QED BY <1>1, <2>6, <2>7, <2>8, <2>9, <2>10 DEF CallerStep
<1> QED BY <1>1, <1>2, <1>3, <1>4, <1>5 DEF Steady, CacheStep, StackStep

LEMMA EndImportSteady ==
  ASSUME TypeInv, AgreeInv, EndImport
  PROVE  Steady
<1> DEFINE b == Below[Len(Below)].schema
           ns == Top.ns
<1>1. /\ AtEnd /\ InLoad /\ cache' = cache /\ Top.how = "import"
      /\ Adopt(Me, ns, Read, Below)
  BY DEF EndImport
<1>2. stack # <<>> /\ raised = Nothing /\ Me \in 1..Len(schemas)
  BY <1>1, EndType
<1>3. /\ Below # <<>> /\ b \in 1..Len(schemas) /\ b # Me
      /\ stack' = Advanced(Below) => Pops /\ stack' # <<>>
  BY <1>1, <1>2, BelowType
<1>4. cache[ns] = Me /\ ns \in Ns
  <2>1. Len(stack) \in 1..Len(stack)
    BY <1>2, TopType
  <2> QED BY <1>1, <2>1 DEF AgreeInv, Registered, TypeInv, IsStack, Me, Top
<1>5. CASE schemas' = Read /\ stack' = Below /\ raised' = "SchemaError"
  <2>1. Pops
    BY <1>2, <1>5, StackPops
  <2>2. SchemaStep
    BY <1>1, <1>5, <2>1, ReadStep
  <2>3. CallerStep
    BY <1>1, <2>2, InLoadWaits
  <2> QED BY <1>1, <1>3, <1>5, <2>1, <2>2, <2>3 DEF Steady, CacheStep, StackStep
<1>6. CASE schemas' = SetImport(Read, b, ns, Me) /\ stack' = Advanced(Below) /\ raised' = raised
  <2>1. Pops /\ stack' # <<>>
    BY <1>3, <1>6
  <2>2. SchemaStep
    <3> HIDE DEF b, ns
    <3>1. /\ AreSchemas(Read) /\ Len(Read) = Len(schemas) /\ Read = SetWhole(schemas, Me, TRUE)
          /\ Read[b].imports = schemas[b].imports /\ Read[b].included = schemas[b].included
      BY <1>1, <1>3, EndType
    <3>2. b \in 1..Len(Read) /\ Me \in Int
      BY <1>2, <1>3, <3>1
    <3>3. /\ Updates(Read, schemas', b)
          /\ schemas'[b].imports = [Read[b].imports EXCEPT ![ns] = Me]
          /\ schemas'[b].whole = Read[b].whole /\ schemas'[b].included = Read[b].included
      <4> DEFINE s == Read
                 c == Me
      <4>1. /\ AreSchemas(s) /\ b \in 1..Len(s) /\ c \in Int /\ ns \in Ns
            /\ schemas' = SetImport(s, b, ns, c)
        BY <1>4, <1>6, <3>1, <3>2
      <4> HIDE DEF s, c
      <4>2. /\ Updates(s, schemas', b)
            /\ schemas'[b].imports = [s[b].imports EXCEPT ![ns] = c]
            /\ schemas'[b].whole = s[b].whole /\ schemas'[b].included = s[b].included
        BY <4>1, ImportSet
      <4> QED BY <4>2 DEF s, c
    <3>4. ASSUME NEW n \in Ns
          PROVE  schemas'[b].imports[n] \in Sources(n)
      <4>1. schemas[b].imports \in [Ns -> Int]
        BY <1>3 DEF TypeInv, AreSchemas, IsSchema
      <4>2. CASE n = ns
        BY <1>4, <3>1, <3>3, <4>1, <4>2 DEF Sources
      <4>3. CASE n # ns
        <5>1. schemas'[b].imports[n] = schemas[b].imports[n]
          BY <3>1, <3>3, <4>1, <4>3
        <5> QED BY <1>3, <5>1, OwnSources
      <4> QED BY <4>2, <4>3
    <3> QED BY <1>2, <1>3, <2>1, <3>1, <3>3, <3>4, OwnSources, TwoUpdates
  <2>3. CallerStep
    BY <1>1, <2>2, InLoadWaits
  <2> QED BY <1>1, <1>2, <1>6, <2>1, <2>2, <2>3 DEF Steady, CacheStep, StackStep
<1> QED BY <1>1, <1>5, <1>6, Adopts

LEMMA EndIncludeSteady ==
  ASSUME TypeInv, EndInclude
  PROVE  Steady
<1> DEFINE b == Below[Len(Below)].schema
           at == Top.at
<1>1. /\ AtEnd /\ InLoad /\ cache' = cache /\ Top.how = "include"
      /\ Merge(Me, at, Read, Below)
  BY DEF EndInclude
<1>2. stack # <<>> /\ raised = Nothing /\ Me \in 1..Len(schemas)
  BY <1>1, EndType
<1>3. /\ Below # <<>> /\ b \in 1..Len(schemas) /\ b # Me
      /\ stack' = Advanced(Below) => Pops /\ stack' # <<>>
  BY <1>1, <1>2, BelowType
<1>4. at \in Locs
  BY <1>2, TopType DEF Frame
<1>5. CASE schemas' = Read /\ stack' = Below /\ raised' = "SchemaError"
  <2>1. Pops
    BY <1>2, <1>5, StackPops
  <2>2. SchemaStep
    BY <1>1, <1>5, <2>1, ReadStep
  <2>3. CallerStep
    BY <1>1, <2>2, InLoadWaits
  <2> QED BY <1>1, <1>3, <1>5, <2>1, <2>2, <2>3 DEF Steady, CacheStep, StackStep
<1>6. CASE schemas' = Merged(Read, b, at, Me) /\ stack' = Advanced(Below) /\ raised' = raised
  <2>1. Pops /\ stack' # <<>>
    BY <1>3, <1>6
  <2>2. SchemaStep
    <3> HIDE DEF b, at
    <3>1. /\ AreSchemas(Read) /\ Len(Read) = Len(schemas) /\ Read = SetWhole(schemas, Me, TRUE)
          /\ \A i \in 1..Len(schemas) :
               Read[i].imports = schemas[i].imports /\ Read[i].included = schemas[i].included
      BY <1>1, EndType
    <3>2. b \in 1..Len(Read) /\ Me \in 1..Len(Read)
      BY <1>2, <1>3, <3>1
    <3>3. /\ Updates(Read, schemas', b) /\ schemas'[b].whole = Read[b].whole
          /\ \A l \in Locs : schemas'[b].included[l] <= Len(schemas)
          /\ \A n \in Ns : schemas'[b].imports[n] \in Sources(n)
      <4> DEFINE s == Read
                 me == Me
      <4>1. /\ AreSchemas(s) /\ Len(s) = Len(schemas) /\ b \in 1..Len(s) /\ me \in 1..Len(s)
            /\ schemas' = Merged(s, b, at, me)
            /\ \A i \in 1..Len(schemas) :
                 s[i].imports = schemas[i].imports /\ s[i].included = schemas[i].included
        BY <1>6, <3>1, <3>2
      <4> HIDE DEF s, me
      <4>2. /\ Updates(s, schemas', b) /\ schemas'[b].whole = s[b].whole
            /\ \A l \in Locs : schemas'[b].included[l] <= Len(schemas)
            /\ \A n \in Ns : schemas'[b].imports[n] \in Sources(n)
        BY <1>4, <4>1, MergeImports
      <4> QED BY <4>2 DEF s
    <3> QED BY <1>2, <1>3, <2>1, <3>1, <3>3, TwoUpdates
  <2>3. CallerStep
    BY <1>1, <2>2, InLoadWaits
  <2> QED BY <1>1, <1>2, <1>6, <2>1, <2>2, <2>3 DEF Steady, CacheStep, StackStep
<1> QED BY <1>1, <1>5, <1>6, Merges

\* An import starts again with the URL of its document.
LEMMA RepeatSteady ==
  ASSUME TypeInv, Repeat
  PROVE  Steady
<1>1. /\ raised # Nothing /\ stack # <<>> /\ InLoad /\ cache' = cache /\ raised' = Nothing
      /\ stack' = Repeated(stack)
  BY DEF Repeat, SetSchema, TypeInv
<1>2. schemas' = SetWhole(schemas, Me, FALSE)
  BY Zenon DEF Repeat, SetSchema, SetWhole
<1>3. /\ Me \in 1..Len(schemas) /\ Updates(schemas, schemas', Me)
      /\ schemas'[Me].imports = schemas[Me].imports
      /\ schemas'[Me].included = schemas[Me].included /\ ~schemas'[Me].whole
  BY <1>1, <1>2, TopType, TopRepeats
<1>4. SchemaStep
  BY <1>3, OwnSources, OneUpdate
<1>5. Stays
  <2> DEFINE n == Len(stack)
             f == [[stack[n] EXCEPT !.next = 1] EXCEPT !.last = TRUE]
  <2>1. stack \in Seq(Frame) /\ n \in 1..n /\ stack[n] \in Frame
    BY <1>1, TopType DEF TypeInv, IsStack, Top
  <2>2. f \in Frame /\ SameFrame(stack[n], f)
    <3> DEFINE g == stack[n]
    <3>1. g \in Frame /\ f = [[g EXCEPT !.next = 1] EXCEPT !.last = TRUE]
      BY <2>1
    <3> HIDE DEF g
    <3>2. /\ [[g EXCEPT !.next = 1] EXCEPT !.last = TRUE] \in Frame
          /\ SameFrame(g, [[g EXCEPT !.next = 1] EXCEPT !.last = TRUE])
      <4>1. PICK y : y = [g EXCEPT !.next = 1]
        OBVIOUS
      <4>2. y \in Frame /\ SameFrame(g, y)
        BY <3>1, <4>1 DEF Frame, SameFrame
      <4>3. [y EXCEPT !.last = TRUE] \in Frame /\ SameFrame(y, [y EXCEPT !.last = TRUE])
        BY <4>2 DEF Frame, SameFrame
      <4> QED BY <4>1, <4>2, <4>3 DEF SameFrame
    <3> QED BY <3>1, <3>2, Zenon DEF g
  <2>3. stack' = [stack EXCEPT ![n] = f]
    BY <1>1 DEF Repeated
  <2> HIDE DEF f
  <2>4. /\ stack' \in Seq(Frame) /\ Len(stack') = n
        /\ \A j \in 1..n : stack'[j] = IF j = n THEN f ELSE stack[j]
    BY <2>1, <2>2, <2>3, ExceptSeq
  <2>5. \A j \in 1..n : SameFrame(stack[j], stack'[j])
    BY <2>2, <2>4 DEF SameFrame
  <2> QED BY <2>4, <2>5 DEF Stays, SameFrames
<1>6. CallerStep
  BY <1>1, <1>4, InLoadWaits
<1>7. raised' # "other"
  BY <1>1 DEF Nothing
<1> QED BY <1>1, <1>3, <1>4, <1>5, <1>6, <1>7 DEF Steady, CacheStep, StackStep

LEMMA WithdrawSteady ==
  ASSUME TypeInv, Withdraw
  PROVE  Steady
<1> DEFINE b == Below[Len(Below)].schema
<1>1. /\ raised = "SchemaError" /\ stack # <<>> /\ Top.how = "import" /\ InLoad
      /\ raised' = Nothing /\ stack' = Advanced(Below)
      /\ cache' = [cache EXCEPT ![Top.ns] = None]
      /\ schemas' = Postponed(schemas, b, Top.ns)
  BY DEF Withdraw, SetSchema, TypeInv, Nothing
<1>2. /\ Below # <<>> /\ b \in 1..Len(schemas) /\ b # Me /\ Pops /\ stack' # <<>>
  BY <1>1, BelowType
<1>3. AreSchemas(schemas) /\ Me \in 1..Len(schemas) /\ Top.ns \in Ns
  <2>1. Len(stack) \in 1..Len(stack)
    BY <1>1, TopType
  <2> QED BY <1>1, <2>1, TopType DEF TypeInv, IsStack, Top
<1>4. SchemaStep /\ schemas'[Me].whole = schemas[Me].whole
  <2> DEFINE ns == Top.ns
  <2>1. ns \in Ns /\ schemas' = Postponed(schemas, b, ns)
    BY <1>1, <1>3
  <2> HIDE DEF b, ns
  <2>2. /\ Updates(schemas, schemas', b)
        /\ schemas'[b].imports = [schemas[b].imports EXCEPT ![ns] = Lazy]
        /\ schemas'[b].whole = schemas[b].whole /\ schemas'[b].included = schemas[b].included
    BY <1>2, <1>3, <2>1, ImportPostponed, SMTT(40)
  <2>3. Lazy \in Int /\ Lazy \in Sources(ns)
    BY DEF Lazy, Sources
  <2>4. SchemaStep
    BY <1>2, <2>1, <2>2, <2>3, ImportStep
  <2> QED BY <1>2, <1>3, <2>2, <2>4 DEF Updates
<1>5. Withdraws
  BY <1>1, <1>2, <1>4 DEF Withdraws
<1>6. CallerStep
  BY <1>1, <1>4, InLoadWaits
<1> QED BY <1>1, <1>2, <1>4, <1>5, <1>6 DEF Steady, CacheStep, StackStep

LEMMA EscapeSteady ==
  ASSUME TypeInv, Escape
  PROVE  Steady
<1>1. /\ raised # Nothing /\ stack # <<>> /\ stack' = Below /\ cache' = cache
      /\ schemas' = schemas /\ raised' = Delivered
      /\ raised \in {"SchemaError", "other"}
  BY DEF Escape, TypeInv
<1>2. SchemaStep /\ Pops
  BY <1>1, NoUpdate, StackPops
<1>3. raised' \in {Nothing, "SchemaError", "other"} /\ (raised' # Nothing => stack' # <<>>)
  <2>1. CASE Len(stack) = 1
    BY <1>1, <2>1 DEF Delivered
  <2>2. CASE Len(stack) # 1
    BY <1>1, <2>2, BelowType DEF Delivered
  <2> QED BY <2>1, <2>2
<1>4. CallerStep
  <2>1. CASE InLoad
    BY <1>2, <2>1, InLoadWaits
  <2>2. CASE ~InLoad
    <3>1. repo' = repo /\ wsdls' = wsdls /\ inline' = <<>> /\ loaded' \subseteq loaded
      BY <2>2 DEF Escape
    <3>2. wsdls \in Seq([Ns -> Nat]) /\ Len(wsdls) \in Nat /\ loaded \subseteq 1..Len(schemas')
      BY <1>1, LenProperties DEF TypeInv
    <3>3. inline' \in Seq(DOMAIN repo.docs) /\ ~(inline' # <<>>)
      BY <3>1
    <3> QED BY <3>1, <3>2, <3>3 DEF CallerStep
  <2> QED BY <2>1, <2>2
<1> QED BY <1>1, <1>2, <1>3, <1>4 DEF Steady, CacheStep, StackStep

LEMMA ItemSteady ==
  ASSUME TypeInv, NEW i \in DOMAIN schemas, NEW ns \in Ns, getSchemaItem(i, ns)
  PROVE  Steady
<1> DEFINE c == LazyTarget(i, ns)
<1>1. /\ stack = <<>> /\ raised = Nothing /\ raised' = raised /\ cache' = cache
      /\ stack' = stack /\ ~LazyFails(i, ns) /\ IsLazy(i, ns)
  BY DEF getSchemaItem, Idle, TypeInv
<1>2. schemas' = SetImport(schemas, i, ns, c)
  BY Zenon DEF getSchemaItem, SetImport
<1>3. AreSchemas(schemas) /\ i \in 1..Len(schemas)
  BY DEF TypeInv, AreSchemas
<1>4. c \in Int /\ c \in Sources(ns)
  <2>1. cache[ns] \in Int /\ cache[ns] \in Sources(ns)
    BY DEF TypeInv, Sources
  <2>2. CASE cache[ns] = None
    <3> DEFINE w == schemas[i].wsdl
    <3>1. w # 0 /\ c = wsdls[w][ns]
      BY <1>1, <2>2 DEF LazyFails, LazyTarget
    <3>2. w \in Nat /\ w <= Len(wsdls) /\ wsdls \in Seq([Ns -> Nat]) /\ Len(wsdls) \in Nat
      BY <1>3, LenProperties DEF TypeInv, AreSchemas, IsSchema, Refers
    <3> HIDE DEF w, c
    <3>3. w \in 1..Len(wsdls)
      BY <3>1, <3>2
    <3>4. wsdls[w] \in [Ns -> Nat]
      BY <3>2, <3>3, ElementOfSeq
    <3> QED BY <1>1, <3>1, <3>3, <3>4 DEF Sources
  <2> QED BY <2>1, <2>2 DEF LazyTarget
<1>5. SchemaStep
  <2> HIDE DEF c
  <2>1. /\ Updates(schemas, schemas', i)
        /\ schemas'[i].imports = [schemas[i].imports EXCEPT ![ns] = c]
        /\ schemas'[i].whole = schemas[i].whole /\ schemas'[i].included = schemas[i].included
    BY <1>2, <1>3, <1>4, ImportSet
  <2> QED BY <1>3, <1>4, <2>1, ImportStep
<1>6. Stays
  BY <1>1, StackStays
<1>7. CallerStep
  BY <1>5, CallersWait DEF getSchemaItem
<1> QED BY <1>1, <1>5, <1>6, <1>7 DEF Steady, CacheStep, StackStep

LEMMA NextSteady ==
  ASSUME TypeInv, AgreeInv, Next
  PROVE  Steady
<1>1. CASE Malformed
  <2>1. stack # <<>> /\ raised = Nothing
    BY <1>1, StmtType DEF Malformed
  <2> QED BY <1>1, <2>1, RaiseSteady DEF Malformed, Raises
<1>2. CASE ImportRefused
  <2>1. stack # <<>> /\ raised = Nothing
    BY <1>2, StmtType DEF ImportRefused
  <2> QED BY <1>2, <2>1, RaiseSteady DEF ImportRefused, Raises
<1>3. CASE IncludeFails
  <2>1. stack # <<>> /\ raised = Nothing
    BY <1>3, StmtType DEF IncludeFails
  <2> QED BY <1>3, <2>1, RaiseSteady DEF IncludeFails, Raises
<1>4. CASE Steps
  BY <1>1, <1>2, <1>3, <1>4, ElementSteady, ImportCachedSteady, ImportUnlocatedSteady,
     ImportUnreadableSteady, ImportSteady, IncludeAgainSteady, IncludeSteady, EndFailsSteady,
     EndRootSteady, EndTypesSteady, EndImportSteady, EndIncludeSteady, RepeatSteady,
     WithdrawSteady, EscapeSteady DEF Steps
<1> QED BY <1>4, LoadSteady, LoadTypesSteady, LoadFromNodeSteady, ItemSteady DEF Next

------------------------------------------------------------------------------
\* What the schemas know of the documents they were read from.

\* A statement was read into a schema.
Settled(x, t) ==
  /\ t.do = "element" => t.name \in x.elements
  /\ t.do = "import" => t.ns \in Ns /\ x.imports[t.ns] # None
  /\ t.do = "include" => t.at \in Locs /\ x.included[t.at] # None

\* x has what y has, and an import for each of those of y.
Covers(x, y) ==
  /\ y.elements \subseteq x.elements
  /\ \A n \in Ns : y.imports[n] # None => x.imports[n] # None

\* The schemas that are being read.
Open == {stack[k].schema : k \in 1..Len(stack)}

StmtOf(f) == repo.docs[f.at].stmts[f.next]

Placed == \A k \in 1..Len(stack) : schemas[stack[k].schema].at = stack[k].at

\* A load has settled the statements before the one it is at.
ReadSoFar ==
  \A k \in 1..Len(stack) : \A p \in 1..(stack[k].next - 1) :
    Settled(schemas[stack[k].schema], repo.docs[stack[k].at].stmts[p])

\* A load that waits for another is at the statement the other is for.
Calling ==
  \A k \in 1..(Len(stack) - 1) :
    /\ StmtOf(stack[k]) \in StmtsOf(stack[k].at)
    /\ StmtOf(stack[k]).do = stack[k + 1].how
    /\ stack[k + 1].how = "import" => StmtOf(stack[k]).ns = stack[k + 1].ns
    /\ stack[k + 1].how = "include" => StmtOf(stack[k]).at = stack[k + 1].at

\* A schema that was read to the end has settled every statement.
ReadThrough ==
  \A i \in 1..Len(schemas) : schemas[i].whole =>
    /\ schemas[i].at \in DOMAIN repo.docs
    /\ \A t \in StmtsOf(schemas[i].at) : Settled(schemas[i], t)

\* What a schema includes was read to the end, and it has all of it.
Taken ==
  \A i \in 1..Len(schemas), l \in Locs :
    LET c == schemas[i].included[l] IN
    c # None =>
      /\ c \in 1..Len(schemas) /\ c \notin Open
      /\ schemas[c].whole /\ schemas[c].at = l
      /\ Covers(schemas[i], schemas[c])

\* It has no elements but those of its documents.
Sound ==
  \A i \in 1..Len(schemas) : \A name \in schemas[i].elements :
    \E t \in Included(schemas[i].at) : t.do = "element" /\ t.name = name

Given == \A i \in loaded : schemas[i].whole /\ i \notin Open

ReadInv == Placed /\ ReadSoFar /\ Calling /\ ReadThrough /\ Taken /\ Sound /\ Given

------------------------------------------------------------------------------
\* Where imports lead.

\* To a schema that is registered, and can no longer be withdrawn.
Firm(n, c) == cache[n] = c /\ c \notin Open

\* All schemas of a WSDL were read, or its reading has failed.
Complete(w) ==
  w < Len(wsdls) \/ (inline = <<>> /\ (stack # <<>> => stack[1].how # "types"))

Leading == \A i \in 1..Len(schemas), n \in Ns : schemas[i].imports[n] \in Nat \cup {Lazy}

\* No import in between: nothing that encloses the load can be withdrawn.
Outside(k) == \A j \in 1..k : stack[j].how # "import"
OutsideFirm ==
  \A k \in 1..Len(stack) : Outside(k) =>
    \A n \in Ns : LET c == schemas[stack[k].schema].imports[n] IN c > 0 => Firm(n, c)

InlineFirm ==
  \A i \in 1..Len(schemas) : schemas[i].wsdl # 0 /\ i \notin Open =>
    \A n \in Ns :
      LET c == schemas[i].imports[n] IN
      c > 0 => Firm(n, c) \/ (c = wsdls[schemas[i].wsdl][n] /\ Complete(schemas[i].wsdl))

InlineFrames ==
  \A k \in 1..Len(stack) : schemas[stack[k].schema].wsdl # 0 => stack[k].how = "types"

MeetInv == Leading /\ OutsideFirm /\ InlineFirm /\ InlineFrames

------------------------------------------------------------------------------
\* What a step makes of it.

Grows(x, y) ==
  /\ x.elements \subseteq y.elements
  /\ \A n \in Ns : x.imports[n] # None => y.imports[n] # None
  /\ \A l \in Locs : x.included[l] # None => y.included[l] # None

Rests(x, y) ==
  /\ y.elements = x.elements /\ y.included = x.included /\ y.whole = x.whole
  /\ \A n \in Ns : y.imports[n] # None => x.imports[n] # None

\* The schema of the load that waits for the innermost one.
Outer == Below[Len(Below)].schema

\* Where an element, an included schema and the schema of an import come from.
Tells(t, name) ==
  \/ t.do = "element" /\ t.name = name
  \/ /\ t.do = "include"
     /\ \E c \in 1..Len(schemas) : schemas[c].at = t.at /\ name \in schemas[c].elements

Takes(i, l, c) ==
  /\ Pops /\ c = Me /\ schemas'[c].whole /\ schemas[c].at = l
  /\ Covers(schemas'[i], schemas'[c])

Finds(i, n, c) ==
  \/ stack # <<>> /\ i = Me /\ Stays /\ c = cache[n] /\ cache' = cache
  \/ Pops /\ Top.how = "import" /\ c = Me /\ cache[n] = c /\ cache' = cache
  \/ Pops /\ Top.how = "include" /\ i = Outer /\ c = schemas[Me].imports[n] /\ cache' = cache
  \/ /\ Idle /\ Stays /\ cache' = cache
     /\ c = cache[n] \/ (schemas[i].wsdl # 0 /\ c = wsdls[schemas[i].wsdl][n])

Learns(i) ==
  /\ Grows(schemas[i], schemas'[i])
  /\ i \notin Open => Rests(schemas[i], schemas'[i])
  /\ schemas'[i].whole => schemas[i].whole \/ (AtEnd /\ i = Me)
  /\ \A name \in schemas'[i].elements :
       name \in schemas[i].elements \/ \E t \in StmtsOf(schemas[i].at) : Tells(t, name)
  /\ \A l \in Locs : LET c == schemas'[i].included[l] IN
       c # None => c = schemas[i].included[l] \/ Takes(i, l, c)
  /\ \A n \in Ns : LET c == schemas'[i].imports[n] IN
       c > 0 => c = schemas[i].imports[n] \/ Finds(i, n, c)

\* A load stays where it is, starts again, or has settled a statement.
Moves(k) ==
  \/ stack'[k].next = stack[k].next
  \/ k = Len(stack') /\ stack'[k].next = 1
  \/ /\ k = Len(stack') /\ stack'[k].next = stack[k].next + 1
     /\ Settled(schemas'[stack[k].schema], StmtOf(stack[k]))

\* The statement the innermost load is at is the one that a load f is for.
IsFor(f) ==
  /\ StmtOf(Top) \in StmtsOf(Top.at) /\ StmtOf(Top).do = f.how
  /\ f.how = "import" => StmtOf(Top).ns = f.ns
  /\ f.how = "include" => StmtOf(Top).at = f.at

Begins ==
  Len(stack') > Len(stack) =>
    LET f == stack'[Len(stack) + 1] IN
    /\ f.next = 1 /\ schemas'[f.schema].at = f.at
    /\ schemas'[f.schema].wsdl # 0 => f.how = "types"
    /\ f.how = "types" => inline # <<>>
    /\ stack # <<>> => IsFor(f)

CallersLearn ==
  /\ \A i \in loaded' : i \in loaded \/ (Pops /\ i = Me /\ schemas'[i].whole)
  /\ \A w \in 1..Len(wsdls), n \in Ns :
       wsdls'[w][n] = wsdls[w][n] \/ (stack # <<>> /\ Top.how = "types" /\ w = Len(wsdls))
  /\ inline = <<>> => inline' = <<>> \/ Len(wsdls') > Len(wsdls)

SchemasLearn ==
  /\ \A i \in 1..Len(schemas) : Learns(i)
  /\ \A i \in (Len(schemas) + 1)..Len(schemas') : schemas'[i].elements = {}

FramesLearn == Begins /\ \A k \in 1..Len(stack) : k <= Len(stack') => Moves(k)

Informed == SchemasLearn /\ FramesLearn /\ CallersLearn

------------------------------------------------------------------------------
\* Such a step keeps what is known.

LEMMA Lengths ==
  ASSUME TypeInv, Steady
  PROVE  /\ Len(schemas) \in Nat /\ Len(schemas') \in Nat /\ Len(schemas) <= Len(schemas')
         /\ Len(stack) \in Nat /\ Len(stack') \in Nat
         /\ repo' = repo
         /\ \A i \in 1..Len(schemas') : i \in 1..Len(schemas) \/ i \in (Len(schemas) + 1)..Len(schemas')
         /\ Pushes => Len(stack') > Len(stack)
<1>1. /\ Len(schemas) \in Nat /\ Len(schemas') \in Nat /\ Len(schemas) <= Len(schemas')
      /\ Len(stack) \in Nat /\ repo' = repo
  BY LenProperties DEF TypeInv, IsStack, Steady, SchemaStep, AreSchemas, CallerStep
<1>2. stack' \in Seq(Frame)
  BY DEF Steady, StackStep, Stays, Pops, Pushes, SameFrames
<1>3. Len(stack') \in Nat
  BY <1>2, LenProperties
<1>4. Pushes => Len(stack') > Len(stack)
  BY <1>1 DEF Pushes
<1> QED BY <1>1, <1>3, <1>4

\* The schemas that are read are those that were, and a new one.
LEMMA OpenStep ==
  ASSUME TypeInv, Steady, NEW c \in 1..Len(schemas)
  PROVE  /\ c \in Open' => c \in Open
         /\ Pops /\ c = Me => c \notin Open'
<1>1. ASSUME c \in Open'
      PROVE  c \in Open /\ ~(Pops /\ c = Me)
  <2>1. PICK k \in 1..Len(stack') : c = stack'[k].schema
    BY <1>1 DEF Open
  <2>2. ~(k = Len(stack) + 1 /\ Pushes)
    <3>1. k = Len(stack) + 1 /\ Pushes => c = Len(schemas) + 1
      BY <2>1 DEF Pushes
    <3> QED BY <3>1, Lengths
  <2>3. k \in 1..Len(stack) /\ stack[k].schema = c /\ (Pops => k # Len(stack))
    BY <2>1, <2>2, FrameKept DEF SameFrame
  <2>4. ASSUME Pops, c = Me
        PROVE  FALSE
    <3>1. Len(stack) \in 1..Len(stack) /\ k \in 1..(Len(stack) - 1)
      BY <2>3, <2>4, Lengths
    <3>2. stack[k].schema < stack[Len(stack)].schema
      BY <3>1 DEF TypeInv, IsStack
    <3> QED BY <2>3, <2>4, <3>2 DEF Me, Top
  <2> QED BY <2>3, <2>4 DEF Open
<1> QED BY <1>1

\* What is settled stays so.
LEMMA SettledGrows ==
  ASSUME NEW x, NEW y, Grows(x, y), NEW t, Settled(x, t)
  PROVE  Settled(y, t)
BY DEF Grows, Settled

\* Documents do not change.
LEMMA SameDocuments ==
  ASSUME repo' = repo
  PROVE  \A at : StmtsOf(at)' = StmtsOf(at) /\ Included(at)' = Included(at)
<1>1. \A l : StmtsOf(l)' = StmtsOf(l)
  BY DEF StmtsOf
<1>2. \A ls : Closed(ls)' = Closed(ls)
  BY <1>1 DEF Closed
<1>3. \A at : Reach(at)' = Reach(at)
  BY <1>2 DEF Reach
<1>4. \A at : Included(at)' = Included(at)
  BY <1>1, <1>3 DEF Included
<1> QED BY <1>1, <1>4

LEMMA PlacedStep ==
  ASSUME TypeInv, Steady, Informed, Placed
  PROVE  Placed'
<1> SUFFICES ASSUME NEW k \in 1..Len(stack')
             PROVE  schemas'[stack'[k].schema].at = stack'[k].at
  BY DEF Placed
<1>1. CASE k \in 1..Len(stack) /\ SameFrame(stack[k], stack'[k])
  <2>1. stack[k].schema \in 1..Len(schemas) /\ schemas[stack[k].schema].at = stack[k].at
    BY <1>1 DEF TypeInv, IsStack, Placed
  <2>2. schemas'[stack[k].schema].at = schemas[stack[k].schema].at
    BY <2>1 DEF Steady, SchemaStep, Develops
  <2> QED BY <1>1, <2>1, <2>2 DEF SameFrame
<1>2. CASE k = Len(stack) + 1 /\ Pushes
  BY <1>2, Lengths DEF Informed, FramesLearn, Begins
<1> QED BY <1>1, <1>2, FrameKept

LEMMA ReadSoFarStep ==
  ASSUME TypeInv, Steady, Informed, ReadSoFar
  PROVE  ReadSoFar'
<1> SUFFICES ASSUME NEW k \in 1..Len(stack'), NEW p \in 1..(stack'[k].next - 1)
             PROVE  Settled(schemas'[stack'[k].schema], repo'.docs[stack'[k].at].stmts[p])
  BY DEF ReadSoFar, Settled
<1>1. CASE k \in 1..Len(stack) /\ SameFrame(stack[k], stack'[k])
  <2> DEFINE t == repo.docs[stack[k].at].stmts[p]
             x == schemas[stack[k].schema]
             y == schemas'[stack[k].schema]
  <2>1. stack[k].schema \in 1..Len(schemas) /\ stack[k] \in Frame
    BY <1>1, ElementOfSeq DEF TypeInv, IsStack
  <2>2. Grows(x, y)
    BY <2>1 DEF Informed, SchemasLearn, Learns
  <2>3. p \in 1..(stack[k].next - 1) => Settled(x, t)
    BY <1>1 DEF ReadSoFar
  <2>4. p \in 1..(stack[k].next - 1) => Settled(y, t)
    <3> HIDE DEF x, y, t
    <3> QED BY <2>2, <2>3, SettledGrows
  <2>5. CASE stack'[k].next = stack[k].next + 1 /\ Settled(y, StmtOf(stack[k]))
    <3>1. p \in 1..(stack[k].next - 1) \/ p = stack[k].next
      BY <2>1, <2>5 DEF Frame
    <3> QED BY <1>1, <2>4, <2>5, <3>1, Lengths DEF SameFrame, StmtOf
  <2>6. CASE stack'[k].next = 1
    BY <2>6
  <2>7. k <= Len(stack')
    BY Lengths
  <2>8. Moves(k)
    BY <1>1, <2>7 DEF Informed, FramesLearn
  <2> QED BY <1>1, <2>4, <2>5, <2>6, <2>8, Lengths DEF Moves, SameFrame
<1>2. CASE k = Len(stack) + 1 /\ Pushes
  <2>1. stack'[k].next = 1
    BY <1>2, Lengths DEF Informed, FramesLearn, Begins
  <2> QED BY <2>1
<1> QED BY <1>1, <1>2, FrameKept

LEMMA CallingStep ==
  ASSUME TypeInv, Steady, Informed, Calling
  PROVE  Calling'
<1> SUFFICES ASSUME NEW k \in 1..(Len(stack') - 1)
             PROVE  /\ StmtOf(stack[k])' \in StmtsOf(stack[k].at)'
                    /\ StmtOf(stack[k])'.do = stack'[k + 1].how
                    /\ stack'[k + 1].how = "import" => StmtOf(stack[k])'.ns = stack'[k + 1].ns
                    /\ stack'[k + 1].how = "include" => StmtOf(stack[k])'.at = stack'[k + 1].at
  BY DEF Calling
<1>1. k \in 1..Len(stack') /\ k + 1 \in 1..Len(stack') /\ k # Len(stack')
  BY Lengths
<1>2. k \in 1..Len(stack) /\ SameFrame(stack[k], stack'[k]) /\ stack'[k].next = stack[k].next
  <2>1. k # Len(stack) + 1
    <3>1. CASE k = Len(stack) + 1 /\ Pushes
      BY <1>1, <3>1 DEF Pushes
    <3> QED BY <1>1, <3>1, FrameKept, Lengths
  <2>2. k \in 1..Len(stack) /\ SameFrame(stack[k], stack'[k])
    BY <1>1, <2>1, FrameKept
  <2>3. k <= Len(stack')
    BY <1>1, Lengths
  <2>4. Moves(k)
    BY <2>2, <2>3 DEF Informed, FramesLearn
  <2> QED BY <1>1, <2>2, <2>4 DEF Moves
<1>3. stack'[k].at = stack[k].at /\ stack[k].at = stack'[k].at
  BY <1>2 DEF SameFrame
<1>4. StmtOf(stack[k])' = StmtOf(stack[k])
  BY <1>2, <1>3, Lengths DEF StmtOf
<1>5. StmtsOf(stack[k].at)' = StmtsOf(stack[k].at)
  BY <1>3, Lengths DEF StmtsOf
<1>6. CASE k + 1 \in 1..Len(stack) /\ SameFrame(stack[k + 1], stack'[k + 1])
  <2>1. k \in 1..(Len(stack) - 1)
    BY <1>2, <1>6, Lengths
  <2>2. /\ StmtOf(stack[k]) \in StmtsOf(stack[k].at)
        /\ StmtOf(stack[k]).do = stack[k + 1].how
        /\ stack[k + 1].how = "import" => StmtOf(stack[k]).ns = stack[k + 1].ns
        /\ stack[k + 1].how = "include" => StmtOf(stack[k]).at = stack[k + 1].at
    BY <2>1 DEF Calling
  <2>3. /\ stack'[k + 1].how = stack[k + 1].how /\ stack'[k + 1].ns = stack[k + 1].ns
        /\ stack'[k + 1].at = stack[k + 1].at
    BY <1>6 DEF SameFrame
  <2> QED BY <1>4, <1>5, <2>2, <2>3
<1>7. CASE k + 1 = Len(stack) + 1 /\ Pushes
  <2>1. k = Len(stack) /\ stack # <<>>
    BY <1>2, <1>7, Lengths
  <2>2. IsFor(stack'[k + 1])
    BY <1>7, <2>1, Lengths DEF Informed, FramesLearn, Begins
  <2>3. Top = stack[k]
    BY <2>1 DEF Top
  <2> QED BY <1>4, <1>5, <2>2, <2>3 DEF IsFor
<1> QED BY <1>1, <1>6, <1>7, FrameKept

\* At the end of a document all of it is settled.
LEMMA EndSettled ==
  ASSUME TypeInv, Placed, ReadSoFar, AtEnd
  PROVE  /\ schemas[Me].at \in DOMAIN repo.docs
         /\ \A t \in StmtsOf(schemas[Me].at) : Settled(schemas[Me], t)
<1>1. stack # <<>> /\ Top.next > Len(Stmts)
  BY DEF AtEnd, Reading
<1>2. Len(stack) \in 1..Len(stack) /\ Top \in Frame /\ Top.at \in DOMAIN repo.docs
  BY <1>1, TopType
<1>3. schemas[Me].at = Top.at
  BY <1>2 DEF Placed, Me, Top
<1>4. Stmts \in Seq(Statement)
  BY <1>2, LoadingAssumption DEF TypeInv, AnyRepository, Document, Stmts
<1>5. ASSUME NEW t \in StmtsOf(schemas[Me].at)
      PROVE  Settled(schemas[Me], t)
  <2>1. PICK p \in DOMAIN Stmts : t = Stmts[p]
    BY <1>2, <1>3, <1>5 DEF StmtsOf, Stmts
  <2>2. p \in 1..(Top.next - 1)
    BY <1>1, <1>2, <1>4, <2>1, LenProperties DEF Frame
  <2> QED BY <1>2, <2>1, <2>2 DEF ReadSoFar, Me, Top, Stmts
<1> QED BY <1>2, <1>3, <1>5

LEMMA ReadThroughStep ==
  ASSUME TypeInv, Steady, Informed, Placed, ReadSoFar, ReadThrough
  PROVE  ReadThrough'
<1> SUFFICES ASSUME NEW i \in 1..Len(schemas'), schemas'[i].whole
             PROVE  /\ schemas'[i].at \in DOMAIN repo'.docs
                    /\ \A t \in StmtsOf(schemas[i].at)' : Settled(schemas'[i], t)
  BY DEF ReadThrough, Settled
<1>1. i \in 1..Len(schemas)
  <2>1. i \notin (Len(schemas) + 1)..Len(schemas')
    BY DEF Steady, SchemaStep
  <2> QED BY <2>1, Lengths
<1>2. Learns(i) /\ schemas'[i].at = schemas[i].at
  BY <1>1 DEF Informed, SchemasLearn, Steady, SchemaStep, Develops
<1>3. StmtsOf(schemas[i].at)' = StmtsOf(schemas[i].at)
  BY <1>2, Lengths DEF StmtsOf
<1>4. schemas[i].at \in DOMAIN repo.docs /\ \A t \in StmtsOf(schemas[i].at) : Settled(schemas[i], t)
  <2>1. CASE schemas[i].whole
    BY <1>1, <2>1 DEF ReadThrough
  <2>2. CASE AtEnd /\ i = Me
    BY <2>2, EndSettled
  <2> QED BY <1>2, <2>1, <2>2 DEF Learns
<1>5. ASSUME NEW t, Settled(schemas[i], t)
      PROVE  Settled(schemas'[i], t)
  <2> DEFINE x == schemas[i]
             y == schemas'[i]
  <2>1. Grows(x, y) /\ Settled(x, t)
    BY <1>2, <1>5 DEF Learns
  <2> HIDE DEF x, y
  <2>2. Settled(y, t)
    BY <2>1, SettledGrows
  <2> QED BY <2>2 DEF y
<1> QED BY <1>2, <1>3, <1>4, <1>5, Lengths

LEMMA CoversGrows ==
  ASSUME NEW x, NEW y, NEW x2, NEW y2, Covers(x, y), Grows(x, x2), Rests(y, y2)
  PROVE  Covers(x2, y2)
BY DEF Covers, Grows, Rests

LEMMA TakenStep ==
  ASSUME TypeInv, Steady, Informed, Taken
  PROVE  Taken'
<1> SUFFICES ASSUME NEW i \in 1..Len(schemas'), NEW l \in Locs,
                    NEW c, c = schemas'[i].included[l], c # None
             PROVE  /\ c \in 1..Len(schemas') /\ c \notin Open'
                    /\ schemas'[c].whole /\ schemas'[c].at = l
                    /\ Covers(schemas'[i], schemas'[c])
  BY DEF Taken, Covers
<1>1. i \in 1..Len(schemas)
  <2>1. i \notin (Len(schemas) + 1)..Len(schemas')
    BY DEF Steady, SchemaStep
  <2> QED BY <2>1, Lengths
<1>2. Learns(i)
  BY <1>1 DEF Informed, SchemasLearn
<1>3. CASE c = schemas[i].included[l]
  <2>1. /\ c \in 1..Len(schemas) /\ c \notin Open /\ schemas[c].whole /\ schemas[c].at = l
        /\ Covers(schemas[i], schemas[c])
    BY <1>1, <1>3 DEF Taken
  <2>2. Rests(schemas[c], schemas'[c]) /\ schemas'[c].at = schemas[c].at
    BY <2>1 DEF Informed, SchemasLearn, Learns, Steady, SchemaStep, Develops
  <2>3. c \notin Open' /\ c \in 1..Len(schemas')
    BY <2>1, OpenStep, Lengths
  <2>4. Covers(schemas'[i], schemas'[c])
    <3> DEFINE x == schemas[i]
               y == schemas[c]
               x2 == schemas'[i]
               y2 == schemas'[c]
    <3>1. Covers(x, y) /\ Grows(x, x2) /\ Rests(y, y2)
      BY <1>2, <2>1, <2>2 DEF Learns
    <3> HIDE DEF x, y, x2, y2
    <3>2. Covers(x2, y2)
      BY <3>1, CoversGrows
    <3> QED BY <3>2 DEF x2, y2
  <2>5. schemas'[c].whole
    BY <2>1, <2>2 DEF Rests
  <2> QED BY <2>1, <2>2, <2>3, <2>4, <2>5
<1>4. CASE Takes(i, l, c)
  <2>1. Pops /\ c = Me /\ c \in 1..Len(schemas)
    BY <1>4, TopType DEF Takes, Pops
  <2>2. c \in 1..Len(schemas') /\ c \notin Open'
    BY <2>1, OpenStep, Lengths
  <2>3. schemas'[c].at = schemas[c].at
    BY <2>1 DEF Steady, SchemaStep, Develops
  <2> QED BY <1>4, <2>2, <2>3 DEF Takes
<1> QED BY <1>2, <1>3, <1>4 DEF Learns

LEMMA GivenStep ==
  ASSUME TypeInv, Steady, Informed, Given
  PROVE  Given'
<1> SUFFICES ASSUME NEW i \in loaded'
             PROVE  schemas'[i].whole /\ i \notin Open'
  BY DEF Given
<1>1. CASE i \in loaded
  <2>1. i \in 1..Len(schemas) /\ i \notin Open /\ schemas[i].whole
    BY <1>1 DEF Given, TypeInv
  <2>2. Rests(schemas[i], schemas'[i])
    BY <2>1 DEF Informed, SchemasLearn, Learns
  <2> QED BY <2>1, <2>2, OpenStep DEF Rests
<1>2. CASE Pops /\ i = Me /\ schemas'[i].whole
  <2>1. i \in 1..Len(schemas)
    BY <1>2, TopType DEF Pops
  <2> QED BY <1>2, <2>1, OpenStep
<1> QED BY <1>1, <1>2 DEF Informed, CallersLearn

\* A document's own statements, and those of the documents it includes.
LEMMA IncludedOwn ==
  ASSUME TypeInv, NEW at, NEW t \in StmtsOf(at)
  PROVE  t \in Included(at)
<1>1. at \in DOMAIN repo.docs
  BY DEF StmtsOf
<1>2. at \in Locs
  BY <1>1, LoadingAssumption DEF TypeInv, AnyRepository
<1>3. at \in Reach(at)
  BY <1>2 DEF Reach
<1> QED BY <1>3 DEF Included

LEMMA IncludedInto ==
  ASSUME NEW at, NEW t \in StmtsOf(at), t.do = "include"
  PROVE  Included(t.at) \subseteq Included(at)
<1>1. ASSUME NEW l \in Reach(t.at), NEW ls \in SUBSET Locs, at \in ls, Closed(ls)
      PROVE  l \in ls
  <2>1. t.at \in ls
    BY <1>1 DEF Closed
  <2> QED BY <1>1, <2>1 DEF Reach
<1>2. Reach(t.at) \subseteq Reach(at)
  BY <1>1 DEF Reach
<1> QED BY <1>2 DEF Included

LEMMA SoundStep ==
  ASSUME TypeInv, Steady, Informed, Sound
  PROVE  Sound'
<1> SUFFICES ASSUME NEW i \in 1..Len(schemas'), NEW name \in schemas'[i].elements
             PROVE  \E t \in Included(schemas[i].at)' : t.do = "element" /\ t.name = name
  BY DEF Sound
<1>1. i \in 1..Len(schemas)
  <2>1. i \notin (Len(schemas) + 1)..Len(schemas')
    BY DEF Informed, SchemasLearn
  <2> QED BY <2>1, Lengths
<1>2. Learns(i) /\ schemas'[i].at = schemas[i].at
  BY <1>1 DEF Informed, SchemasLearn, Steady, SchemaStep, Develops
<1>3. PICK at : at = schemas[i].at
  OBVIOUS
<1>4. Included(schemas[i].at)' = Included(at)
  <2>1. at = schemas'[i].at
    BY <1>2, <1>3
  <2>2. Included(at)' = Included(at)
    BY Lengths, SameDocuments
  <2>3. Included(schemas[i].at)' = Included(at)'
    BY <2>1
  <2> QED BY <2>2, <2>3
<1>5. \E t \in Included(at) : t.do = "element" /\ t.name = name
  <2>1. CASE name \in schemas[i].elements
    BY <1>1, <1>3, <2>1 DEF Sound
  <2>2. ASSUME NEW t \in StmtsOf(at), Tells(t, name)
        PROVE  \E u \in Included(at) : u.do = "element" /\ u.name = name
    <3>1. CASE t.do = "element" /\ t.name = name
      BY <2>2, <3>1, IncludedOwn
    <3>2. ASSUME NEW c \in 1..Len(schemas), t.do = "include", schemas[c].at = t.at,
                 name \in schemas[c].elements
          PROVE  \E u \in Included(at) : u.do = "element" /\ u.name = name
      <4>1. \E u \in Included(t.at) : u.do = "element" /\ u.name = name
        <5>1. PICK at2 : at2 = schemas[c].at
          OBVIOUS
        <5> QED BY <3>2, <5>1 DEF Sound
      <4> QED BY <2>2, <3>2, <4>1, IncludedInto
    <3> QED BY <2>2, <3>1, <3>2 DEF Tells
  <2> QED BY <1>2, <1>3, <2>1, <2>2 DEF Learns
<1> QED BY <1>4, <1>5

LEMMA ReadStepKept ==
  ASSUME TypeInv, Steady, Informed, ReadInv
  PROVE  ReadInv'
BY PlacedStep, ReadSoFarStep, CallingStep, ReadThroughStep, TakenStep, SoundStep, GivenStep DEF ReadInv

------------------------------------------------------------------------------
\* Such a step keeps where imports lead.

LEMMA LeadingStep ==
  ASSUME TypeInv, Steady, Leading
  PROVE  Leading'
<1> SUFFICES ASSUME NEW i \in 1..Len(schemas'), NEW n \in Ns
             PROVE  schemas'[i].imports[n] \in Nat \cup {Lazy}
  BY DEF Leading
<1>1. CASE i \in (Len(schemas) + 1)..Len(schemas')
  BY <1>1 DEF Steady, SchemaStep, None
<1>2. CASE i \in 1..Len(schemas)
  <2>1. schemas'[i].imports[n] \in Sources(n)
    BY <1>2 DEF Steady, SchemaStep, Develops
  <2>2. cache[n] \in Nat
    BY DEF TypeInv
  <2>3. \A w \in 1..Len(wsdls) : wsdls[w][n] \in Nat
    <3>1. wsdls \in Seq([Ns -> Nat])
      BY DEF TypeInv
    <3>2. \A w \in 1..Len(wsdls) : wsdls[w] \in [Ns -> Nat]
      BY <3>1, ElementOfSeq
    <3> QED BY <3>2
  <2> QED BY <2>1, <2>2, <2>3 DEF Sources, Leading
<1> QED BY <1>1, <1>2, Lengths

\* A namespace keeps a schema that no running load can take away.
LEMMA FirmStep ==
  ASSUME TypeInv, AgreeInv, Steady, NEW n \in Ns, NEW c \in 1..Len(schemas), Firm(n, c)
  PROVE  Firm(n, c)'
<1>1. cache[n] = c /\ c \notin Open /\ c # None
  BY DEF Firm, None
<1>2. c \notin Open'
  BY <1>1, OpenStep
<1>3. ~(Withdraws /\ c = Me)
  <2>1. ASSUME Withdraws, c = Me
        PROVE  FALSE
    <3>1. stack # <<>>
      BY <2>1 DEF Withdraws, Pops
    <3>2. Len(stack) \in 1..Len(stack)
      BY <3>1, TopType
    <3> QED BY <1>1, <2>1, <3>2 DEF Open, Me, Top
  <2> QED BY <2>1
<1>4. cache'[n] = cache[n]
  BY <1>1, <1>3, CacheCases
<1> QED BY <1>1, <1>2, <1>4 DEF Firm

LEMMA InlineFramesStep ==
  ASSUME TypeInv, Steady, Informed, InlineFrames
  PROVE  InlineFrames'
<1> SUFFICES ASSUME NEW k \in 1..Len(stack'), schemas'[stack'[k].schema].wsdl # 0
             PROVE  stack'[k].how = "types"
  BY DEF InlineFrames
<1>1. CASE k \in 1..Len(stack) /\ SameFrame(stack[k], stack'[k])
  <2>1. stack[k].schema \in 1..Len(schemas) /\ stack'[k].schema = stack[k].schema
    BY <1>1 DEF TypeInv, IsStack, SameFrame
  <2>2. schemas'[stack[k].schema].wsdl = schemas[stack[k].schema].wsdl
    BY <2>1 DEF Steady, SchemaStep, Develops
  <2> QED BY <1>1, <2>1, <2>2 DEF SameFrame, InlineFrames
<1>2. CASE k = Len(stack) + 1 /\ Pushes
  BY <1>2, Lengths DEF Informed, FramesLearn, Begins
<1> QED BY <1>1, <1>2, FrameKept

\* No two loads read into one schema.
LEMMA OneReader ==
  ASSUME TypeInv, NEW j \in 1..Len(stack), NEW k \in 1..Len(stack),
         stack[j].schema = stack[k].schema
  PROVE  j = k
<1>1. stack[j].schema \in Nat /\ stack[k].schema \in Nat /\ Len(stack) \in Nat
  BY LenProperties DEF TypeInv, IsStack
<1>2. j \in 1..(k - 1) \/ k \in 1..(j - 1) \/ j = k
  BY <1>1
<1>3. j \in 1..(k - 1) => stack[j].schema < stack[k].schema
  BY DEF TypeInv, IsStack
<1>4. k \in 1..(j - 1) => stack[k].schema < stack[j].schema
  BY DEF TypeInv, IsStack
<1> QED BY <1>1, <1>2, <1>3, <1>4

LEMMA OuterType ==
  ASSUME TypeInv, stack # <<>>, Top.how \in {"import", "include"}
  PROVE  /\ Len(stack) - 1 \in 1..Len(stack) /\ Len(stack) \in 1..Len(stack)
         /\ stack[Len(stack) - 1].schema = Outer
         /\ Outer \in 1..Len(schemas) /\ Outer # Me /\ Outer \in Open
<1>1. Below # <<>> /\ Below[Len(Below)].schema \in 1..Len(schemas) /\ Below[Len(Below)].schema # Me
  BY BelowType
<1>2. /\ Len(stack) \in Nat \ {0} /\ Len(Below) = Len(stack) - 1 /\ Below \in Seq(Frame)
      /\ \A k \in 1..Len(Below) : Below[k] = stack[k]
  BY TopType
<1>3. Len(Below) # 0
  BY <1>1, <1>2, EmptySeq
<1>4. Len(Below) \in 1..Len(Below) /\ Len(stack) - 1 \in 1..Len(stack)
  BY <1>2, <1>3
<1>5. stack[Len(stack) - 1].schema = Outer
  BY <1>2, <1>4 DEF Outer
<1> QED BY <1>1, <1>2, <1>4, <1>5 DEF Outer, Open

\* What a load finds that no import encloses.
LEMMA FoundFirm ==
  ASSUME TypeInv, AgreeInv, OutsideFirm, Steady, NEW k \in 1..Len(stack), Outside(k),
         NEW n \in Ns, NEW c \in 1..Len(schemas), Finds(stack[k].schema, n, c)
  PROVE  Firm(n, c)'
<1> DEFINE i == stack[k].schema
<1>1. stack # <<>> /\ Len(stack) \in Nat
  BY LenProperties, EmptySeq DEF TypeInv, IsStack
<1>2. Len(stack) \in 1..Len(stack)
  BY <1>1, TopType
<1>3. CASE i = Me /\ c = cache[n] /\ cache' = cache
  <2>1. k = Len(stack)
    BY <1>2, <1>3, OneReader DEF Me, Top
  <2>2. c \notin Open
    <3>1. ASSUME NEW j \in 1..Len(stack), c = stack[j].schema
          PROVE  FALSE
      <4>1. stack[j].how = "import"
        BY <1>3, <3>1 DEF AgreeInv, Registered
      <4>2. j \in 1..k
        BY <2>1
      <4> QED BY <4>1, <4>2 DEF Outside
    <3> QED BY <3>1 DEF Open
  <2>3. Firm(n, c)
    BY <1>3, <2>2 DEF Firm
  <2> QED BY <2>3, FirmStep
<1>4. CASE Pops /\ Top.how = "import" /\ c = Me /\ cache[n] = c /\ cache' = cache
  BY <1>4, OpenStep DEF Firm
<1>5. CASE Pops /\ Top.how = "include" /\ i = Outer /\ c = schemas[Me].imports[n] /\ cache' = cache
  <2>1. Len(stack) - 1 \in 1..Len(stack) /\ stack[Len(stack) - 1].schema = Outer
    BY <1>1, <1>5, OuterType
  <2>2. k = Len(stack) - 1
    BY <1>5, <2>1, OneReader
  <2>3. Outside(Len(stack))
    <3>1. ASSUME NEW j \in 1..Len(stack)
          PROVE  stack[j].how # "import"
      <4>1. j \in 1..k \/ j = Len(stack)
        BY <1>1, <2>2
      <4> QED BY <1>5, <4>1 DEF Outside, Top
    <3> QED BY <3>1 DEF Outside
  <2>4. Firm(n, c)
    BY <1>2, <1>5, <2>3 DEF OutsideFirm, Me, Top
  <2> QED BY <2>4, FirmStep
<1> QED BY <1>1, <1>3, <1>4, <1>5 DEF Finds, Idle

\* A schema that an import leads to is one.
LEMMA LeadsToSchema ==
  ASSUME TypeInv, Steady, NEW i \in 1..Len(schemas), NEW n \in Ns,
         schemas'[i].imports[n] > 0
  PROVE  schemas'[i].imports[n] \in 1..Len(schemas)
<1>1. schemas'[i].imports[n] \in Sources(n)
  BY DEF Steady, SchemaStep, Develops
<1>2. schemas'[i].imports[n] \in Int /\ schemas'[i].imports[n] <= Len(schemas)
  BY <1>1, SourceBound
<1> QED BY <1>2, Lengths

LEMMA OutsideFirmStep ==
  ASSUME TypeInv, AgreeInv, OutsideFirm, Steady, Informed
  PROVE  OutsideFirm'
<1> SUFFICES ASSUME NEW k \in 1..Len(stack'), \A j \in 1..k : stack'[j].how # "import",
                    NEW n \in Ns, NEW c, c = schemas'[stack'[k].schema].imports[n], c > 0
             PROVE  Firm(n, c)'
  BY DEF OutsideFirm, Outside, Firm
<1>1. CASE k = Len(stack) + 1 /\ Pushes
  <2>1. stack'[k].schema = Len(schemas) + 1 /\ Len(schemas') = Len(schemas) + 1
    BY <1>1 DEF Pushes
  <2>2. Len(schemas) + 1 \in (Len(schemas) + 1)..Len(schemas')
    BY <2>1, Lengths
  <2>3. c = 0
    BY <2>1, <2>2 DEF Steady, SchemaStep, None
  <2> QED BY <2>3
<1>2. CASE k \in 1..Len(stack) /\ SameFrame(stack[k], stack'[k])
  <2> DEFINE i == stack[k].schema
  <2>1. i \in 1..Len(schemas) /\ stack'[k].schema = i /\ Learns(i)
    BY <1>2 DEF TypeInv, IsStack, SameFrame, Informed, SchemasLearn
  <2>2. c \in 1..Len(schemas) /\ c = schemas'[i].imports[n]
    BY <2>1, LeadsToSchema
  <2>3. Outside(k)
    <3>1. ASSUME NEW j \in 1..k
          PROVE  stack[j].how # "import"
      <4>1. j \in 1..Len(stack') /\ j # Len(stack) + 1
        BY <1>2, Lengths
      <4>2. SameFrame(stack[j], stack'[j])
        BY <4>1, FrameKept
      <4> QED BY <4>2 DEF SameFrame
    <3> QED BY <3>1 DEF Outside
  <2>4. CASE c = schemas[i].imports[n]
    <3>1. Firm(n, c)
      BY <1>2, <2>3, <2>4 DEF OutsideFirm
    <3> QED BY <2>2, <3>1, FirmStep
  <2>5. CASE Finds(i, n, c)
    BY <1>2, <2>2, <2>3, <2>5, FoundFirm
  <2> QED BY <2>1, <2>2, <2>4, <2>5 DEF Learns
<1> QED BY <1>1, <1>2, FrameKept

\* Once all schemas of a WSDL were read its table does not change.
LEMMA CompleteStep ==
  ASSUME TypeInv, Steady, Informed, NEW w \in 1..Len(wsdls), NEW n \in Ns, Complete(w)
  PROVE  Complete(w)' /\ wsdls'[w][n] = wsdls[w][n]
<1>1. Len(wsdls) \in Nat /\ Len(wsdls') \in Nat /\ Len(wsdls) <= Len(wsdls')
  BY LenProperties DEF TypeInv, Steady, CallerStep
<1>2. CASE w < Len(wsdls)
  BY <1>1, <1>2 DEF Complete, Informed, CallersLearn
<1>3. CASE inline = <<>> /\ (stack # <<>> => stack[1].how # "types")
  <2>1. ~(stack # <<>> /\ Top.how = "types")
    <3>1. ASSUME stack # <<>>, Top.how = "types"
          PROVE  FALSE
      <4>1. Len(stack) \in 1..Len(stack)
        BY <3>1, TopType
      <4>2. Len(stack) = 1
        BY <3>1, <4>1 DEF TypeInv, IsStack, Top
      <4> QED BY <1>3, <3>1, <4>2 DEF Top
    <3> QED BY <3>1
  <2>2. wsdls'[w][n] = wsdls[w][n]
    BY <2>1 DEF Informed, CallersLearn
  <2>3. ASSUME stack' # <<>>
        PROVE  stack'[1].how # "types"
    <3>1. Len(stack') # 0
      <4>1. stack' \in Seq(Frame)
        BY DEF Steady, StackStep, Stays, Pops, Pushes, SameFrames
      <4> QED BY <2>3, <4>1, EmptySeq
    <3>2. 1 \in 1..Len(stack')
      BY <3>1, Lengths
    <3>3. CASE 1 \in 1..Len(stack) /\ SameFrame(stack[1], stack'[1])
      <4>1. stack # <<>>
        BY <3>3, LenProperties, EmptySeq DEF TypeInv, IsStack
      <4> QED BY <1>3, <3>3, <4>1 DEF SameFrame
    <3>4. CASE 1 = Len(stack) + 1 /\ Pushes
      BY <1>3, <3>4, Lengths DEF Informed, FramesLearn, Begins
    <3> QED BY <3>2, <3>3, <3>4, FrameKept
  <2>4. inline' = <<>> \/ Len(wsdls') > Len(wsdls)
    BY <1>3 DEF Informed, CallersLearn
  <2> QED BY <1>1, <2>2, <2>3, <2>4 DEF Complete
<1> QED BY <1>2, <1>3 DEF Complete

LEMMA InlineFirmStep ==
  ASSUME TypeInv, AgreeInv, OutsideFirm, InlineFrames, InlineFirm, Steady, Informed
  PROVE  InlineFirm'
<1> SUFFICES ASSUME NEW i \in 1..Len(schemas'), schemas'[i].wsdl # 0, i \notin Open',
                    NEW n \in Ns, NEW c, c = schemas'[i].imports[n], c > 0,
                    NEW w, w = schemas'[i].wsdl
             PROVE  Firm(n, c)' \/ (c = wsdls'[w][n] /\ Complete(w)')
  BY DEF InlineFirm, Firm, Complete
<1>1. i \in 1..Len(schemas)
  <2>1. i \notin (Len(schemas) + 1)..Len(schemas')
    <3>1. i \in (Len(schemas) + 1)..Len(schemas') => c = 0
      BY DEF Steady, SchemaStep, None
    <3> QED BY <3>1
  <2> QED BY <2>1, Lengths
<1>2. Learns(i) /\ w = schemas[i].wsdl
  BY <1>1 DEF Informed, SchemasLearn, Steady, SchemaStep, Develops
<1>3. c \in 1..Len(schemas)
  BY <1>1, LeadsToSchema
<1>4. CASE i \in Open
  <2>1. PICK k \in 1..Len(stack) : i = stack[k].schema
    BY <1>4 DEF Open
  <2>2. stack[k].how = "types"
    BY <1>2, <2>1 DEF InlineFrames
  <2>3. k = 1
    BY <2>2 DEF TypeInv, IsStack
  <2>4. Outside(k)
    BY <2>2, <2>3 DEF Outside
  <2>5. CASE c = schemas[i].imports[n]
    <3>1. Firm(n, c)
      BY <2>1, <2>4, <2>5 DEF OutsideFirm
    <3> QED BY <1>3, <3>1, FirmStep
  <2>6. CASE Finds(i, n, c)
    BY <1>3, <2>1, <2>4, <2>6, FoundFirm
  <2> QED BY <1>2, <2>5, <2>6 DEF Learns
<1>5. CASE i \notin Open
  <2>1. w \in 1..Len(wsdls)
    BY <1>1, <1>2, LenProperties DEF TypeInv, AreSchemas, IsSchema, Refers
  <2>2. ASSUME c = wsdls[w][n], Complete(w)
        PROVE  c = wsdls'[w][n] /\ Complete(w)'
    BY <2>1, <2>2, CompleteStep
  <2>3. Firm(n, c) => Firm(n, c)'
    BY <1>3, FirmStep
  <2>4. CASE c = schemas[i].imports[n]
    <3>1. Firm(n, c) \/ (c = wsdls[w][n] /\ Complete(w))
      BY <1>1, <1>2, <1>5, <2>4 DEF InlineFirm
    <3> QED BY <2>2, <2>3, <3>1
  <2>5. CASE Finds(i, n, c)
    <3>1. stack # <<>> => i # Me
      BY <1>5, TopType DEF Open, Me, Top
    <3>2. CASE Pops /\ Top.how = "import" /\ c = Me /\ cache[n] = c /\ cache' = cache
      BY <1>3, <3>2, OpenStep DEF Firm
    <3>3. ~(Pops /\ Top.how = "include" /\ i = Outer)
      BY <1>5, OuterType DEF Pops
    <3>4. CASE Idle /\ c = cache[n]
      <4>1. Open = {}
        BY <3>4 DEF Idle, Open
      <4>2. Firm(n, c)
        BY <3>4, <4>1 DEF Firm
      <4> QED BY <2>3, <4>2
    <3>5. CASE Idle /\ c = wsdls[w][n]
      <4>1. Complete(w)
        BY <3>5 DEF Idle, Complete
      <4> QED BY <2>2, <3>5, <4>1
    <3> QED BY <1>2, <2>5, <3>1, <3>2, <3>3, <3>4, <3>5 DEF Finds
  <2> QED BY <1>2, <2>4, <2>5 DEF Learns
<1> QED BY <1>4, <1>5

LEMMA MeetInvStep ==
  ASSUME TypeInv, AgreeInv, MeetInv, Steady, Informed
  PROVE  MeetInv'
BY LeadingStep, OutsideFirmStep, InlineFirmStep, InlineFramesStep DEF MeetInv

------------------------------------------------------------------------------
\* What follows for a schema that was read to the end.

LEMMA WholeCovers ==
  ASSUME TypeInv, ReadInv, NEW i \in 1..Len(schemas), schemas[i].whole,
         NEW t \in Included(schemas[i].at)
  PROVE  /\ t.do = "element" => t.name \in schemas[i].elements
         /\ t.do = "import" => t.ns \in Ns /\ schemas[i].imports[t.ns] # None
<1> DEFINE ls == {l \in Locs : \E c \in 1..Len(schemas) :
                    schemas[c].whole /\ schemas[c].at = l /\ Covers(schemas[i], schemas[c])}
<1>1. schemas[i].at \in Locs
  <2>1. schemas[i].at \in DOMAIN repo.docs
    BY DEF ReadInv, ReadThrough
  <2> QED BY <2>1, LoadingAssumption DEF TypeInv, AnyRepository
<1>2. schemas[i].at \in ls
  BY <1>1 DEF Covers
<1>3. Closed(ls)
  <2> SUFFICES ASSUME NEW l \in ls, NEW s \in StmtsOf(l), s.do = "include"
               PROVE  s.at \in ls
    BY DEF Closed
  <2>1. PICK c \in 1..Len(schemas) :
          schemas[c].whole /\ schemas[c].at = l /\ Covers(schemas[i], schemas[c])
    OBVIOUS
  <2>2. s.at \in Locs /\ schemas[c].included[s.at] # None
    BY <2>1 DEF ReadInv, ReadThrough, Settled
  <2>3. PICK d : d = schemas[c].included[s.at]
    OBVIOUS
  <2>4. /\ d \in 1..Len(schemas) /\ schemas[d].whole /\ schemas[d].at = s.at
        /\ Covers(schemas[c], schemas[d])
    BY <2>2, <2>3 DEF ReadInv, Taken
  <2>5. Covers(schemas[i], schemas[d])
    BY <2>1, <2>4 DEF Covers
  <2> QED BY <2>2, <2>4, <2>5
<1>4. PICK l \in Reach(schemas[i].at) : t \in StmtsOf(l)
  BY DEF Included
<1>5. l \in ls
  <2>1. ls \in SUBSET Locs
    OBVIOUS
  <2> HIDE DEF ls
  <2> QED BY <1>2, <1>3, <1>4, <2>1 DEF Reach
<1>6. PICK c \in 1..Len(schemas) :
        schemas[c].whole /\ schemas[c].at = l /\ Covers(schemas[i], schemas[c])
  BY <1>5
<1>7. Settled(schemas[c], t)
  BY <1>4, <1>6 DEF ReadInv, ReadThrough
<1> QED BY <1>6, <1>7 DEF Settled, Covers

\* The schemas a program can ask, and those it asks through them.
LEMMA TargetType ==
  ASSUME TypeInv, ReadInv, MeetInv, NEW i \in Known, NEW n \in Ns, ~LazyFails(i, n)
  PROVE  /\ i \in 1..Len(schemas)
         /\ Target(i, n) # None => Target(i, n) \in 1..Len(schemas)
<1>1. i \in 1..Len(schemas)
  <2>1. cache \in [Ns -> Nat] /\ \A m \in Ns : cache[m] <= Len(schemas)
    BY DEF TypeInv
  <2>2. Len(schemas) \in Nat
    BY DEF TypeInv, AreSchemas
  <2> QED BY <2>1, <2>2 DEF Known, TypeInv, None
<1>2. /\ cache[n] \in Nat /\ cache[n] <= Len(schemas) /\ Len(schemas) \in Nat
      /\ schemas[i].imports[n] <= Len(schemas) /\ schemas[i].imports[n] \in Nat \cup {Lazy}
  BY <1>1 DEF TypeInv, AreSchemas, Refers, MeetInv, Leading
<1>3. CASE IsLazy(i, n) /\ cache[n] = None
  <2>1. schemas[i].wsdl # 0
    BY <1>3 DEF LazyFails
  <2>2. schemas[i].wsdl \in 1..Len(wsdls) /\ wsdls \in Seq([Ns -> Nat])
    BY <1>1, <2>1, LenProperties DEF TypeInv, AreSchemas, IsSchema, Refers
  <2>3. PICK w : w = schemas[i].wsdl
    OBVIOUS
  <2>4. wsdls[w] \in [Ns -> Nat] /\ wsdls[w][n] <= Len(schemas)
    BY <2>2, <2>3, ElementOfSeq DEF TypeInv
  <2>5. Target(i, n) = wsdls[w][n]
    BY <1>3, <2>3 DEF Target, IsLazy, LazyTarget
  <2> QED BY <1>1, <1>2, <2>4, <2>5 DEF None
<1>4. CASE IsLazy(i, n) /\ cache[n] # None
  BY <1>1, <1>2, <1>4 DEF Target, IsLazy, LazyTarget, None
<1>5. CASE ~IsLazy(i, n)
  BY <1>1, <1>2, <1>5 DEF Target, IsLazy, None, Lazy
<1> QED BY <1>1, <1>3, <1>4, <1>5

LEMMA LookupsFact ==
  ASSUME TypeInv, ReadInv, MeetInv
  PROVE  LookupsAgree
<1> SUFFICES ASSUME NEW i \in Known, NEW n \in Ns, NEW name \in Names,
                    NEW c, c = IF LazyFails(i, n) THEN None ELSE Target(i, n)
             PROVE  /\ Answer(i, n, name) = "item" =>
                         name \in {s.name : s \in {t \in Included(schemas[c].at) : t.do = "element"}}
                    /\ Answer(i, n, name) = "KeyError" =>
                         \/ ~schemas[c].whole
                         \/ name \notin {s.name : s \in {t \in Included(schemas[c].at) : t.do = "element"}}
                    /\ Answer(i, n, name) = "not imported" =>
                         \/ ~schemas[i].whole
                         \/ n \notin {s.ns : s \in {t \in Included(schemas[i].at) : t.do = "import"}}
  BY DEF LookupsAgree
<1>1. CASE Answer(i, n, name) \in {"item", "KeyError"}
  <2>1. ~LazyFails(i, n) /\ c = Target(i, n) /\ c # None
    BY <1>1 DEF Answer
  <2>2. c \in 1..Len(schemas)
    BY <2>1, TargetType
  <2>3. Answer(i, n, name) = IF name \in schemas[c].elements THEN "item" ELSE "KeyError"
    BY <2>1 DEF Answer, Has
  <2>4. name \in schemas[c].elements =>
          \E t \in Included(schemas[c].at) : t.do = "element" /\ t.name = name
    BY <2>2 DEF ReadInv, Sound
  <2>5. ASSUME schemas[c].whole, NEW t \in Included(schemas[c].at), t.do = "element", t.name = name
        PROVE  name \in schemas[c].elements
    BY <2>2, <2>5, WholeCovers
  <2> QED BY <1>1, <2>3, <2>4, <2>5
<1>2. CASE Answer(i, n, name) = "not imported"
  <2>1. ~LazyFails(i, n) /\ Target(i, n) = None /\ schemas[i].imports[n] # Lazy
    BY <1>2 DEF Answer
  <2>2. i \in 1..Len(schemas)
    BY <2>1, TargetType
  <2>3. schemas[i].imports[n] = None
    BY <2>1, <2>2 DEF Target, IsLazy, None
  <2>4. ASSUME schemas[i].whole, NEW t \in Included(schemas[i].at), t.do = "import", t.ns = n
        PROVE  FALSE
    BY <2>2, <2>3, <2>4, WholeCovers
  <2> QED BY <1>2, <2>4
<1> QED BY <1>1, <1>2

LEMMA MeetFact ==
  ASSUME TypeInv, ReadInv, MeetInv
  PROVE  InlineSchemasMeet
<1> SUFFICES ASSUME Idle, NEW i \in loaded, NEW n \in Ns, NEW w, w = schemas[i].wsdl,
                    w # 0, n # schemas[i].tns, cache[n] = None, wsdls[w][n] # None,
                    NEW t \in Included(schemas[i].at), t.do = "import", t.ns = n
             PROVE  Target(i, n) = wsdls[w][n]
  BY DEF InlineSchemasMeet
<1>1. i \in 1..Len(schemas) /\ schemas[i].whole /\ i \notin Open
  BY DEF TypeInv, ReadInv, Given
<1>2. PICK c : c = schemas[i].imports[n]
  OBVIOUS
<1>3. c # None /\ c \in Nat \cup {Lazy}
  BY <1>1, <1>2, WholeCovers DEF MeetInv, Leading
<1>4. CASE c = Lazy
  BY <1>2, <1>4 DEF Target, IsLazy, LazyTarget
<1>5. CASE c # Lazy
  <2>1. c > 0
    BY <1>3, <1>5 DEF None
  <2>2. ~Firm(n, c)
    BY <1>3 DEF Firm
  <2>3. c = wsdls[w][n]
    BY <1>1, <1>2, <2>1, <2>2 DEF MeetInv, InlineFirm
  <2> QED BY <1>2, <1>5, <2>3 DEF Target, IsLazy
<1> QED BY <1>4, <1>5

------------------------------------------------------------------------------
\* What the actions make of it.

LEMMA SameLearns ==
  ASSUME NEW i \in 1..Len(schemas), schemas'[i] = schemas[i]
  PROVE  Learns(i)
BY DEF Learns, Grows, Rests

LEMMA NoneLearns ==
  ASSUME TypeInv, schemas' = schemas
  PROVE  SchemasLearn
<1>1. Len(schemas) \in Nat
  BY DEF TypeInv, AreSchemas
<1>2. (Len(schemas) + 1)..Len(schemas') = {}
  BY <1>1
<1> QED BY <1>2, SameLearns DEF SchemasLearn

LEMMA OneLearns ==
  ASSUME TypeInv, NEW me \in 1..Len(schemas), Updates(schemas, schemas', me), Learns(me)
  PROVE  SchemasLearn
<1>1. Len(schemas) \in Nat /\ Len(schemas') = Len(schemas)
  BY DEF TypeInv, AreSchemas, Updates
<1>2. (Len(schemas) + 1)..Len(schemas') = {}
  BY <1>1
<1>3. \A i \in 1..Len(schemas) : i # me => Learns(i)
  BY SameLearns DEF Updates
<1> QED BY <1>2, <1>3 DEF SchemasLearn

LEMMA NewLearns ==
  ASSUME TypeInv, NEW tns, NEW at, NEW wsdl \in Nat,
         schemas' = Append(schemas, NewSchema(tns, at, wsdl))
  PROVE  /\ SchemasLearn
         /\ schemas'[Len(schemas) + 1].at = at /\ schemas'[Len(schemas) + 1].wsdl = wsdl
<1> DEFINE r == NewSchema(tns, at, wsdl)
<1>1. IsSchema(r)
  BY NewType
<1>2. r.elements = {} /\ r.at = at /\ r.wsdl = wsdl
  BY DEF NewSchema
<1>3. AreSchemas(schemas) /\ Len(schemas) \in Nat /\ schemas' = Append(schemas, r)
  BY DEF TypeInv, AreSchemas
<1> HIDE DEF r
<1>4. /\ Len(schemas') = Len(schemas) + 1 /\ schemas'[Len(schemas) + 1] = r
      /\ \A i \in 1..Len(schemas) : schemas'[i] = schemas[i]
  BY <1>1, <1>3, AppendSchema
<1>5. \A i \in (Len(schemas) + 1)..Len(schemas') : i = Len(schemas) + 1
  BY <1>3, <1>4
<1> QED BY <1>2, <1>4, <1>5, SameLearns DEF SchemasLearn

\* The loads stay where they are.
LEMMA StillFrames ==
  ASSUME TypeInv, stack' = stack
  PROVE  FramesLearn
<1>1. Len(stack) \in Nat
  BY LenProperties DEF TypeInv, IsStack
<1> QED BY <1>1 DEF FramesLearn, Begins, Moves

LEMMA PoppedFrames ==
  ASSUME TypeInv, stack # <<>>, stack' = Below
  PROVE  FramesLearn
<1>1. /\ Len(stack) \in Nat \ {0} /\ Len(Below) = Len(stack) - 1
      /\ \A k \in 1..Len(Below) : Below[k] = stack[k]
  BY TopType
<1> QED BY <1>1 DEF FramesLearn, Begins, Moves

LEMMA AdvancedNext ==
  ASSUME NEW s \in Seq(Frame), s # <<>>
  PROVE  /\ Len(Advanced(s)) = Len(s) /\ Len(s) \in Nat
         /\ \A j \in 1..Len(s) :
              Advanced(s)[j].next = IF j = Len(s) THEN s[j].next + 1 ELSE s[j].next
<1> DEFINE n == Len(s)
           f == [s[n] EXCEPT !.next = @ + 1]
<1>1. n \in 1..n /\ s[n] \in Frame /\ n \in Nat
  BY EmptySeq, LenProperties, ElementOfSeq
<1>2. f \in Frame /\ f.next = s[n].next + 1
  <2> DEFINE g == s[n]
  <2>1. g \in Frame /\ g.next + 1 \in Nat \ {0}
    BY <1>1 DEF Frame
  <2>2. f = [g EXCEPT !.next = g.next + 1]
    OBVIOUS
  <2> HIDE DEF g
  <2>3. [g EXCEPT !.next = g.next + 1] \in Frame /\ [g EXCEPT !.next = g.next + 1].next = g.next + 1
    BY <2>1 DEF Frame
  <2> QED BY <2>2, <2>3, Zenon DEF g
<1>3. Advanced(s) = [s EXCEPT ![n] = f]
  BY DEF Advanced
<1> HIDE DEF f
<1>4. /\ Len(Advanced(s)) = n
      /\ \A j \in 1..n : Advanced(s)[j] = IF j = n THEN f ELSE s[j]
  BY <1>1, <1>2, <1>3, ExceptSeq
<1> QED BY <1>1, <1>2, <1>4

\* The innermost load, or the one below it, has settled its statement.
LEMMA AdvancedMoves ==
  ASSUME TypeInv, stack # <<>>, stack' = Advanced(stack), Settled(schemas'[Me], Stmt)
  PROVE  FramesLearn
<1>1. stack \in Seq(Frame)
  BY DEF TypeInv, IsStack
<1>2. /\ Len(stack') = Len(stack) /\ Len(stack) \in Nat
      /\ \A j \in 1..Len(stack) :
           stack'[j].next = IF j = Len(stack) THEN stack[j].next + 1 ELSE stack[j].next
  BY <1>1, AdvancedNext
<1>3. StmtOf(stack[Len(stack)]) = Stmt /\ stack[Len(stack)].schema = Me
  BY DEF StmtOf, Stmt, Stmts, Top, Me
<1> QED BY <1>2, <1>3 DEF FramesLearn, Begins, Moves

LEMMA OuterMoves ==
  ASSUME TypeInv, stack # <<>>, Below # <<>>, stack' = Advanced(Below),
         Settled(schemas'[Outer], StmtOf(stack[Len(stack) - 1]))
  PROVE  FramesLearn
<1>1. /\ Below \in Seq(Frame) /\ Len(Below) = Len(stack) - 1 /\ Len(stack) \in Nat
      /\ \A k \in 1..Len(Below) : Below[k] = stack[k]
  BY TopType
<1>2. /\ Len(stack') = Len(Below)
      /\ \A j \in 1..Len(Below) :
           stack'[j].next = IF j = Len(Below) THEN Below[j].next + 1 ELSE Below[j].next
  BY <1>1, AdvancedNext
<1>3. Len(Below) \in 1..Len(Below)
  BY <1>1, EmptySeq
<1>4. stack[Len(Below)].schema = Outer
  BY <1>1, <1>3 DEF Outer
<1> QED BY <1>1, <1>2, <1>3, <1>4 DEF FramesLearn, Begins, Moves

\* The callers wait.
LEMMA InLoadLearn ==
  ASSUME InLoad
  PROVE  CallersLearn
BY DEF InLoad, Caller, CallersLearn

LEMMA RaiseInformed ==
  ASSUME TypeInv, InLoad, schemas' = schemas, stack' = stack
  PROVE  Informed
BY NoneLearns, StillFrames, InLoadLearn DEF Informed

\* The statement that a load reads is one of its document.
LEMMA StmtHere ==
  ASSUME TypeInv, Placed, NEW do, Reads(do)
  PROVE  /\ Me \in 1..Len(schemas) /\ Me \in Open /\ AreSchemas(schemas)
         /\ Stmt \in StmtsOf(Top.at) /\ Stmt \in StmtsOf(schemas[Me].at) /\ StmtOf(Top) = Stmt
<1>1. stack # <<>> /\ Top.next <= Len(Stmts)
  BY DEF Reads, Reading
<1>2. /\ Len(stack) \in 1..Len(stack) /\ Top \in Frame /\ Top.at \in DOMAIN repo.docs
      /\ Me \in 1..Len(schemas)
  BY <1>1, TopType
<1>3. schemas[Me].at = Top.at /\ Me \in Open
  BY <1>2 DEF Placed, Me, Top, Open
<1>4. Stmts \in Seq(Statement)
  BY <1>2, LoadingAssumption DEF TypeInv, AnyRepository, Document, Stmts
<1>5. Top.next \in DOMAIN Stmts
  BY <1>1, <1>2, <1>4, LenProperties DEF Frame
<1>6. Stmt \in StmtsOf(Top.at)
  BY <1>2, <1>5 DEF StmtsOf, Stmt, Stmts
<1> QED BY <1>2, <1>3, <1>6 DEF TypeInv, StmtOf, Stmt, Stmts

LEMMA ElementInformed ==
  ASSUME TypeInv, Placed, Element
  PROVE  Informed
<1>1. stack # <<>> /\ InLoad /\ stack' = Advanced(stack) /\ Stmt.do = "element" /\ Reads("element")
  BY StmtType DEF Element, SetSchema
<1>2. schemas' = AddElement(schemas, Me, Stmt.name)
  BY Zenon DEF Element, SetSchema, AddElement
<1>3. Me \in 1..Len(schemas) /\ Me \in Open /\ AreSchemas(schemas) /\ Stmt \in StmtsOf(schemas[Me].at)
  BY <1>1, StmtHere
<1>4. /\ Updates(schemas, schemas', Me) /\ schemas'[Me].imports = schemas[Me].imports
      /\ schemas'[Me].whole = schemas[Me].whole /\ schemas'[Me].included = schemas[Me].included
      /\ schemas'[Me].elements = schemas[Me].elements \cup {Stmt.name}
  BY <1>2, <1>3, ElementAdded
<1>5. Learns(Me)
  BY <1>1, <1>3, <1>4 DEF Learns, Grows, Tells
<1>6. SchemasLearn
  BY <1>3, <1>4, <1>5, OneLearns
<1>7. Settled(schemas'[Me], Stmt)
  BY <1>1, <1>4 DEF Settled
<1> QED BY <1>1, <1>6, <1>7, AdvancedMoves, InLoadLearn DEF Informed

\* A schema takes another for a namespace it imports, or for one that it imports already.
LEMMA ImportLearns ==
  ASSUME TypeInv, NEW me \in 1..Len(schemas), NEW ns \in Ns, NEW c \in Int, c # None,
         Updates(schemas, schemas', me),
         schemas'[me].imports = [schemas[me].imports EXCEPT ![ns] = c],
         schemas'[me].whole = schemas[me].whole, schemas'[me].included = schemas[me].included,
         schemas'[me].elements = schemas[me].elements,
         me \in Open \/ schemas[me].imports[ns] # None,
         c > 0 => Finds(me, ns, c)
  PROVE  SchemasLearn /\ schemas'[me].imports[ns] = c
<1>1. schemas[me].imports \in [Ns -> Int]
  BY DEF TypeInv, AreSchemas, IsSchema
<1>2. /\ schemas'[me].imports[ns] = c
      /\ \A n \in Ns : n # ns => schemas'[me].imports[n] = schemas[me].imports[n]
  BY <1>1
<1>3. Grows(schemas[me], schemas'[me])
  BY <1>2 DEF Grows
<1>4. me \notin Open => Rests(schemas[me], schemas'[me])
  BY <1>2 DEF Rests
<1>5. ASSUME NEW n \in Ns, schemas'[me].imports[n] > 0
      PROVE  \/ schemas'[me].imports[n] = schemas[me].imports[n]
             \/ Finds(me, n, schemas'[me].imports[n])
  BY <1>2, <1>5
<1>6. Learns(me)
  BY <1>3, <1>4, <1>5 DEF Learns
<1> QED BY <1>2, <1>6, OneLearns

LEMMA ImportCachedInformed ==
  ASSUME TypeInv, Placed, ImportCached
  PROVE  Informed
<1>1. /\ stack # <<>> /\ InLoad /\ cache' = cache /\ Reads("import") /\ Stmt.do = "import"
      /\ Stmt.ns \in Ns /\ cache[Stmt.ns] # None /\ Adopt(cache[Stmt.ns], Stmt.ns, schemas, stack)
  BY StmtType DEF ImportCached, ReadsImport, Cached
<1>2. CASE schemas' = schemas /\ stack' = stack
  BY <1>1, <1>2, RaiseInformed
<1>3. CASE schemas' = SetImport(schemas, Me, Stmt.ns, cache[Stmt.ns]) /\ stack' = Advanced(stack)
  <2>1. Me \in 1..Len(schemas) /\ Me \in Open /\ AreSchemas(schemas)
    BY <1>1, StmtHere
  <2>2. Stays
    BY <1>1, <1>3, StackAdvances
  <2>3. SchemasLearn /\ schemas'[Me].imports[Stmt.ns] # None
    <3> DEFINE ns == Stmt.ns
               c == cache[Stmt.ns]
    <3>1. /\ ns \in Ns /\ c \in Int /\ c # None /\ schemas' = SetImport(schemas, Me, ns, c)
          /\ Finds(Me, ns, c)
      BY <1>1, <1>3, <2>2 DEF TypeInv, Finds
    <3> HIDE DEF ns, c
    <3>2. /\ Updates(schemas, schemas', Me)
          /\ schemas'[Me].imports = [schemas[Me].imports EXCEPT ![ns] = c]
          /\ schemas'[Me].whole = schemas[Me].whole /\ schemas'[Me].included = schemas[Me].included
          /\ schemas'[Me].elements = schemas[Me].elements
      BY <2>1, <3>1, ImportSet
    <3>3. SchemasLearn /\ schemas'[Me].imports[ns] = c
      BY <2>1, <3>1, <3>2, ImportLearns
    <3> QED BY <3>1, <3>3 DEF ns
  <2>4. Settled(schemas'[Me], Stmt)
    BY <1>1, <2>3 DEF Settled
  <2> QED BY <1>1, <1>3, <2>3, <2>4, AdvancedMoves, InLoadLearn DEF Informed
<1> QED BY <1>1, <1>2, <1>3, Adopts DEF Me, Top

LEMMA ImportUnlocatedInformed ==
  ASSUME TypeInv, Placed, ImportUnlocated
  PROVE  Informed
<1>1. /\ stack # <<>> /\ InLoad /\ Reads("import") /\ Stmt.do = "import"
      /\ Stmt.ns \in Ns /\ stack' = Advanced(stack)
      /\ schemas' = Postponed(schemas, Me, Stmt.ns)
  BY StmtType DEF ImportUnlocated, ReadsImport, SetSchema
<1>2. Me \in 1..Len(schemas) /\ Me \in Open /\ AreSchemas(schemas)
  BY <1>1, StmtHere
<1>3. SchemasLearn /\ schemas'[Me].imports[Stmt.ns] # None
  <2> DEFINE ns == Stmt.ns
  <2>1. ns \in Ns /\ schemas' = Postponed(schemas, Me, ns)
    BY <1>1
  <2> HIDE DEF ns
  <2>2. /\ Updates(schemas, schemas', Me)
        /\ schemas'[Me].imports = [schemas[Me].imports EXCEPT ![ns] = Lazy]
        /\ schemas'[Me].whole = schemas[Me].whole /\ schemas'[Me].included = schemas[Me].included
        /\ schemas'[Me].elements = schemas[Me].elements
    BY <1>2, <2>1, ImportPostponed, SMTT(40)
  <2>3. Lazy \in Int /\ Lazy # None /\ ~(Lazy > 0)
    BY DEF Lazy, None
  <2>4. SchemasLearn /\ schemas'[Me].imports[ns] = Lazy
    BY <1>2, <2>1, <2>2, <2>3, ImportLearns
  <2> QED BY <2>3, <2>4 DEF ns
<1>4. Settled(schemas'[Me], Stmt)
  BY <1>1, <1>3 DEF Settled
<1> QED BY <1>1, <1>3, <1>4, AdvancedMoves, InLoadLearn DEF Informed

LEMMA ImportUnreadableInformed ==
  ASSUME TypeInv, ImportUnreadable
  PROVE  Informed
<1>1. /\ InLoad /\ stack' = stack /\ schemas' = Append(schemas, NewSchema(Unread, NoLoc, 0))
  BY DEF ImportUnreadable, SetSchema
<1> QED BY <1>1, NewLearns, StillFrames, InLoadLearn DEF Informed

LEMMA ItemInformed ==
  ASSUME TypeInv, NEW i \in DOMAIN schemas, NEW ns \in Ns, getSchemaItem(i, ns)
  PROVE  Informed
<1> DEFINE c == LazyTarget(i, ns)
<1>1. /\ Idle /\ cache' = cache /\ inline' = inline /\ wsdls' = wsdls /\ loaded' = loaded
      /\ stack' = stack /\ ~LazyFails(i, ns) /\ IsLazy(i, ns) /\ c # None
  BY DEF getSchemaItem
<1>2. schemas' = SetImport(schemas, i, ns, c)
  BY Zenon DEF getSchemaItem, SetImport
<1>3. AreSchemas(schemas) /\ i \in 1..Len(schemas)
  BY DEF TypeInv, AreSchemas
<1>4. c \in Int
  <2>1. cache[ns] \in Int
    BY DEF TypeInv
  <2>2. CASE cache[ns] = None
    <3> DEFINE w == schemas[i].wsdl
    <3>1. w # 0 /\ c = wsdls[w][ns]
      BY <1>1, <2>2 DEF LazyFails, LazyTarget
    <3>2. w \in Nat /\ w <= Len(wsdls) /\ wsdls \in Seq([Ns -> Nat]) /\ Len(wsdls) \in Nat
      BY <1>3, LenProperties DEF TypeInv, AreSchemas, IsSchema, Refers
    <3> HIDE DEF w, c
    <3>3. w \in 1..Len(wsdls)
      BY <3>1, <3>2
    <3>4. wsdls[w] \in [Ns -> Nat]
      BY <3>2, <3>3, ElementOfSeq
    <3> QED BY <3>1, <3>4
  <2> QED BY <2>1, <2>2 DEF LazyTarget
<1>5. Stays
  BY <1>1, StackStays
<1>6. Finds(i, ns, c)
  BY <1>1, <1>5 DEF Finds, LazyTarget, LazyFails
<1>7. schemas[i].imports[ns] # None
  BY <1>1 DEF IsLazy, Lazy, None
<1>8. SchemasLearn
  <2> HIDE DEF c
  <2>1. /\ Updates(schemas, schemas', i)
        /\ schemas'[i].imports = [schemas[i].imports EXCEPT ![ns] = c]
        /\ schemas'[i].whole = schemas[i].whole /\ schemas'[i].included = schemas[i].included
        /\ schemas'[i].elements = schemas[i].elements
    BY <1>2, <1>3, <1>4, ImportSet
  <2> QED BY <1>1, <1>3, <1>4, <1>6, <1>7, <2>1, ImportLearns
<1>9. CallersLearn
  BY <1>1 DEF CallersLearn
<1> QED BY <1>1, <1>8, <1>9, StillFrames DEF Informed

\* A load begins for the statement the innermost one is at.
LEMMA BeginsLearn ==
  ASSUME TypeInv, NEW how \in Hows, NEW at \in DOMAIN repo.docs, NEW tns,
         NEW wsdl \in 0..Len(wsdls), NEW ns \in Ns \cup {NoNs}, NEW last \in BOOLEAN,
         NEW provided \in SUBSET Locs,
         Enters(how, at, tns, wsdl, ns, last, provided),
         wsdl # 0 => how = "types", how = "types" => inline # <<>>,
         stack # <<>> =>
           /\ StmtOf(Top) \in StmtsOf(Top.at) /\ StmtOf(Top).do = how
           /\ how = "import" => StmtOf(Top).ns = ns
           /\ how = "include" => StmtOf(Top).at = at
  PROVE  SchemasLearn /\ FramesLearn
<1> DEFINE f == NewFrame(how, at, ns, last, provided)
<1>1. schemas' = Append(schemas, NewSchema(tns, at, wsdl)) /\ stack' = Append(stack, f)
  BY DEF Enters, SetSchema
<1>2. /\ f \in Frame /\ f.how = how /\ f.schema = Len(schemas) + 1
      /\ f.at = at /\ f.ns = ns /\ f.next = 1
  <2>1. Len(schemas) \in Nat /\ at \in Locs
    BY LoadingAssumption DEF TypeInv, AreSchemas, AnyRepository
  <2> QED BY <2>1 DEF NewFrame, Frame
<1> HIDE DEF f
<1>3. /\ Len(stack') = Len(stack) + 1 /\ stack'[Len(stack) + 1] = f
      /\ \A k \in 1..Len(stack) : stack'[k] = stack[k]
  BY <1>1, <1>2, AppendProperties DEF TypeInv, IsStack
<1>4. wsdl \in Nat
  BY LenProperties DEF TypeInv
<1>5. SchemasLearn /\ schemas'[f.schema].at = at /\ schemas'[f.schema].wsdl = wsdl
  BY <1>1, <1>2, <1>4, NewLearns
<1>6. stack # <<>> => IsFor(f)
  BY <1>2 DEF IsFor
<1>7. Begins
  BY <1>2, <1>3, <1>5, <1>6 DEF Begins
<1> QED BY <1>3, <1>5, <1>7 DEF FramesLearn, Moves

LEMMA LoadInformed ==
  ASSUME TypeInv, NEW call \in Calls, Load(call[1], call[2])
  PROVE  Informed
<1>1. /\ stack = <<>> /\ call[1] \in DOMAIN repo.docs /\ inline' = inline /\ wsdls' = wsdls
      /\ loaded' = loaded
      /\ Enters("root", call[1], TargetNs(call[1], NoNs), 0, NoNs, TRUE, call[2])
  BY DEF Load, Idle
<1>0. call[2] \in SUBSET Locs /\ "root" \in Hows /\ 0 \in 0..Len(wsdls)
  BY LoadingAssumption, LenProperties DEF Hows, TypeInv
<1>2. SchemasLearn /\ FramesLearn
  <2> DEFINE at == call[1]
             tns == TargetNs(call[1], NoNs)
             provided == call[2]
             b == TRUE
  <2>1. /\ at \in DOMAIN repo.docs /\ b \in BOOLEAN /\ provided \in SUBSET Locs
        /\ Enters("root", at, tns, 0, NoNs, b, provided)
    BY <1>0, <1>1, Zenon
  <2> HIDE DEF at, tns, provided, b
  <2> QED BY <1>0, <1>1, <2>1, BeginsLearn
<1>3. CallersLearn
  BY <1>1 DEF CallersLearn
<1> QED BY <1>2, <1>3 DEF Informed

LEMMA LoadFromNodeInformed ==
  ASSUME TypeInv, LoadFromNode
  PROVE  Informed
<1>1. /\ stack = <<>> /\ inline # <<>> /\ wsdls' = wsdls /\ loaded' = loaded
      /\ Head(inline) \in DOMAIN repo.docs
      /\ Enters("types", Head(inline), repo.docs[Head(inline)].tns, Len(wsdls), NoNs, TRUE, {})
  BY HeadTailProperties DEF LoadFromNode, TypeInv
<1>2. SchemasLearn /\ FramesLearn
  <2> DEFINE at == Head(inline)
             tns == repo.docs[Head(inline)].tns
             b == TRUE
             provided == {}
             w == Len(wsdls)
  <2>1. /\ at \in DOMAIN repo.docs /\ b \in BOOLEAN /\ provided \in SUBSET Locs
        /\ Enters("types", at, tns, w, NoNs, b, provided)
    BY <1>1, Zenon
  <2>2. w \in 0..Len(wsdls) /\ "types" \in Hows
    BY LenProperties DEF TypeInv, Hows
  <2> HIDE DEF at, tns, provided, b, w
  <2> QED BY <1>1, <2>1, <2>2, BeginsLearn
<1>3. CallersLearn
  BY <1>1 DEF CallersLearn
<1> QED BY <1>2, <1>3 DEF Informed

LEMMA ImportInformed ==
  ASSUME TypeInv, Placed, Import
  PROVE  Informed
<1>1. /\ stack # <<>> /\ InLoad /\ Reads("import") /\ Stmt.do = "import"
      /\ Stmt.ns \in Ns /\ Stmt.at \in DOMAIN repo.docs
      /\ Enters("import", Stmt.at, TargetNs(Stmt.at, NoNs), 0, Stmt.ns, Stmt.at \notin repo.files, {})
  BY StmtType DEF Import, ReadsImport
<1>2. StmtOf(Top) \in StmtsOf(Top.at) /\ StmtOf(Top) = Stmt
  BY <1>1, StmtHere
<1>3. SchemasLearn /\ FramesLearn
  <2> DEFINE at == Stmt.at
             ns == Stmt.ns
             tns == TargetNs(Stmt.at, NoNs)
             b == Stmt.at \notin repo.files
             provided == {}
  <2>1. /\ at \in DOMAIN repo.docs /\ b \in BOOLEAN /\ provided \in SUBSET Locs /\ ns \in Ns
        /\ Enters("import", at, tns, 0, ns, b, provided)
    BY <1>1, Zenon
  <2>2. 0 \in 0..Len(wsdls) /\ "import" \in Hows
    BY LenProperties DEF TypeInv, Hows
  <2>3. StmtOf(Top).do = "import" /\ StmtOf(Top).ns = ns
    BY <1>1, <1>2
  <2> HIDE DEF at, ns, tns, provided, b
  <2> QED BY <1>2, <2>1, <2>2, <2>3, BeginsLearn
<1> QED BY <1>1, <1>3, InLoadLearn DEF Informed

LEMMA IncludeInformed ==
  ASSUME TypeInv, Placed, Include
  PROVE  Informed
<1>1. /\ stack # <<>> /\ InLoad /\ Reads("include") /\ Stmt.do = "include"
      /\ Stmt.at \in DOMAIN repo.docs
      /\ Enters("include", Stmt.at, TargetNs(Stmt.at, Tns), 0, NoNs, TRUE, {})
  BY StmtType DEF Include
<1>2. StmtOf(Top) \in StmtsOf(Top.at) /\ StmtOf(Top) = Stmt
  BY <1>1, StmtHere
<1>3. SchemasLearn /\ FramesLearn
  <2> DEFINE at == Stmt.at
             tns == TargetNs(Stmt.at, Tns)
             b == TRUE
             provided == {}
  <2>1. /\ at \in DOMAIN repo.docs /\ b \in BOOLEAN /\ provided \in SUBSET Locs
        /\ Enters("include", at, tns, 0, NoNs, b, provided)
    BY <1>1, Zenon
  <2>2. 0 \in 0..Len(wsdls) /\ "include" \in Hows
    BY LenProperties DEF TypeInv, Hows
  <2>3. StmtOf(Top).do = "include" /\ StmtOf(Top).at = at
    BY <1>1, <1>2
  <2> HIDE DEF at, tns, provided, b
  <2> QED BY <1>2, <2>1, <2>2, <2>3, BeginsLearn
<1> QED BY <1>1, <1>3, InLoadLearn DEF Informed

LEMMA LoadTypesInformed ==
  ASSUME TypeInv, LoadTypes
  PROVE  Informed
<1>1. /\ stack' = stack /\ schemas' = schemas /\ loaded' = loaded
      /\ wsdls' = Append(wsdls, [n \in Ns |-> None])
  BY DEF LoadTypes
<1>2. /\ Len(wsdls') = Len(wsdls) + 1 /\ Len(wsdls) \in Nat
      /\ \A w \in 1..Len(wsdls) : wsdls'[w] = wsdls[w]
  <2>1. [n \in Ns |-> None] \in [Ns -> Nat] /\ wsdls \in Seq([Ns -> Nat])
    BY DEF None, TypeInv
  <2> QED BY <1>1, <2>1, AppendProperties, LenProperties
<1>3. CallersLearn
  BY <1>1, <1>2 DEF CallersLearn
<1> QED BY <1>1, <1>3, NoneLearns, StillFrames DEF Informed

LEMMA EscapeInformed ==
  ASSUME TypeInv, Escape
  PROVE  Informed
<1>1. stack # <<>> /\ stack' = Below /\ schemas' = schemas
  BY DEF Escape, TypeInv
<1>2. CallersLearn
  <2>1. CASE InLoad
    BY <2>1, InLoadLearn
  <2>2. CASE ~InLoad
    <3>1. wsdls' = wsdls /\ inline' = <<>> /\ loaded' \subseteq loaded
      BY <2>2 DEF Escape
    <3> QED BY <3>1 DEF CallersLearn
  <2> QED BY <2>1, <2>2
<1> QED BY <1>1, <1>2, NoneLearns, PoppedFrames DEF Informed

\* The innermost load comes to the end of its document.
LEMMA ReadLearns ==
  ASSUME TypeInv, AtEnd, schemas' = Read
  PROVE  SchemasLearn /\ schemas'[Me].whole
<1>1. stack # <<>> /\ Me \in 1..Len(schemas) /\ schemas' = SetWhole(schemas, Me, TRUE)
  BY EndType
<1>2. /\ Updates(schemas, schemas', Me) /\ schemas'[Me].imports = schemas[Me].imports
      /\ schemas'[Me].included = schemas[Me].included /\ schemas'[Me].whole
      /\ schemas'[Me].elements = schemas[Me].elements
  BY <1>1, TopRead
<1>3. Me \in Open
  BY <1>1, TopType DEF Open, Me, Top
<1>4. Learns(Me)
  BY <1>2, <1>3 DEF Learns, Grows
<1> QED BY <1>1, <1>2, <1>4, OneLearns

LEMMA EndFailsInformed ==
  ASSUME TypeInv, EndFails
  PROVE  Informed
<1>1. AtEnd /\ InLoad /\ stack' = stack /\ schemas' = Read
  BY DEF EndFails, SetSchema
<1> QED BY <1>1, ReadLearns, StillFrames, InLoadLearn DEF Informed

LEMMA EndRootInformed ==
  ASSUME TypeInv, EndRoot
  PROVE  Informed
<1>1. /\ AtEnd /\ stack' = Below /\ schemas' = Read
      /\ inline' = inline /\ wsdls' = wsdls /\ loaded' = loaded \cup {Me}
  BY DEF EndRoot, SetSchema
<1>2. stack # <<>> /\ Pops
  BY <1>1, EndType, StackPops
<1>3. SchemasLearn /\ schemas'[Me].whole
  BY <1>1, ReadLearns
<1>4. CallersLearn
  BY <1>1, <1>2, <1>3 DEF CallersLearn
<1> QED BY <1>1, <1>2, <1>3, <1>4, PoppedFrames DEF Informed

LEMMA EndTypesInformed ==
  ASSUME TypeInv, EndTypes
  PROVE  Informed
<1>1. /\ AtEnd /\ stack' = Below /\ schemas' = Read /\ Top.how = "types"
      /\ inline' = inline /\ wsdls' = [wsdls EXCEPT ![Len(wsdls)][Tns] = Me]
      /\ loaded' = loaded \cup {Me}
  BY DEF EndTypes, SetSchema
<1>2. stack # <<>> /\ Pops
  BY <1>1, EndType, StackPops
<1>3. SchemasLearn /\ schemas'[Me].whole
  BY <1>1, ReadLearns
<1>4. ASSUME NEW w \in 1..Len(wsdls), w # Len(wsdls)
      PROVE  wsdls'[w] = wsdls[w]
  <2> DEFINE j == Len(wsdls)
             x == [wsdls[j] EXCEPT ![Tns] = Me]
  <2>1. wsdls \in Seq([Ns -> Nat]) /\ wsdls' = [wsdls EXCEPT ![j] = x] /\ w # j
    BY <1>1, <1>4 DEF TypeInv
  <2> HIDE DEF x, j
  <2> QED BY <2>1
<1>5. CallersLearn
  BY <1>1, <1>2, <1>3, <1>4 DEF CallersLearn
<1> QED BY <1>1, <1>2, <1>3, <1>5, PoppedFrames DEF Informed

\* The load below is at the statement the innermost one is for.
LEMMA CalledFor ==
  ASSUME TypeInv, Placed, Calling, stack # <<>>, Top.how \in {"import", "include"}
  PROVE  LET t == StmtOf(stack[Len(stack) - 1]) IN
         /\ t \in StmtsOf(schemas[Outer].at) /\ t.do = Top.how
         /\ Top.how = "import" => t.ns = Top.ns
         /\ Top.how = "include" => t.at = Top.at
         /\ schemas[Me].at = Top.at
<1>1. /\ Len(stack) - 1 \in 1..Len(stack) /\ Len(stack) \in 1..Len(stack)
      /\ stack[Len(stack) - 1].schema = Outer
  BY OuterType
<1>2. PICK k : k = Len(stack) - 1
  OBVIOUS
<1>3. k \in 1..(Len(stack) - 1) /\ k \in 1..Len(stack) /\ k + 1 = Len(stack)
  BY <1>1, <1>2
<1>4. schemas[Outer].at = stack[k].at /\ schemas[Me].at = Top.at
  BY <1>1, <1>2, <1>3 DEF Placed, Me, Top
<1>5. Top = stack[k + 1]
  BY <1>3 DEF Top
<1> QED BY <1>2, <1>3, <1>4, <1>5 DEF Calling

\* Its schema changes too.
LEMMA BothLearn ==
  ASSUME TypeInv, AtEnd, NEW b \in 1..Len(schemas), b # Me, Updates(Read, schemas', b), Learns(b)
  PROVE  SchemasLearn
<1>1. /\ stack # <<>> /\ Me \in 1..Len(schemas) /\ Read = SetWhole(schemas, Me, TRUE)
      /\ Len(Read) = Len(schemas) /\ \A i \in 1..Len(schemas) : i # Me => Read[i] = schemas[i]
  BY EndType
<1>2. /\ Read[Me].imports = schemas[Me].imports /\ Read[Me].included = schemas[Me].included
      /\ Read[Me].elements = schemas[Me].elements
  BY <1>1, TopRead
<1>3. Me \in Open
  BY <1>1, TopType DEF Open, Me, Top
<1>4. schemas'[Me] = Read[Me]
  BY <1>1 DEF Updates
<1>5. Learns(Me)
  BY <1>2, <1>3, <1>4 DEF Learns, Grows
<1>6. ASSUME NEW i \in 1..Len(schemas), i # Me, i # b
      PROVE  Learns(i)
  BY <1>1, <1>6, SameLearns DEF Updates
<1>7. Len(schemas) \in Nat /\ Len(schemas') = Len(schemas)
  BY <1>1 DEF TypeInv, AreSchemas, Updates
<1>8. (Len(schemas) + 1)..Len(schemas') = {}
  BY <1>7
<1> QED BY <1>5, <1>6, <1>8 DEF SchemasLearn

LEMMA EndImportInformed ==
  ASSUME TypeInv, AgreeInv, Placed, Calling, EndImport
  PROVE  Informed
<1> DEFINE b == Outer
           ns == Top.ns
<1>1. /\ AtEnd /\ InLoad /\ cache' = cache /\ Top.how = "import"
      /\ Adopt(Me, ns, Read, Below)
  BY DEF EndImport
<1>2. stack # <<>> /\ Me \in 1..Len(schemas)
  BY <1>1, EndType
<1>3. /\ Below # <<>> /\ b \in 1..Len(schemas) /\ b # Me /\ b \in Open
      /\ stack' = Advanced(Below) => Pops /\ stack' # <<>>
  BY <1>1, <1>2, BelowType, OuterType DEF Outer
<1>4. cache[ns] = Me /\ ns \in Ns
  <2>1. Len(stack) \in 1..Len(stack)
    BY <1>2, TopType
  <2> QED BY <1>1, <2>1 DEF AgreeInv, Registered, TypeInv, IsStack, Me, Top
<1>5. CASE schemas' = Read /\ stack' = Below
  BY <1>1, <1>2, <1>5, ReadLearns, PoppedFrames, InLoadLearn DEF Informed
<1>6. CASE schemas' = SetImport(Read, b, ns, Me) /\ stack' = Advanced(Below)
  <2>1. Pops
    BY <1>3, <1>6
  <2>2. Finds(b, ns, Me)
    BY <1>1, <1>4, <2>1 DEF Finds
  <2>3. SchemasLearn /\ schemas'[b].imports[ns] = Me
    <3> HIDE DEF b, ns
    <3>1. AreSchemas(Read) /\ Len(Read) = Len(schemas) /\ Read[b] = schemas[b]
      BY <1>1, <1>3, EndType
    <3>2. b \in 1..Len(Read) /\ Me \in Int
      BY <1>2, <1>3, <3>1
    <3>3. /\ Updates(Read, schemas', b)
          /\ schemas'[b].imports = [Read[b].imports EXCEPT ![ns] = Me]
          /\ schemas'[b].whole = Read[b].whole /\ schemas'[b].included = Read[b].included
          /\ schemas'[b].elements = Read[b].elements
      <4> DEFINE s == Read
                 c == Me
      <4>1. /\ AreSchemas(s) /\ b \in 1..Len(s) /\ c \in Int /\ ns \in Ns
            /\ schemas' = SetImport(s, b, ns, c)
        BY <1>4, <1>6, <3>1, <3>2
      <4> HIDE DEF s, c
      <4>2. /\ Updates(s, schemas', b)
            /\ schemas'[b].imports = [s[b].imports EXCEPT ![ns] = c]
            /\ schemas'[b].whole = s[b].whole /\ schemas'[b].included = s[b].included
            /\ schemas'[b].elements = s[b].elements
        BY <4>1, ImportSet
      <4> QED BY <4>2 DEF s, c
    <3>4. schemas[b].imports \in [Ns -> Int]
      BY <1>3 DEF TypeInv, AreSchemas, IsSchema
    <3>5. /\ schemas'[b].imports[ns] = Me
          /\ \A n \in Ns : n # ns => schemas'[b].imports[n] = schemas[b].imports[n]
      BY <1>4, <3>1, <3>3, <3>4
    <3>6. Me # None
      BY <1>2 DEF None
    <3>7. Learns(b)
      BY <1>3, <2>2, <3>1, <3>3, <3>5, <3>6 DEF Learns, Grows
    <3> QED BY <1>1, <1>3, <3>3, <3>5, <3>7, BothLearn
  <2>4. Settled(schemas'[Outer], StmtOf(stack[Len(stack) - 1]))
    <3> DEFINE t == StmtOf(stack[Len(stack) - 1])
    <3>1. t.do = "import" /\ t.ns = ns
      BY <1>1, <1>2, CalledFor
    <3>2. Me # None
      BY <1>2 DEF None
    <3>3. Settled(schemas'[Outer], t)
      <4> HIDE DEF t
      <4> QED BY <1>4, <2>3, <3>1, <3>2 DEF Settled
    <3> QED BY <3>3
  <2> QED BY <1>1, <1>2, <1>3, <1>6, <2>3, <2>4, OuterMoves, InLoadLearn DEF Informed
<1> QED BY <1>1, <1>5, <1>6, Adopts DEF Outer

LEMMA EndIncludeInformed ==
  ASSUME TypeInv, Placed, Calling, EndInclude
  PROVE  Informed
<1> DEFINE b == Outer
           at == Top.at
           t == StmtOf(stack[Len(stack) - 1])
<1>1. /\ AtEnd /\ InLoad /\ cache' = cache /\ Top.how = "include"
      /\ Merge(Me, at, Read, Below)
  BY DEF EndInclude
<1>2. stack # <<>> /\ Me \in 1..Len(schemas)
  BY <1>1, EndType
<1>3. /\ Below # <<>> /\ b \in 1..Len(schemas) /\ b # Me /\ b \in Open
      /\ stack' = Advanced(Below) => Pops /\ stack' # <<>>
  BY <1>1, <1>2, BelowType, OuterType DEF Outer
<1>4. at \in Locs
  BY <1>2, TopType DEF Frame
<1>5. CASE schemas' = Read /\ stack' = Below
  BY <1>1, <1>2, <1>5, ReadLearns, PoppedFrames, InLoadLearn DEF Informed
<1>6. CASE schemas' = Merged(Read, b, at, Me) /\ stack' = Advanced(Below)
  <2>1. Pops
    BY <1>3, <1>6
  <2>2. /\ t \in StmtsOf(schemas[b].at) /\ t.do = "include" /\ t.at = at
        /\ schemas[Me].at = at
    BY <1>1, <1>2, CalledFor
  <2>3. /\ AreSchemas(Read) /\ Len(Read) = Len(schemas) /\ Read[b] = schemas[b]
        /\ Read[Me].imports = schemas[Me].imports /\ Read[Me].whole
        /\ Read[Me].elements = schemas[Me].elements
    BY <1>1, <1>2, <1>3, EndType
  <2> HIDE DEF b, at, t
  <2>4. /\ Updates(Read, schemas', b) /\ schemas'[b].whole = Read[b].whole
        /\ schemas'[b].imports = Both(Read, b, Me)
        /\ schemas'[b].included = [Read[b].included EXCEPT ![at] = Me]
        /\ schemas'[b].elements = Read[b].elements \cup Read[Me].elements
    <3> DEFINE s == Read
               c == Me
    <3>1. /\ AreSchemas(s) /\ b \in 1..Len(s) /\ c \in 1..Len(s)
          /\ schemas' = Merged(s, b, at, c)
      BY <1>2, <1>3, <1>6, <2>3
    <3> HIDE DEF s, c
    <3>2. /\ Updates(s, schemas', b) /\ schemas'[b].whole = s[b].whole
          /\ schemas'[b].imports = Both(s, b, c)
          /\ schemas'[b].included = [s[b].included EXCEPT ![at] = c]
          /\ schemas'[b].elements = s[b].elements \cup s[c].elements
      BY <1>4, <3>1, SchemaMerged
    <3> QED BY <3>2 DEF s, c
  <2>5. schemas[b].included \in [Locs -> Nat] /\ Me # None
    BY <1>2, <1>3 DEF TypeInv, AreSchemas, IsSchema, None
  <2>6. schemas'[Me] = Read[Me]
    BY <1>2, <1>3, <2>3, <2>4 DEF Updates
  <2>7. /\ schemas'[b].included[at] = Me
        /\ \A l \in Locs : l # at => schemas'[b].included[l] = schemas[b].included[l]
    BY <1>4, <2>3, <2>4, <2>5
  <2>8. \A n \in Ns : schemas'[b].imports[n] =
          IF schemas[b].imports[n] = None THEN schemas[Me].imports[n] ELSE schemas[b].imports[n]
    BY <2>3, <2>4 DEF Both
  <2>9. Grows(schemas[b], schemas'[b])
    BY <1>4, <2>3, <2>4, <2>5, <2>7, <2>8 DEF Grows
  <2>10. Covers(schemas'[b], schemas'[Me])
    BY <2>3, <2>4, <2>6, <2>8 DEF Covers
  <2>11. Takes(b, at, Me)
    BY <2>1, <2>2, <2>3, <2>6, <2>10 DEF Takes
  <2>12. ASSUME NEW name \in schemas'[b].elements, name \notin schemas[b].elements
         PROVE  Tells(t, name)
    BY <1>2, <2>2, <2>3, <2>4, <2>12 DEF Tells
  <2>13. ASSUME NEW n \in Ns, NEW c, c = schemas'[b].imports[n], c # schemas[b].imports[n]
         PROVE  Finds(b, n, c)
    BY <1>1, <2>1, <2>8, <2>13 DEF Finds, b
  <2>14. Learns(b)
    BY <1>3, <2>2, <2>3, <2>4, <2>7, <2>9, <2>11, <2>12, <2>13 DEF Learns
  <2>15. SchemasLearn
    BY <1>1, <1>3, <2>4, <2>14, BothLearn
  <2>16. Settled(schemas'[b], t)
    BY <1>4, <2>2, <2>5, <2>7 DEF Settled
  <2> QED BY <1>1, <1>2, <1>3, <1>6, <2>15, <2>16, OuterMoves, InLoadLearn DEF Informed, b, t
<1> QED BY <1>1, <1>5, <1>6, Merges DEF Outer

\* What is included once more is known already.
LEMMA IncludeAgainInformed ==
  ASSUME TypeInv, Placed, Taken, IncludeAgain
  PROVE  Informed
<1> DEFINE c == schemas[Me].included[Stmt.at]
           at == Stmt.at
<1>1. /\ stack # <<>> /\ InLoad /\ Reads("include") /\ Stmt.do = "include"
      /\ at \in Locs /\ c # None /\ Merge(c, at, schemas, stack)
  BY StmtType DEF IncludeAgain
<1>2. Me \in 1..Len(schemas) /\ Me \in Open /\ AreSchemas(schemas)
  BY <1>1, StmtHere
<1>3. PICK d : d = c
  OBVIOUS
<1>4. d \in 1..Len(schemas) /\ Covers(schemas[Me], schemas[d])
  BY <1>1, <1>2, <1>3 DEF Taken
<1>5. CASE schemas' = schemas /\ stack' = stack
  BY <1>1, <1>5, RaiseInformed
<1>6. CASE schemas' = Merged(schemas, Me, at, c) /\ stack' = Advanced(stack)
  <2>1. schemas' = Merged(schemas, Me, at, d) /\ schemas[Me].included[at] = d /\ d # None
    BY <1>1, <1>3, <1>6
  <2> HIDE DEF c, at
  <2>2. /\ Updates(schemas, schemas', Me) /\ schemas'[Me].whole = schemas[Me].whole
        /\ schemas'[Me].imports = Both(schemas, Me, d)
        /\ schemas'[Me].included = [schemas[Me].included EXCEPT ![at] = d]
        /\ schemas'[Me].elements = schemas[Me].elements \cup schemas[d].elements
    BY <1>1, <1>2, <1>4, <2>1, SchemaMerged
  <2>3. schemas[Me].included \in [Locs -> Nat]
    BY <1>2 DEF AreSchemas, IsSchema
  <2>4. \A l \in Locs : schemas'[Me].included[l] = schemas[Me].included[l]
    BY <1>1, <2>1, <2>2, <2>3
  <2>5. schemas'[Me].elements = schemas[Me].elements
    BY <1>4, <2>2 DEF Covers
  <2>6. \A n \in Ns : schemas'[Me].imports[n] = schemas[Me].imports[n]
    BY <1>4, <2>2 DEF Both, Covers
  <2>7. Learns(Me)
    BY <1>2, <2>2, <2>4, <2>5, <2>6 DEF Learns, Grows
  <2>8. SchemasLearn
    BY <1>2, <2>2, <2>7, OneLearns
  <2>9. Settled(schemas'[Me], Stmt)
    BY <1>1, <2>1, <2>4 DEF Settled, at
  <2> QED BY <1>1, <1>6, <2>8, <2>9, AdvancedMoves, InLoadLearn DEF Informed
<1> QED BY <1>1, <1>5, <1>6, Merges DEF Me, Top

\* An import starts again with the URL of its document.
LEMMA RepeatInformed ==
  ASSUME TypeInv, Repeat
  PROVE  Informed
<1>1. stack # <<>> /\ InLoad /\ stack' = Repeated(stack)
  BY DEF Repeat, SetSchema, TypeInv
<1>2. schemas' = SetWhole(schemas, Me, FALSE)
  BY Zenon DEF Repeat, SetSchema, SetWhole
<1>3. /\ Me \in 1..Len(schemas) /\ Updates(schemas, schemas', Me)
      /\ schemas'[Me].imports = schemas[Me].imports
      /\ schemas'[Me].included = schemas[Me].included /\ ~schemas'[Me].whole
      /\ schemas'[Me].elements = schemas[Me].elements
  BY <1>1, <1>2, TopType, TopRepeats
<1>4. Me \in Open
  BY <1>1, TopType DEF Open, Me, Top
<1>5. Learns(Me)
  BY <1>3, <1>4 DEF Learns, Grows
<1>6. SchemasLearn
  BY <1>3, <1>5, OneLearns
<1>7. FramesLearn
  <2> DEFINE n == Len(stack)
             f == [[stack[n] EXCEPT !.next = 1] EXCEPT !.last = TRUE]
  <2>1. stack \in Seq(Frame) /\ n \in 1..n /\ n \in Nat /\ stack[n] \in Frame
    BY <1>1, TopType DEF TypeInv, IsStack, Top
  <2>2. f \in Frame /\ f.next = 1
    <3> DEFINE g == stack[n]
    <3>1. g \in Frame /\ f = [[g EXCEPT !.next = 1] EXCEPT !.last = TRUE]
      BY <2>1
    <3> HIDE DEF g
    <3>2. /\ [[g EXCEPT !.next = 1] EXCEPT !.last = TRUE] \in Frame
          /\ [[g EXCEPT !.next = 1] EXCEPT !.last = TRUE].next = 1
      <4>1. PICK y : y = [g EXCEPT !.next = 1]
        OBVIOUS
      <4>2. y \in Frame /\ y.next = 1
        BY <3>1, <4>1 DEF Frame
      <4>3. [y EXCEPT !.last = TRUE] \in Frame /\ [y EXCEPT !.last = TRUE].next = 1
        BY <4>2 DEF Frame
      <4> QED BY <4>1, <4>3
    <3> QED BY <3>1, <3>2, Zenon DEF g
  <2>3. stack' = [stack EXCEPT ![n] = f]
    BY <1>1 DEF Repeated
  <2> HIDE DEF f
  <2>4. Len(stack') = n /\ \A j \in 1..n : stack'[j] = IF j = n THEN f ELSE stack[j]
    BY <2>1, <2>2, <2>3, ExceptSeq
  <2> QED BY <2>1, <2>2, <2>4 DEF FramesLearn, Begins, Moves
<1> QED BY <1>1, <1>6, <1>7, InLoadLearn DEF Informed

\* An import that was withdrawn is settled as one for later.
LEMMA WithdrawInformed ==
  ASSUME TypeInv, Placed, Calling, Withdraw
  PROVE  Informed
<1> DEFINE t == StmtOf(stack[Len(stack) - 1])
<1>1. /\ stack # <<>> /\ Top.how = "import" /\ InLoad /\ stack' = Advanced(Below)
      /\ schemas' = Postponed(schemas, Outer, Top.ns)
  BY DEF Withdraw, SetSchema, TypeInv, Nothing, Outer
<1>2. Below # <<>> /\ Outer \in 1..Len(schemas) /\ Outer \in Open /\ AreSchemas(schemas)
  BY <1>1, BelowType, OuterType DEF TypeInv
<1>3. Top.ns \in Ns
  <2>1. Len(stack) \in 1..Len(stack)
    BY <1>1, TopType
  <2> QED BY <1>1, <2>1 DEF TypeInv, IsStack, Top
<1>4. SchemasLearn /\ schemas'[Outer].imports[Top.ns] # None
  <2> DEFINE ns == Top.ns
             b == Outer
  <2>1. ns \in Ns /\ b \in 1..Len(schemas) /\ b \in Open /\ schemas' = Postponed(schemas, b, ns)
    BY <1>1, <1>2, <1>3
  <2> HIDE DEF ns, b
  <2>2. /\ Updates(schemas, schemas', b)
        /\ schemas'[b].imports = [schemas[b].imports EXCEPT ![ns] = Lazy]
        /\ schemas'[b].whole = schemas[b].whole /\ schemas'[b].included = schemas[b].included
        /\ schemas'[b].elements = schemas[b].elements
    BY <1>2, <2>1, ImportPostponed, SMTT(40)
  <2>3. Lazy \in Int /\ Lazy # None /\ ~(Lazy > 0)
    BY DEF Lazy, None
  <2>4. SchemasLearn /\ schemas'[b].imports[ns] = Lazy
    BY <2>1, <2>2, <2>3, ImportLearns
  <2> QED BY <2>3, <2>4 DEF ns, b
<1>5. t.do = "import" /\ t.ns = Top.ns
  BY <1>1, CalledFor
<1>6. Settled(schemas'[Outer], t)
  <2> HIDE DEF t
  <2> QED BY <1>3, <1>4, <1>5 DEF Settled
<1> QED BY <1>1, <1>2, <1>4, <1>6, OuterMoves, InLoadLearn DEF Informed

LEMMA NextInformed ==
  ASSUME TypeInv, AgreeInv, ReadInv, Next
  PROVE  Informed
<1>1. Placed /\ Calling /\ Taken
  BY DEF ReadInv
<1>2. CASE Malformed \/ ImportRefused \/ IncludeFails
  BY <1>2, RaiseInformed DEF Malformed, ImportRefused, IncludeFails
<1>3. CASE Steps
  BY <1>1, <1>2, <1>3, ElementInformed, ImportCachedInformed, ImportUnlocatedInformed,
     ImportUnreadableInformed, ImportInformed, IncludeAgainInformed, IncludeInformed,
     EndFailsInformed, EndRootInformed, EndTypesInformed, EndImportInformed, EndIncludeInformed,
     RepeatInformed, WithdrawInformed, EscapeInformed DEF Steps
<1> QED BY <1>3, LoadInformed, LoadTypesInformed, LoadFromNodeInformed, ItemInformed DEF Next

\* Nothing is read at first.
LEMMA NothingRead ==
  Init => ReadInv /\ MeetInv
<1> SUFFICES ASSUME Init PROVE ReadInv /\ MeetInv
  OBVIOUS
<1>1. Len(schemas) = 0 /\ Len(stack) = 0 /\ loaded = {}
  BY DEF Init
<1>2. 1..0 = {} /\ 1..(0 - 1) = {}
  OBVIOUS
<1> QED BY <1>1, <1>2 DEF ReadInv, Placed, ReadSoFar, Calling, ReadThrough, Taken, Sound, Given,
     MeetInv, Leading, OutsideFirm, InlineFirm, InlineFrames

\* No step, nothing new.
LEMMA StutterLearns ==
  ASSUME ReadInv, MeetInv, UNCHANGED vars
  PROVE  ReadInv' /\ MeetInv'
<1>1. /\ schemas' = schemas /\ stack' = stack /\ repo' = repo /\ loaded' = loaded
      /\ cache' = cache /\ wsdls' = wsdls /\ inline' = inline
  BY DEF vars
<1>2. Open' = Open
  BY <1>1 DEF Open
<1>3. \A at : StmtsOf(at)' = StmtsOf(at) /\ Included(at)' = Included(at)
  BY <1>1, SameDocuments
<1>4. Placed' /\ Given' /\ ReadSoFar'
  BY <1>1, <1>2 DEF ReadInv, Placed, Given, ReadSoFar, Settled
<1>5. Calling'
  BY <1>1 DEF ReadInv, Calling, StmtOf, StmtsOf
<1>6. ReadThrough' /\ Taken'
  BY <1>1, <1>2 DEF ReadInv, ReadThrough, StmtsOf, Settled, Taken, Covers
<1>7. Sound'
  <2> SUFFICES ASSUME NEW i \in 1..Len(schemas), NEW name \in schemas[i].elements
               PROVE  \E t \in Included(schemas[i].at)' : t.do = "element" /\ t.name = name
    BY <1>1 DEF Sound
  <2>1. PICK at : at = schemas[i].at
    OBVIOUS
  <2>2. schemas'[i].at = at
    BY <1>1, <2>1
  <2>3. Included(schemas[i].at)' = Included(at)
    BY <1>3, <2>2
  <2> QED BY <2>1, <2>3 DEF ReadInv, Sound
<1>8. MeetInv'
  BY <1>1, <1>2 DEF MeetInv, Leading, OutsideFirm, Outside, InlineFirm, Firm, Complete, InlineFrames
<1> QED BY <1>4, <1>5, <1>6, <1>7, <1>8 DEF ReadInv

------------------------------------------------------------------------------
\* The theorems.

LEMMA LoadingInvariant ==
  Spec => [](TypeInv /\ AgreeInv)
<1>1. Init => TypeInv /\ AgreeInv
  BY InitialFacts
<1>2. TypeInv /\ AgreeInv /\ [Next]_vars => (TypeInv /\ AgreeInv)'
  <2> SUFFICES ASSUME TypeInv, AgreeInv, [Next]_vars
               PROVE  (TypeInv /\ AgreeInv)'
    OBVIOUS
  <2>1. CASE Next
    BY <2>1, NextSteady, TypeStep, AgreeStep
  <2>2. CASE UNCHANGED vars
    <3>1. TypeInv'
      BY <2>2 DEF vars, TypeInv, IsStack, Readable
    <3>2. AgreeInv'
      BY <2>2 DEF vars, AgreeInv, Registered, Distinct, Unfinished, Own, InTypes, ImportsAgree
    <3> QED BY <3>1, <3>2
  <2> QED BY <2>1, <2>2
<1> QED BY <1>1, <1>2, PTL DEF Spec

\* A cycle of imports ends: while a document is read for an import, every other
\* import of its namespace finds the schema it is read into, and no namespace is
\* read within itself, whatever is raised, repeated or withdrawn (CyclesEnd).
THEOREM ImportCyclesEnd == Spec => []CyclesEnd
<1>1. TypeInv /\ AgreeInv => CyclesEnd
  <2> SUFFICES ASSUME TypeInv, AgreeInv, NEW k \in DOMAIN stack, stack[k].how = "import"
               PROVE  /\ cache[stack[k].ns] = stack[k].schema
                      /\ \A j \in 1..(k - 1) : stack[j].how = "import" => stack[j].ns # stack[k].ns
    BY DEF CyclesEnd
  <2>1. k \in 1..Len(stack) /\ Len(stack) \in Nat
    BY LenProperties DEF TypeInv, IsStack
  <2>2. cache[stack[k].ns] = stack[k].schema
    BY <2>1 DEF AgreeInv, Registered
  <2>3. ASSUME NEW j \in 1..(k - 1), stack[j].how = "import"
        PROVE  stack[j].ns # stack[k].ns
    <3>1. j \in 1..Len(stack)
      BY <2>1
    <3>2. cache[stack[j].ns] = stack[j].schema
      BY <2>3, <3>1 DEF AgreeInv, Registered
    <3>3. stack[j].schema < stack[k].schema /\ stack[j].schema \in 1..Len(schemas)
      BY <2>1, <3>1 DEF TypeInv, IsStack
    <3> QED BY <2>2, <3>2, <3>3
  <2> QED BY <2>2, <2>3
<1> QED BY <1>1, LoadingInvariant, PTL

\* All imports of a namespace lead to the one schema registered for it, to a
\* schema in <types>, or to one that was withdrawn before it was read to the
\* end (ImportsAgree).
THEOREM OneSchemaPerNamespace == Spec => []ImportsAgree
<1>1. AgreeInv => ImportsAgree
  BY DEF AgreeInv
<1> QED BY <1>1, LoadingInvariant, PTL

LEMMA ReadingInvariant ==
  Spec => [](TypeInv /\ AgreeInv /\ ReadInv /\ MeetInv)
<1>1. Init => TypeInv /\ AgreeInv /\ ReadInv /\ MeetInv
  BY InitialFacts, NothingRead
<1>2. TypeInv /\ AgreeInv /\ ReadInv /\ MeetInv /\ [Next]_vars
        => (TypeInv /\ AgreeInv /\ ReadInv /\ MeetInv)'
  <2> SUFFICES ASSUME TypeInv, AgreeInv, ReadInv, MeetInv, [Next]_vars
               PROVE  (TypeInv /\ AgreeInv /\ ReadInv /\ MeetInv)'
    OBVIOUS
  <2>1. CASE Next
    <3>1. Steady /\ Informed
      BY <2>1, NextSteady, NextInformed
    <3> QED BY <3>1, TypeStep, AgreeStep, ReadStepKept, MeetInvStep
  <2>2. CASE UNCHANGED vars
    <3>1. TypeInv'
      BY <2>2 DEF vars, TypeInv, IsStack, Readable
    <3>2. AgreeInv'
      BY <2>2 DEF vars, AgreeInv, Registered, Distinct, Unfinished, Own, InTypes, ImportsAgree
    <3> QED BY <2>2, <3>1, <3>2, StutterLearns
  <2> QED BY <2>1, <2>2
<1> QED BY <1>1, <1>2, PTL DEF Spec

\* A program asks a schema, once its document was read to the end, for what the
\* document and those it includes say: it finds all their elements and no
\* others, and every namespace they import is known, whatever cycle, failure or
\* repetition there was on the way (LookupsAgree).
THEOREM LookupsAlwaysAgree == Spec => []LookupsAgree
BY ReadingInvariant, LookupsFact, PTL

\* Two schemas in the <types> of a WSDL find each other by imports without a
\* location, in whatever order they stand (InlineSchemasMeet).
THEOREM InlineSchemasAlwaysMeet == Spec => []InlineSchemasMeet
BY ReadingInvariant, MeetFact, PTL
==============================================================================
