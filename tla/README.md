# A verification development for ZSI

ZSI is a SOAP toolkit for Python: typecodes turn Python objects into XML and
back, a client binding sends messages over HTTP and reads the replies, a
service container or one of several dispatchers receives them, and tools read
WSDL and schemas to generate typecodes and stubs. This directory holds TLA+
models of the parts of it that keep state or interleave, the TLC runs that
check them and the TLAPS proofs about them. Paths below are relative to the
repository.

`PROJECT.json` lists the components, runs, seeded faults, findings, hazards
and theorems, and maps every definition to the lines of the source it stands
for.

## 1. Inventory

| component | state | operations | what is hard | what makes it correct |
|---|---|---|---|---|
| client binding (`ZSI/client.py`, `digest_auth.py`) | connection, `data`, `ps`, `address`, cookies, authorization style, one callback per HTTP status | `Send`, `RPC`, `ReceiveRaw/SOAP/Fault`, `Receive`, `IsSOAP`, `IsAFault`, `SetAuth`, `ResetCookies` | `Send` raises at any stage after some of its changes; the receive loop runs a callback that sends again | one reply is held, it answers the last `Send` that succeeded, repeated reads repeat it |
| WS-Address (`ZSI/address.py`) | message id of the last request | `setRequest`, `setResponseFromWSAddress`, `checkResponse` | an id left behind by a `Send` that failed | a reply of another request is refused |
| service container (`ZSI/ServiceContainer.py`) | tree of services, `_contexts` per thread, `_url` of resources | `setNode`, `removeNode`, `do_POST`, `do_GET`, `_Dispatch` | handlers on several threads, three nested places that catch and answer | a service finds its own context; one whole reply; a resource knows the url of its call or of a later one |
| other dispatchers (`ZSI/dispatch.py`, `fault.py`, `auth.py`) | `_client_binding`, what is written to each client | `_Dispatch`, `AsCGI`, `AsHandler`, `AsJonPy`, `AsServer`, `GetClientBinding`, `GetAuth` | a module variable for all requests, four styles with exits of their own, faults after broken responses | the caller's binding, one reply, a fault that tells whether the operation was run |
| resolvers (`ZSI/resolvers.py`) | caches of URIs and contents | `Opaque`, `XML`, `Resolve`, `ClearNetworkResolverCache` | shared by threads without a lock | a key that was found can be read |
| message writing (`ZSI/writer.py`, `serialize` of `TC.py`, `TCcompound.py`) | document, memory of objects by id, callbacks, `closed` | `serialize`, `serialize_header`, `str`, `close` | callbacks that add callbacks, cycles, two kinds of memory, exceptions half way | every href resolves, no id twice, members in order |
| message parsing (`ZSI/parse.py`) | roots, id caches, body and data elements | constructor, `FindLocalHREF`, `ResolveHREF`, `Parse` | the serialization root among several elements; a cache of searches | an href finds the element of its id, whatever was looked up before |
| typecodes (`ZSI/TC*.py`) | class-wide maps of types, the order of a union's members | `parse`, `serialize`, `text_to_data`, `get_formatted_content` | hrefs in every class its own way, union's memory, sparse arrays, content models, zones | what is written is read back |
| schema registry (`ZSI/schema.py`) | types, elements, cache of instances, lazily revealed types | registration at import, `GTD`, `GED`, `_Mirage`, substitution | order of imports | what a document was read as it stays |
| package namespace (`ZSI/__init__.py`) | cache of prefixes by `id(node)` | `_resolve_prefix` | nodes freed and reused | the namespace is of the node's document |
| timeout socket (`ZSI/wstools/TimeoutSocket.py`) | `_rbuf`, timeout, handle count | `read`, `readline(s)`, `send`, `connect`, `close` | pieces of any size, timeouts half way | no byte lost, doubled or reordered; calls end |
| schema reading (`ZSI/wstools/XMLSchema.py`) | schemas by namespace, imports and includes so far, components being read | `load`, `fromDom` of each component, `getSchemaItem` | documents that import one another; contents read by position | each loaded once, lookups agree, documented contents read and kept |
| wsdl reading (`ZSI/wstools/WSDLTools.py`) | collections by namespace and name | `load`, `_import`, `callInfoFromWSDL` | one tree for documents with prefixes of their own | components and references as their documents mean them |
| code generation (`ZSI/generate/`) | containers of generated text | `fromWSDL`, `write` | order of definitions | a base precedes what derives from it |
| service proxy (`ZSI/ServiceProxy.py`) | generated modules in a file cache | constructor, calls | see "Not modelled" | |
| twisted client and server (`ZSI/twisted/`) | handler chains, nonce cache | `Binding.Send`, `processRequest`, `processResponse` | see "Not modelled" | |
| XML tools (`ZSI/wstools/c14n.py`, `Utility.py`) | namespace stacks, named collections | canonicalization, DOM access | which prefixes are rendered | canonical form |
| logging, diagnostics, scripts, samples | none of interest | | | |

They interact as follows. A client's `Send` makes a `SoapWriter`, takes
its string and writes it on a connection, which may be a `TimeoutSocket`; the
binding parses the reply with `ParsedSoap`. A container's handler, or an entry
point of `dispatch.py`, makes a `ParsedSoap` of the request; `_Dispatch` reads
the arguments with typecodes, calls the service and writes its result with
another `SoapWriter`. Typecodes call `ParsedSoap` for hrefs, the registry for
`xsi:type` and substitutes, the resolvers for other URIs. Generated modules
register themselves when they are imported; the generator reads what the
schema and WSDL readers have loaded. All of it is synchronous. What interleaves
is a container's or a dispatcher's requests on threads, the peer at the other
end of a socket, and, in `ZSI/twisted`, callbacks of deferreds.

## 2. Modules

Each module says in its head what it models. A definition named `Mut...` is a
fault: the definition after it with a plausible bug, used by no
specification. Replacing the one by the other must break a property
(`PROJECT.json`, mutants).

How they build on one another: `MessageReader` extends `Writing`, which extends
`Reading`, `Envelope`, `SimpleTypes` and `Times`, one layer of the library
each; `Results` is the notation these and `Registry` share for a call that
returns or raises; `Dispatch` extends `ResolverCache`, whose actions are steps of
its handlers; `Binding` implements `ReplyCell`; a `...Proofs` module extends the
module it is about. `MC...` modules give the constants their values.

### Binding, ReplyCell, BindingProofs: the client binding

One caller, one `_Binding`. The variables are its attributes (`style`, `jar`,
`conn`, `callback`, `address`, `data`, `ps`), what is under way on
its connection (`pending`), the requests written so far (`wire`) and where the
caller stands (`pc`, `ret`). A request is named by the number of the `Send`
that made it, which also stands for its message id.

`Send(stage, own)` is a whole call that raises in one of five stages, in the
order of the code, or in none; each stage has changed what the code has
changed by then: the address before the connection, the connection before
the headers, the callback before the body, and `data` and `ps` last.
`CallHeld` is a Receive method that finds a body, `CallReads` enters the loop of
`ReceiveRaw`, and the actions after it are the turns of that loop: an exception
(`ReadFails`), `100 Continue`, a final response, a 401 that no callback
answers, one that is answered by a resend, a resend that raises part way, and a
cookie that does not load (`CookiesFail`). `ReceiveSOAP` keeps the parsed form
before it asks `sig_handler.verify`, which may raise (`Verifies`). Of
`checkResponse` only the comparison of message ids is modelled: the addresses
it compares are configuration.
`TextAsBytes` tells Python 2, where md5 and base64 accept `str`, from Python
3, where the digest callback always raises.

`ReplyCell` is what the binding promises: a cell of one reply, emptied by a
`Send` that succeeds and never overwritten. The binding implements it with the cell
being `data` while no method is reading (`Visible`).

External: the connection class and the server. Every response, lost connection and timeout
is a choice made where the code calls `getresponse`.

### ServiceContainer, ServiceContainerProofs: the server

One container, its handlers and the node tree. Variables: `nodes`, `url`
(of resources), `contexts` (`_contexts`), and for each thread identity the step
its handler stands at, its request, the service found and the replies written.
A handler's steps end where it reads or writes something shared: `Post`
(parsed and registered), `Dispatch` (lookup), `Authorize`, `Method`, `Respond`,
`Faulting` (`SendFault`), `Escaped` (the `except` of `do_POST`), `CleanUp`.
Every hook of a service returns or raises, every write stops before the
headers, after them, or not at all, and the exception goes where the code
sends it. `Dispatch` gives a resource the url of its request (`Learns`), which is
one attribute for all handlers; `later`, a history, collects what a handler's
service has learned since it was found. `LegacyHTTP` is the runtime the code was written for: without it
(Python 3) `do_POST` raises before anything and strings are not accepted by the
stream. One administrator changes the tree at any moment.

External: services and sockets.

### SoapWriter, SoapWriterProofs: writing a message

One writer and one message: objects with their typecodes and their members.
`todo` is the recursion of `serialize`, as a list of items still to
write; `elements` is the document; `memo`, `callbacks` and `closed` are the
writer's. `Simple`, `Array`, `AnyContainer`, `Postpone` and `Struct` are the
`serialize` methods and `ComplexType.cb`, each with its own rule for when an
object is remembered and what happens to one that is. `CallBack` is one turn of
`close`, whose list grows while it runs. `Raise` ends a call anywhere; the
writer may then be closed again, as its deletion does.

The calls come in the order of the library's callers (`client.Send`,
`_Dispatch`, `Fault.AsSOAP`): `serialize` once, further headers, `str`. An
object always has one typecode, and objects live as long as the writer.
Messages in which a cycle is not broken by an href are left out: Python's
recursion limit ends them.

### TimeoutSocket, TimeoutSocketProofs: the socket under the HTTP transports

One connected socket, one thread. `rbuf` is the buffer the read methods share,
`call` the method that runs with its locals, `lost` what a method held when a
timeout ended it. Bytes are numbered, pieces have any size, `Expires` is the
`TimeoutError` of a wait. The peer and the kernel are external. A connection
reset has the effect of a timeout. `connect` and the count of open handles are
not modelled.

### SchemaLoading, SchemaLoadingProofs: reading schemas that import one another

One process that loads schemas and WSDLs one after the other. `schemas` are the
`XMLSchema` objects it has made, `cache` is `SchemaReader.namespaceToSchema`,
`stack` the calls of `XMLSchema.load` that run, each at a statement of its
document, and `raised` the exception on its way up. There is an action for each
statement and what can come of it: an import that is refused, found
registered, without location, unreadable or read; an include that is
known, fails or is read. At the end of a document `__setIncludes` and
`__setImports` may raise (`EndFails`), or the caller goes on with the schema
(`EndRoot`, `EndTypes`, `EndImport`, `EndInclude`). `Repeat` is the second
attempt of `loadSchema`, `Withdraw` the `except` of `load`, `Escape` everything
they let through. `getSchemaItem` changes something only when it meets a
postponed import; what it returns or raises is the operator `Answer`.

External: the documents, chosen at the start; a location answers or not for the
whole run.

### SchemaGrammar, SchemaGrammarProofs: the contents of schema components

`fromDom` of every component class takes the children of its element in order
and reads each with an object of its own: `stack` has a frame for each
element that is open, with the children read and those kept, and `ended` is how the
reading ended. The document is chosen as it is read: `Child` opens any child
with any attributes and declarations, `Close` ends an element, and what the
class then does is a row of `Class`. A child that `getContents` passes over
because its class does not name it is `Filtered` and only its tag is remembered (`strays`); one that no branch
makes a component of, or that comes after the loop was left, is `Ignored`. `Docstring` is what
the docstrings list, `Documented` whether the children read are in that order and number. `Unread` names the
documented contents that the code refuses, `Dropped` the children that it drops.

### WSDLLoading, WSDLLoadingProofs: documents that import one another

`WSDL.load` in rounds: `Import` merges the children of one imported document
into the tree, `ImportAgain` meets an import that is already merged, and
`NextRound` starts over until no import is left; then `ReadItem` reads one child
after the other into the collections. The children of `<definitions>` are a list that only
grows, with the positions that were taken out (`gone`) and those the running loop has
still to come to (`todo`). An import without a location has the one of its document, or of its
directory when that is a file (`Location`), and raises if it is a child of the document loaded first; a copied child
has the target namespace of its document written over its own (`SchemaNS`). `callInfoFromWSDL` is an operator on what was
loaded, with its exceptions as values. Every exception ends the load (`Fail`).

### Times, SimpleTypes, Envelope, Reading, Writing, MessageReader: reading messages

`Times` and `SimpleTypes` are the conversions between texts and values;
`Envelope` is `ParsedSoap` with its refusals, the serialization root and
`FindLocalHREF` with its cache; `Reading` and `Writing` are the `parse` and
`serialize` methods, class by class. They are recursive operators that return a
result and the state they leave (`cache`, the order of a union's members).

`MessageReader` puts them into a system. `Write` takes a value, writes it and
lets a sender move parts of it to elements of their own, before or behind the root;
`Receive` takes a document as it is; `ParseBody`, `ReadHeaders` and `Find` are the
calls of a program on the message, in any order and repeatedly.

### Registry: generated modules and what they read

`Import` registers the declarations of a file, `Read` reads a document with
them, `Write` and `ReadBack` write what was read and read it again. `types` and
`elements` are the two dictionaries of `SchemaInstanceType`, `typecodes` the
cache of instances, `prefixes` the cache of `_resolve_prefix`. The content of a
class is what `generate/containers.py` writes for its declaration. A wildcard's
element without declaration or type is read as `Any`, and what `Any` refuses once more as a
dictionary or a string (`Undeclared`); only a nil element with text comes out of that, and the documents of
the runs have none. `Frees` says whether a
node of an earlier document may be freed and its id used again; `lazy` is the
generator's option and chosen at the start.

### ResolverCache, Dispatch, DispatchProofs: serving without a container

`site` is the entry point with the style it passes on, `call` the requests, `pc`
where each is served, `binding` the variable `_client_binding` of each process,
`sent` what was written to each client. CGI serves a request per process,
`AsServer` one at a time, mod_python and jonpy one per thread of one process
(`Taken`, `ProcessOf`). A request is refused for its method or headers
(`RefuseMethod`, `RefuseHeaders`), or its body is read (`ReadBody`), which lasts until
the client has sent what it announced, or for a multipart closed its side. Then the
message is refused (`RefuseMessage`, `Abort`) or goes on to `_Dispatch` (`Accept`). `Bind` looks up the handler and
binds the client in one step, `CallHandler` evaluates the arguments, `AskClient` and
`AskURI` are what a handler does that others can tell, `Return`,
`RaiseException` and `RaiseFault` how it ends, and `Finish` is one write, whole,
broken or never begun. The steps of a lookup are those of `ResolverCache`, one
for each access to a dictionary or to the network.

Typecodes, modules and URIs are external here: an argument is "good", "bad" (an
`EvaluateException`) or "strange" (another exception).

## 3. Runs

| run | instance | what it shows |
|---|---|---|
| `binding` | two `Send`s, three requests on the wire, all kinds of replies, addressing, Python 2 | `ParsedIsHeld`: the DOM is that of the body held. `HeldAnswersLastSend`: what is held answers the last `Send` that succeeded. `AtMostOneResend`: a server that keeps answering 401 gets one resend. `RepeatsReply`: a method that returned a reply returns it again. `ImplementsCell`: refinement of `ReplyCell` |
| `container` | two handlers on two identities, a plain service and a resource, two urls of one path, three requests | `OwnContext`: a service finds the context of its own call. `OwnOrLaterURL`: the url a resource knows while it serves a call is that of this call or of one dispatched to it since. `FaultsFollowBroken`: a whole reply is the last. `EndsAnswered`: a dispatched call ends answered and cleaned up, unless its last fault broke off |
| `timeout_socket` | six bytes in three lines, buffer of two | `Accounted`: no byte doubled, reordered or lost except with a method that raised. `WholeOrEnd`: short results only at the end of the stream. `LineKeptOnTimeout`: a `readline` that timed out can be called again. `CallEnds` |
| `writer` | three objects, every combination of ten typecodes, tree, cycle, `None`, headers | `HrefsResolve`, `IdsOnce`, `PartsInOrder` |
| `schema_loading` | three documents in every arrangement of imports and includes that matters, some missing, malformed or without namespace; a WSDL with two schemas; two loads | `CyclesEnd`: no namespace is read within itself. `ImportsAgree`: all imports of a namespace lead to one schema. `LookupsAgree`: a schema read to the end answers as its documents say. `InlineSchemasMeet`: the schemas of a WSDL find each other in either order |
| `schema_grammar` | every document of up to five elements with three children each, among them children that a class does not name | `DocumentedContentsRead`: documented contents are not refused. `DocumentedContentsKept`: nor filtered, overwritten or lost, but for `Dropped`. `InnermostNamespace`: a QName has the namespace of the innermost declaration around it |
| `wsdl` | three documents, every arrangement of imports, with and without location, every way to write a reference, every combination of soap extensions | `LoadedAsDeclared`: a WSDL holds the components of all documents it reaches, once, as each document means them. `CallsAsDeclared`: a call has the parameters that the documents give it. `LoadEnds` |
| `reader` | some seventy values with their typecodes, and as many documents, right and wrong | `ReadAsWritten`: what was written is read, wherever a sender puts its parts. `FirstReadAnswers`: earlier lookups make no difference. `SoleMember`: earlier messages make none to a union. `InstantsKept`: a dateTime read and written is the same instant |
| `registry` | two modules that share a namespace, imported in either order between readings of some fifty documents | `ReadsAsDeclared`: every child goes to the right field with the right type. `SameAnswers`: later imports change nothing for a document. `WrittenReadsBack` |
| `registry_prefixes` (violation) | two documents that bind one prefix differently, nodes freed | `PrefixesOfTheirDocument` fails: a cache keyed by `id(node)` outlives the node |
| `dispatch` | two requests on every entry point in every style | `Answered`: an entry point returns exactly when its last write was a whole reply. `NoEarlierClient`: the binding a handler gets is its own or a later one. `BlamedIsUndone`: a fault that blames the client means that nothing was run. `FaultsTraceable`: a fault keeps its id and detail on the way. `KeyErrorOnlyByClear`: the two unlocked dictionaries agree unless cleared. `RequestsEnd`: a request ends if its client sends its body and takes its reply, whatever the other clients do, but at `AsServer` |
| `dispatch_server` (violation) | `AsServer` | `CalledIsAnswered` fails: no reply of it can be written |

### Bounds, and why they are enough

- `Binding`: `MaxSend = 2` lets a `Send` fail over a held reply, or a callback of the
  first `Send` meet the second. `MaxWire = 3` allows two
  requests and a resend, or a failed resend and another. A third `Send` meets only what the second left behind. The
  theorems hold for every number of them.
- `ServiceContainer`: two identities are enough for one handler to
  come between any two steps of another; an identity serves any number of
  requests after another. The requests have one member for each way an
  address and an action can agree, differ or be absent. Threads are symmetric.
- `SoapWriter`: three objects give an object shared at two depths, shared siblings, and a
  cycle of two; `Closes = 2` is `str` and the deletion of the writer.
- `TimeoutSocket`: the buffer is smaller than a line and than the largest
  amount, so every comparison of the code is met from both sides, at
  equality too.
- `SchemaLoading`: three documents give cycles of two and three, diamonds,
  and a document reached on two paths; `MaxLoads = 2` lets a load
  meet what another left registered. `Depth = 8` is more than any arrangement
  without a cycle of includes needs, so that only such a cycle meets the
  limit, as in Python.
- `SchemaGrammar`: `MaxKids = 3` puts something before and behind the child that a
  branch of `fromDom` looks for; `MaxSize = 5` and `MaxDepth = 6` open every
  class, the deepest being the parts of a simple content within a WSDL. An element with declarations
and a child that is filtered count twice in `MaxSize`, and children of one tag that are filtered count once in `MaxKids`:
that a class does not name a tag is the same for each of them. Attributes
  come in the eight sets that some check of a class tells apart.
- `WSDLLoading`: a document reached twice, by itself, through another, under a
  wrong namespace and not at all needs three documents with two imports each.
  References, extensions and imports are varied one family at a time: loading treats them one
  after the other.
- `MessageReader`: two hrefs give a moved part within a moved part, two
  references to one element, and an element before and one behind the root. `Messages = 3`
  lets a union be reordered twice; only messages read by unions are followed by others,
  because the order of a union's members is all that a message leaves behind. The zone of the program changes twice within one year
  (`DstStart`, `DstEnd`), and texts lie before, between and behind.
- `Registry`: `Reads = 2`, one document before and one after an import, which is
  what `SameAnswers` compares. `MaxPrefixes = 1` stands for the limit of
  2048: the third prefix that is looked up clears the cache. Without `Frees` it starts
  empty with every document, whose nodes have ids of their own. A document is a word or two in every construct, and
  its own family for each of locals, references, wildcards and types.
- `Dispatch`: two requests are enough for one to come between any two steps of the other.
  The first is any of some twenty, one for each exit of the code; the second only asks for the client or a
  URI, the two things it could disturb. URIs are resolved at one entry point and style, since
  the entry points do not differ between call and return. One URI
  with two contents lets two fetches disagree. The theorems hold for any number of all of them.

Deadlock is checked in the runs of `Binding` and `ServiceContainer`. The others really
stop: a writer that has been read, a peer that closes, a program that has loaded, read or served all that comes.

### Fairness

`Binding` and `ServiceContainer` assume none and state no liveness: a server
may never answer, and the standard HTTP connection waits without limit.
`SoapWriter` is sequential code that waits for nothing, so `WF_vars(Runs)` says
that a running call goes on. In `TimeoutSocket` every wait is a `select` with a
timeout, so a running method takes a step sooner or later, be it
`Expires`; nothing is assumed of the peer. `SchemaLoading` and `WSDLLoading` are sequential too,
and `WF_vars(Steps)` and `WF_vars(Next)` say that a location answers or fails. The runs check no
liveness of `SoapWriter` and `SchemaLoading`.
In `Dispatch` there is `WF_vars(Serve(r))` for each request: a request that has arrived is
served on, a handler and a fetch come to an end. Nothing is assumed
of clients: `Parse` and `Finish`, which wait for a client to send its body or to take a reply,
are not fair. `RequestsEnd` asks of a request's own client that it lets them happen (`Lets`), and of the others too at `AsServer`, where
a request waits for those before it.
`MessageReader`, `Registry` and `SchemaGrammar` are steps of a program that calls when it likes.

## 4. Proofs

TLAPS checks, for every value of the constants that their assumptions
allow:

- `BindingProofs`: `TypeOK`, `ParsedIsHeld`, `AtMostOneResend`,
  `HeldAnswersLastSend`, the action property `RepeatsReply` and the refinement
  `Spec => Cell!Spec`. `HeldAnswersLastSend` is not inductive: it says nothing of a reply still to
  come. The strengthening adds that the pending request is one that was written on
  the current connection, by its `Send` or by a resend. `AtMostOneResend`
  needs that a callback that is installed holds a request whose resend is not
  on the wire yet. `RepeatsReply` needs that what a method has returned is what
  is held, until a `Send` empties both (`ReturnedInv`).
- `ServiceContainerProofs`: `TypeOK`, `OwnContext`, `OwnOrLaterURL`,
  `FaultsFollowBroken` and the action property `EndsAnswered`. The
  invariant adds to the types that a handler that serves has a request and its
  context (`CallInv`), and, step by step, what the replies written so
  far look like (`ReplyInv`).
- `SoapWriterProofs`: `TypeOK`, in particular that `close` never runs past
  its callbacks, `IdsOnce`, `HrefsResolve` and `PartsInOrder`. The invariant adds that an
  element with an id has an object that is Known, or stems from the header
  (`IdInv`), and that only items of the header are marked unique
  (`UniqueInv`), which callbacks and arrays could spoil and do not. An href is
  often written before its element: `HrefInv` says that until the element is in the
  document its object waits among the callbacks or among the items a callback has still to
  write; `LateInv` and `RememberedInv` say the same of the objects the writer remembers.
  For the order, the elements of the document followed by the items still to write
  are one line: `LineInv` says that in it the parts of every object whose content was begun stand once and in
  their order, and `BelowInv` that nothing else stands below it; writing an item only moves places in
  that line, so no step needs an induction over it.
- `TimeoutSocketProofs`: `TypeOK`, `Accounted`, `WholeOrEnd` and the action property
  `LineKeptOnTimeout`. The invariant adds what the locals of a running method
  have to do with the buffer and with what was asked for (`Locals`): a `read` that goes on
  has emptied the buffer and still wants what it does not hold, and a `readline` or `send` holds nothing.
- `SchemaLoadingProofs`: `CyclesEnd`, `ImportsAgree`, `LookupsAgree` and `InlineSchemasMeet`. The types alone are an
  invariant of several parts (`TypeInv`). `AgreeInv` adds that just the schemas that are being read for an
  import are registered, each for its namespace (`Registered`), that no two namespaces lead to one schema (`Distinct`), that
  only imports of its own namespace know a schema that is being read (`Own`), that such a schema
  is not whole yet (`Unfinished`), and that schemas of `<types>` know their WSDL (`InTypes`). Each of the actions is shown to be a `Steady` step, one that
  develops the schemas, the cache, the stack and the caller in one of a few ways (`SchemaStep`,
  `CacheStep`, `StackStep`, `CallerStep`); that `Steady` steps keep the invariant is
  then proved once. The other two properties speak of what the documents say, and neither is
  inductive. `ReadInv` follows a statement through the reading: a load has settled the statements before the one it
  is at (`ReadSoFar`), the load below another is at the statement the other is for (`Calling`), a schema that is whole
  has settled all (`ReadThrough`), what it includes is whole, no longer read, and taken over completely (`Taken`), and it has no
  element but those of its documents (`Sound`). The documents a schema reaches by includes are the least
  closed set around its own (`Reach`), so that the locations it has taken over, being closed, contain them: the proof
  follows no path of includes and needs no induction. For `InlineSchemasMeet` the import of a schema in `<types>`
  must lead to one that is registered and cannot be withdrawn (`Firm`), or to one of its WSDL when all of that are
  read; `MeetInv` says this of schemas that are read (`InlineFirm`) and, as no import
  encloses them, of those being read (`OutsideFirm`). What both need of a step is that it is `Informed`: schemas
  only gain elements, includes and imports, each from a statement or a schema that has it, and a load
  moves on only past a statement it has settled.
- `SchemaGrammarProofs`: `DocumentedContentsRead`, `DocumentedContentsKept` and
  `InnermostNamespace`, for documents of any size and depth. The first two compare each
  row of `Class`, which stands for the code, with the row of `Documented`, which stands for the
  docstring: `RowsFit` and `GroupsAreFit` (with `ListedFit`: what a docstring lists, the class names) do so class by class, and the lemmas after it carry
  a row that fits over to any sequence of children. `Typed` and `Nested` add that each frame has the class
  that its parent's row names. The value of the recursive function `getXMLNS`, which looks through the
  scopes from the innermost outwards, is `NamespaceFound`.
- `WSDLLoadingProofs`: `LoadedAsDeclared` with `MergedOnce`, and `CallsAsDeclared`, for any
  documents that import one another. `KidsInv` says where each child is from, `GoneInv` that only
  imports are taken out, of documents that were imported, `MergeInv` that of these nothing is missing,
  and `BlockInv` that nothing is there twice. `ReachInv` keeps the imported documents within every
  closed set; when a round imports nothing no import is left (`RoundInv`), so that they are a closed set
  themselves, and therefore those that are reached. A call then follows the names through
  the collections, where `Unambiguous` leaves one component to find.
- `DispatchProofs`: `Answered`, `NoEarlierClient`, `BlamedIsUndone`, `FaultsTraceable` and
  `KeyErrorOnlyByClear`, over invariants of their own beside the shapes of the variables
  (`TypeOK`). `CacheInv`: a lookup that has checked a key, and was not overtaken
  by a clear, finds it. `ClientInv`: the requests that assigned `_client_binding`
  are listed once each, the variable is the last of those of its process, and
  what a handler has got is at its own place of the list or behind. `ReplyInv`: at each step, what
  may have been written so far (`InTime`, `Closed`), and who the pending reply
  may blame (`Blameless`). `TraceInv`: a fault that is pending has the id and the report that it will
  be sent with.

Assumptions are those named in the modules (`BindingAssumption`,
`ContainerAssumption`, `MessagesAssumption`, `SocketAssumption`, `LoadingAssumption`,
`GrammarAssumption`, `WSDLAssumption`, `SiteAssumption`; the others are in modules without theorems); TLC evaluates
them in each run. The strengthenings `Locals`, `AgreeInv`, `ReadInv`, `MeetInv`, `Typed`, `Nested` and those of `WSDLLoadingProofs` were
checked by TLC as invariants of the same instances before they were proved.

Only model-checked, and why:

- Liveness (`CallEnds`, `LoadEnds`, `RequestsEnd`): the prover does not reach it.
- Everything of `MessageReader` with its layers and of `Registry`: recursive operators, and equality of what
  a recursion over trees computes, by induction over data.

## 5. What the models left open or brought to light

The two violation runs are in `PROJECT.json` under findings. What follows was met
while the models were written; they behave as the code does, and each property above says what
it leaves out because of it.

Client and container:

- After a reply with an empty body the Receive methods read again, though
  `doc/c10-dispatch.tex` says they return the same value until the next `Send`.
- On Python 3 a digest challenge is never answered: md5 is given `str`.
- When the last fault breaks off, the context stays in `_contexts`.
- On threads `getServiceURL` may return the url of a later call, even of one that is refused.
- A structure that is not inline puts an href into the header; the second
  occurrence of an array that is not mutable leaves nothing at all.

Schemas and WSDLs:

- A load from file or URL that had to postpone an import fails, though a
  postponed import is meant to be evaluated later.
- Of two components of one namespace and name in a WSDL the last one is found.
- The contents named in `Unread` are refused. Those named in `Dropped` are lost: the fields of keys, `documentation` and
  `appinfo` of every annotation, the annotation of a notation (`contents = {'xsd': 'annotation'}` is a string, whose
  letters `getContentList` is given), and annotations and redefines of the schema itself.

Reading and writing values:

- The zone `-00:30` is read as `+00:30`; negative years and durations lose their
  sign; with `nooffset=0` no offset is written at all.
- A union tries the member that matched last first, though `test/test_union.py` (70 to 73) says it
  goes through its members in order: an ambiguous text is read by what the messages before it were.
- Sparse arrays lose their positions in writing. A missing required member is noticed only where another child stands in its place.
- A wrong value of an enumeration raises `NameError`, a `Decimal` outside its range `AttributeError`.
- `Struct` with `maxOccurs='unbounded'` raises `TypeError`; mixed text of a dictionary is not written.

Registry:

- The first declaration of a name wins, whichever module made it. A recursive type without `lazy` ends in a `RecursionError`.
- An `xsi:type` at a reference to an element is read, but what was read cannot be written. The
  same goes for a node below a `skip` wildcard and for a wrapped built-in.
- A wildcard that finds a declared element with an `xsi:type` loses the substituted type. Restrictions of extended types write fields twice.
- A child that an unbounded reference has taken for its group is taken once more by a wildcard behind it.

Dispatch:

- `GetClientBinding` may return the binding of a later request on threads, with its client's password.
- `HTTP_AUTHENTICATION` is seen under CGI only; a partial `BasicAuth` raises `KeyError`;
  a password with a colon is split into more items.
- In style `doc` whatever the handler raises is blamed on the client, and the handler's own `Fault` is lost.
  `BlamedIsUndone` leaves that style out.
- A handler's `Fault` whose detail cannot be written gets no reply; the raised exception leaves the entry point.
- An array item that cannot be read becomes a fault of the server, not of the client.
- mod_python and jonpy never set the status 500; `Content-Length` counts characters.
- The header detail of a fault is not read by `FaultFromFaultMessage`; the XML detail of a parse
  fault is written as escaped text.
- A body is read until the client has sent as much as its `Content-Length` announces, a multipart to the
  end of the connection: a client that sends less, that waits for the reply before it
  closes, or that never takes the reply keeps `AsServer` waiting, and everybody behind it.
- The resolver cache never expires, and a fetch begun before a clear stores its content after it.

## 6. Not modelled

- `ServiceProxy`: every call ends in an `UnboundLocalError`, because the loop variable `method` of
  `call_closure` hides the parameter of `_call`.
- `ZSI/twisted`: its modules cannot be imported on Python 3 (`classProvides` and `implements`
  of zope.interface raise, `twisted.web.client` has no `HTTPClientFactory`).
- `c14n.py` and the text of XML: pure functions from a tree to text; the models' messages are trees.
- WSDL: faults and documentation, WS-Addressing actions, imports of one element by fragment;
  `toDom` ends in an `AttributeError` on Python 3.
- Schemas: `redefine`, which the code ignores; text forms for debugging.
- Typecodes: pyclass of simple types, `XMLString`, `AttachmentRef`, a map with `aslist`; elements that
  refer to themselves, whose reading ends in a `RecursionError`.
- `ParsedSoap`: queries of headers by actor.
- Registry: `RegisterBuiltin`, `checkSubstitute`, SOAP arrays, attributes, the metaclass `pyclass_type`,
  `typeinterpreter.py`.
- Resolvers: the dictionaries of a `MIMEResolver` and the prefixes of a `NetworkResolver`, filled once
  and only looked up by one handler.
- Writing: attachments and the MIME envelope. Socket: `connect` and the counting of handles.
- Generation: the order and text of generated modules. What they contain is in `Registry`.
- Digest and TLS computations: a challenge is answerable or not.
- Logging, tracing and telemetry change no modelled state; scripts, samples and
  interop programs use the library and add nothing to it.

## 7. Plan

Done, in this order: `Binding` with `ReplyCell`, `ServiceContainer`, `TimeoutSocket`,
`SoapWriter`, `SchemaLoading`, `SchemaGrammar`, `WSDLLoading`, `MessageReader` with its layers,
`Registry`, `ResolverCache` and `Dispatch`; the proofs of `Binding`, `ServiceContainer`, `SoapWriter`,
`TimeoutSocket`, `SchemaLoading`, `SchemaGrammar`, `WSDLLoading` and `Dispatch`.

Next, in order of worth:

1. An abstract message, a map from ids to values, that `MessageReader` implements; a registry as a
   function that only grows, that `Registry` implements.
2. The order of generated definitions, as a function checked against its definition.
3. The namespace stack of `c14n.py`, checked against the rendering rules it quotes.
