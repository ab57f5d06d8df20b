------------------------------ MODULE Dispatch ------------------------------
(***************************************************************************)
(* Serving a request without a service container: the entry points of      *)
(* src/ZSI/dispatch.py (AsServer, AsCGI, AsHandler for mod_python and      *)
(* AsJonPy), _Dispatch with its four styles, the faults of fault.py, the   *)
(* client's credentials of auth.py, and handlers that resolve URIs through *)
(* the cache of ResolverCache.                                             *)
(*                                                                         *)
(* A CGI script serves one request and ends; AsServer serves them one at a *)
(* time; mod_python and jonpy serve each on a thread, and the threads      *)
(* share the module: the binding of the client and the cache.              *)
(*                                                                         *)
(* A step of a request ends where another request can tell: when the       *)
(* handler has been looked up and _client_binding assigned, when the       *)
(* arguments have been evaluated, at each access of the handler to the     *)
(* shared state, when the handler returns, at each write to the client.    *)
(*                                                                         *)
(* A definition Mut... is the one that follows it with a fault seeded in;  *)
(* no action uses it.                                                      *)
(***************************************************************************)
EXTENDS Integers, Sequences, FiniteSets, ResolverCache

CONSTANTS
    Sites,      \* [entry, style]: an entry point and the style it passes on
    Calls,      \* request -> site -> the messages that may arrive as it
    Results,    \* name -> what a handler of that name may return: [kind, wide]
    Modules,    \* a sequence of modules: name -> "absent", "data", "callable"
    Asks,       \* name -> what a handler of that name asks for
    NoCall      \* before a message has arrived

VARIABLES
    site,       \* the entry point in use
    call,       \* the request that arrived, NoCall before
    pc,         \* where the serving of each request is
    binding,    \* _client_binding of each process: a request, None at first
    bound,      \* the requests in the order they assigned it (a history)
    args,       \* what the handler is called with
    seen,       \* whose binding and credentials the handler got
    pending,    \* the reply being written
    sent        \* what has been written to each client

dispatchVars == <<site, call, pc, binding, bound, args, seen, pending, sent>>
vars == <<dispatchVars, cacheVars>>

Entries == {"server", "cgi", "handler", "jonpy"}
Styles == {"docstyle", "doc", "types", "any"}

None == "None"
NoRoot == "no root"

(* Requests of a CGI script have a process each, the others share one.     *)
Process(r) == IF site.entry = "cgi" THEN r ELSE "shared"
ProcessOf == [r \in Requests |-> Process(r)]

ASSUME SiteAssumption ==
    /\ Sites \subseteq {s \in [entry : Entries, style : Styles] :
                            s.entry = "cgi" => s.style # "docstyle"}
    /\ Processes = Requests \cup {"shared"}

(***************************************************************************)
(* Faults                                                                  *)
(***************************************************************************)
(* A Fault: its code, the items of its detail and of its header detail,    *)
(* whether it has a request id, whether its details can be written, and    *)
(* whether it has characters of several bytes.                             *)
Fault(code, detail, headerdetail, id) ==
    [code |-> code, detail |-> detail, headerdetail |-> headerdetail,
     id |-> id, writable |-> TRUE, wide |-> FALSE]

MustUsePOST == Fault("Client", <<>>, <<>>, FALSE)

FaultFromZSIException(inheader) ==
    IF inheader THEN Fault("Client", <<>>, <<"trace">>, TRUE)
    ELSE Fault("Client", <<"trace">>, <<>>, TRUE)

FaultFromException(inheader) ==
    IF inheader THEN Fault("Server", <<>>, <<"exception">>, TRUE)
    ELSE Fault("Server", <<"exception">>, <<>>, TRUE)

(* The Fault a handler raises is its own: no id, and perhaps a detail that *)
(* no typecode writes.                                                     *)
OwnFault(writable) ==
    [Fault("own", <<"own detail">>, <<>>, FALSE) EXCEPT !.writable = writable]

(* A reply that is no fault. *)
Response(wide) ==
    [Fault("response", <<>>, <<>>, FALSE) EXCEPT !.wide = wide]

(* Fault seeded: the request id only where there is no detail.             *)
MutDetailOf(f) ==
    IF f.id /\ f.detail = <<>> THEN <<"request id">> ELSE f.detail

(* Fault.serialize: the request id is one more item of the detail.         *)
DetailOf(f) == f.detail \o (IF f.id THEN <<"request id">> ELSE <<>>)

(* What the client reads of a fault: the header detail stays unread.       *)
FaultFromFaultMessage(message) ==
    [code |-> message.code, detail |-> message.detail]

(***************************************************************************)
(* Writing to the client                                                   *)
(***************************************************************************)
(* mod_python and jonpy never set the status they are given.               *)
Status(code) ==
    IF code = "response" \/ site.entry \in {"handler", "jonpy"} THEN 200 ELSE 500

(* What the client finds on the connection.  Content-Length counts the     *)
(* characters of the text: it falls short when some take several bytes.    *)
Message(reply, whole) ==
    [status |-> Status(reply.code), code |-> reply.code,
     detail |-> DetailOf(reply), header |-> reply.headerdetail,
     short |-> reply.wide, whole |-> whole]

(* A reply sets out: "try" while the except clauses of _Dispatch are around*)
(* the write, "last" in one of these clauses, "entry" before _Dispatch.    *)
Send(r, reply, level) ==
    /\ pending' = [pending EXCEPT ![r] = [reply |-> reply, level |-> level]]
    /\ pc' = [pc EXCEPT ![r] = "sending"]

(* SendFault in the last except clause of _Dispatch *)
Crash(r) == Send(r, FaultFromException(FALSE), "last")

Level(r) == pending[r].level
Reply(r) == pending[r].reply

Put(r, whole) == sent' = [sent EXCEPT ![r] = Append(@, Message(Reply(r), whole))]

(* Fault seeded: a write that breaks outside the try block is              *)
(* passed over.                                                            *)
MutRaised(r) ==
    IF Level(r) = "try" THEN Crash(r)
    ELSE /\ pc' = [pc EXCEPT ![r] = "returned"]
         /\ UNCHANGED pending

(* The write raises: within the try block a fault is sent for it.          *)
Raised(r) ==
    IF Level(r) = "try" THEN Crash(r)
    ELSE /\ pc' = [pc EXCEPT ![r] = "raised"]
         /\ UNCHANGED pending

(* send_xml has no parameter request_id: within _Dispatch the call itself  *)
(* raises; before it the headers are written and then the text, a str, is  *)
(* refused by wfile.                                                       *)
WriteServer(r) ==
    /\ site.entry = "server"
    /\ IF Level(r) = "entry" THEN Put(r, FALSE) ELSE UNCHANGED sent
    /\ Raised(r)

Write(r) ==
    /\ site.entry # "server"
    /\ \/ /\ Reply(r).writable
          /\ Put(r, TRUE)
          /\ pc' = [pc EXCEPT ![r] = "returned"]
          /\ UNCHANGED pending
       \/ /\ Reply(r).writable          \* the connection breaks
          /\ Put(r, FALSE)
          /\ Raised(r)
       \/ /\ ~Reply(r).writable         \* AsSOAP raises
          /\ UNCHANGED sent
          /\ Raised(r)

Finish(r) ==
    /\ pc[r] = "sending"
    /\ WriteServer(r) \/ Write(r)
    /\ UNCHANGED <<site, call, binding, bound, args, seen, cacheVars>>

(***************************************************************************)
(* The entry points                                                        *)
(***************************************************************************)
Dispatching == <<site, call, binding, bound, args, seen, sent, cacheVars>>

(* BaseHTTPRequestHandler itself answers what is not a POST to AsServer.   *)
Arrive(r) ==
    /\ pc[r] = "none"
    /\ \E c \in Calls[r][site] :
        /\ site.entry = "server" => c.method = "POST"
        /\ call' = [call EXCEPT ![r] = c]
    /\ pc' = [pc EXCEPT ![r] = "arrived"]
    /\ UNCHANGED <<site, binding, bound, args, seen, pending, sent, cacheVars>>

(* AsCGI and AsJonPy look at the method; all but AsHandler, which parses   *)
(* the body of whatever request it is given, need two headers.             *)
Posted(c) == site.entry = "handler" \/ c.method = "POST"
Measured(c) ==
    site.entry = "handler" \/ c.type = "multipart" \/ (c.type = "xml" /\ c.length)

(* What ParsedSoap takes: no MIME from AsHandler, and not the bytes that   *)
(* AsServer has read, which the XML reader does not even look into.        *)
Text(c) ==
    /\ ~(site.entry = "handler" /\ c.type = "multipart")
    /\ ~(site.entry = "server" /\ c.type = "xml")
Soap(c) == Text(c) /\ c.message = "soap"

(* ParseException *)
Unparseable(c) == Text(c) /\ c.message \in {"unreadable", "header unreadable"}
ParseFault(c) == FaultFromZSIException(c.message = "header unreadable")

(* Fault seeded: a request that raised is taken to be served still.        *)
MutTaken(r) ==
    /\ pc[r] = "arrived"
    /\ site.entry = "server" =>
        \A q \in Requests : pc[q] \in {"none", "arrived", "returned"}

(* HTTPServer serves one request after the other.                          *)
Taken(r) ==
    /\ pc[r] = "arrived"
    /\ site.entry = "server" =>
        \A q \in Requests : pc[q] \in {"none", "arrived", "returned", "raised"}

RefuseMethod(r) ==
    /\ Taken(r) /\ site.entry # "server"
    /\ ~Posted(call[r])
    /\ Send(r, MustUsePOST, "entry")
    /\ UNCHANGED Dispatching

(* An exception before _Dispatch: AsServer puts it down to the header, the *)
(* others do not catch it.                                                 *)
Stumble(r) ==
    IF site.entry = "server" THEN Send(r, FaultFromException(TRUE), "entry")
    ELSE pc' = [pc EXCEPT ![r] = "raised"] /\ UNCHANGED pending

RefuseHeaders(r) ==
    /\ Taken(r)
    /\ Posted(call[r]) /\ ~Measured(call[r])
    /\ Stumble(r)
    /\ UNCHANGED Dispatching

(* The body is read: as many characters as Content-Length says, a          *)
(* multipart to the end of the stream, however long it says it is.         *)
ReadBody(r) ==
    /\ Taken(r)
    /\ Posted(call[r]) /\ Measured(call[r])
    /\ pc' = [pc EXCEPT ![r] = "reading"]
    /\ UNCHANGED <<pending, Dispatching>>

(* The read returns when the client has sent the rest, or closed its side, *)
(* and ParsedSoap is given what it returned.                               *)
RefuseMessage(r) ==
    /\ pc[r] = "reading" /\ site.entry # "handler"
    /\ Unparseable(call[r])
    /\ Send(r, ParseFault(call[r]), "entry")
    /\ UNCHANGED Dispatching

(* An empty multipart, bytes or a text that is no XML raises something     *)
(* else; to AsHandler a ParseException is no different.                    *)
Abort(r) ==
    LET c == call[r] IN
    /\ pc[r] = "reading"
    /\ ~Soap(c) /\ (Unparseable(c) => site.entry = "handler")
    /\ Stumble(r)
    /\ UNCHANGED Dispatching

Accept(r) ==
    /\ pc[r] = "reading" /\ Soap(call[r])
    /\ pc' = [pc EXCEPT ![r] = "parsed"]
    /\ UNCHANGED <<pending, Dispatching>>

(***************************************************************************)
(* _Dispatch: the handler and its arguments                                *)
(***************************************************************************)
Found(what) == {i \in DOMAIN Modules : Modules[i][what] # "absent"}
Callables(what) == {i \in Found(what) : Modules[i][what] = "callable"}
HasHandler(what) == what # NoRoot /\ Cardinality(Callables(what)) = 1

(* Unknown method, unimplemented method, multiple implementations, or a    *)
(* body without a root: a TypeError or AttributeError in the try block.    *)
LackHandler(r) ==
    /\ pc[r] = "parsed"
    /\ ~HasHandler(call[r].what)
    /\ Crash(r)
    /\ UNCHANGED Dispatching

(* Fault seeded: the binding of the first request is kept.                 *)
MutBind(r) ==
    /\ pc[r] = "parsed"
    /\ HasHandler(call[r].what)
    /\ binding' = [binding EXCEPT ![Process(r)] = IF @ = None THEN r ELSE @]
    /\ bound' = Append(bound, r)
    /\ pc' = [pc EXCEPT ![r] = "bound"]
    /\ UNCHANGED <<site, call, args, seen, pending, sent, cacheVars>>

(* _client_binding = ClientBinding(ps) *)
Bind(r) ==
    /\ pc[r] = "parsed"
    /\ HasHandler(call[r].what)
    /\ binding' = [binding EXCEPT ![Process(r)] = r]
    /\ bound' = Append(bound, r)
    /\ pc' = [pc EXCEPT ![r] = "bound"]
    /\ UNCHANGED <<site, call, args, seen, pending, sent, cacheVars>>

(* The parts of a message: the children of the body's root.  The root as a *)
(* whole is part 0.  A part is "good", "bad" (EvaluateException) or        *)
(* "strange" (any other exception); they are evaluated in their order.     *)
Parts(c) == DOMAIN c.parts
Flaws(c) == {i \in Parts(c) : c.parts[i].value # "good"}
FirstFlaw(c) ==
    IF site.style = "docstyle" \/ Flaws(c) = {} THEN "good"
    ELSE c.parts[CHOOSE i \in Flaws(c) : \A j \in Flaws(c) : i <= j].value

Names(c) == {c.parts[i].name : i \in Parts(c)}

(* A dictionary keeps the last of the children with one name.              *)
Named(c) ==
    [n \in Names(c) |->
        CHOOSE i \in Parts(c) :
            /\ c.parts[i].name = n
            /\ \A j \in Parts(c) : c.parts[j].name = n => j <= i]

NotCalled == [positional |-> <<>>, named |-> Empty, called |-> FALSE]
CallWith(positional, named) ==
    [positional |-> positional, named |-> named, called |-> TRUE]

Arguments(c) ==
    CASE site.style \in {"docstyle", "doc"} -> CallWith(<<0>>, Empty)
      [] site.style = "any" /\ c.array -> CallWith([i \in Parts(c) |-> i], Empty)
      [] OTHER -> CallWith(<<>>, Named(c))

CallHandler(r) ==
    /\ pc[r] = "bound"
    /\ FirstFlaw(call[r]) = "good"
    /\ args' = [args EXCEPT ![r] = Arguments(call[r])]
    /\ pc' = [pc EXCEPT ![r] = "called"]
    /\ UNCHANGED <<site, call, binding, bound, seen, pending, sent, cacheVars>>

(* EvaluateException is the client's fault; but the fault for an array's   *)
(* item is made of a RuntimeError, without AsSOAP, and that crashes.       *)
RefuseArguments(r) ==
    LET c == call[r] IN
    /\ pc[r] = "bound"
    /\ FirstFlaw(c) = "bad"
    /\ IF site.style = "any" /\ c.array THEN Crash(r)
       ELSE Send(r, FaultFromZSIException(FALSE), "try")
    /\ UNCHANGED Dispatching

StumbleOverArguments(r) ==
    /\ pc[r] = "bound"
    /\ FirstFlaw(call[r]) = "strange"
    /\ Crash(r)
    /\ UNCHANGED Dispatching

(***************************************************************************)
(* The handler.  It may ask for the client and resolve a URI before it     *)
(* returns or raises.                                                      *)
(***************************************************************************)
(* ClientBinding.GetAuth.  os.environ is the request's own in a CGI script *)
(* alone; a BasicAuth header that lacks a part raises KeyError.  The       *)
(* answer is cached on the binding, which keeps it as its message and its  *)
(* copy of the environment never change.                                   *)
Environ(q) == IF site.entry = "cgi" THEN call[q].http ELSE "absent"

GetAuth(q) ==
    CASE call[q].zsi = "partial" -> <<"KeyError">>
      [] call[q].zsi \notin {"absent", "partial"} -> <<"zsibasic", call[q].zsi>>
      [] call[q].zsi = "absent" /\ Environ(q) \notin {"absent", "digest"} ->
            <<"httpbasic", Environ(q)>>
      [] OTHER -> <<"none">>

NotAsked == [whose |-> None, auth |-> <<>>]

(* GetClientBinding().GetAuth() *)
AskClient(r) ==
    /\ pc[r] = "called"
    /\ "client" \in Asks[call[r].what]
    /\ seen[r] = NotAsked
    /\ seen' = [seen EXCEPT ![r] = [whose |-> binding[Process(r)],
                                    auth |-> GetAuth(binding[Process(r)])]]
    /\ UNCHANGED <<site, call, pc, binding, bound, args, pending, sent, cacheVars>>

(* Opaque(uri, ...) *)
AskURI(r) ==
    /\ pc[r] = "called"
    /\ "uri" \in Asks[call[r].what]
    /\ \E uri \in Uris : GetKey(r, Process(r), uri)
    /\ UNCHANGED dispatchVars

Resolve(r) ==
    /\ pc[r] = "called"
    /\ Opaque(r, Process(r))
    /\ UNCHANGED dispatchVars

Running(r) == pc[r] = "called" /\ ~Busy(r)

(* What the result is to the style: written, not to be written, or without *)
(* the typecode that a response of style "doc" needs.                      *)
Judged(kind) ==
    CASE site.style = "docstyle" -> IF kind = "dom" THEN "fits" ELSE "misfits"
      [] site.style = "doc" -> CASE kind = "typed" -> "fits"
                                 [] kind = "mistyped" -> "misfits"
                                 [] OTHER -> "untyped"
      [] OTHER -> IF kind \in {"mistyped", "odd"} THEN "misfits" ELSE "fits"

Return(r) ==
    /\ Running(r)
    /\ \E res \in Results[call[r].what] :
        CASE Judged(res.kind) = "fits" -> Send(r, Response(res.wide), "try")
          [] Judged(res.kind) = "untyped" ->
                Send(r, FaultFromZSIException(FALSE), "try")
          [] OTHER -> Crash(r)
    /\ UNCHANGED Dispatching

(* Fault seeded: every style blames the client, as "doc" does.             *)
MutRaiseException(r) ==
    /\ Running(r)
    /\ Send(r, FaultFromZSIException(FALSE), "try")
    /\ UNCHANGED Dispatching

(* In style "doc" any exception of the handler is the client's fault.      *)
RaiseException(r) ==
    /\ Running(r)
    /\ IF site.style = "doc" THEN Send(r, FaultFromZSIException(FALSE), "try")
       ELSE Crash(r)
    /\ UNCHANGED Dispatching

(* ... and its own Fault is lost; elsewhere it is sent as it is.           *)
RaiseFault(r) ==
    /\ Running(r)
    /\ IF site.style = "doc" THEN Send(r, FaultFromZSIException(FALSE), "try")
       ELSE \E writable \in BOOLEAN : Send(r, OwnFault(writable), "last")
    /\ UNCHANGED Dispatching

(***************************************************************************)
(* The whole                                                               *)
(***************************************************************************)
Init ==
    /\ site \in Sites
    /\ call = [r \in Requests |-> NoCall]
    /\ pc = [r \in Requests |-> "none"]
    /\ binding = [p \in Processes |-> None]
    /\ bound = <<>>
    /\ args = [r \in Requests |-> NotCalled]
    /\ seen = [r \in Requests |-> NotAsked]
    /\ pending = [r \in Requests |-> [reply |-> Response(FALSE), level |-> "none"]]
    /\ sent = [r \in Requests |-> <<>>]
    /\ CacheInit

Enter(r) == RefuseMethod(r) \/ RefuseHeaders(r) \/ ReadBody(r)

Parse(r) == RefuseMessage(r) \/ Abort(r) \/ Accept(r)

Prepare(r) ==
    \/ LackHandler(r) \/ Bind(r)
    \/ CallHandler(r) \/ RefuseArguments(r) \/ StumbleOverArguments(r)

Handle(r) ==
    \/ AskClient(r) \/ AskURI(r) \/ Resolve(r)
    \/ Return(r) \/ RaiseException(r) \/ RaiseFault(r)

Serve(r) == Enter(r) \/ Prepare(r) \/ Handle(r)

(* ClearNetworkResolverCache, by any thread of a process *)
Clear ==
    /\ \E p \in Processes : ClearKeys(p, ProcessOf) \/ ClearContents(p, ProcessOf)
    /\ UNCHANGED dispatchVars

Next ==
    \/ \E r \in Requests : Arrive(r) \/ Parse(r) \/ Serve(r) \/ Finish(r)
    \/ Clear

(* A request that has arrived is served on, once it is its turn; handlers  *)
(* and fetches come to an end.  Nothing is assumed of the clients: what a  *)
(* read or a write waits for, ahead of Parse and Finish, may never happen. *)
Spec == Init /\ [][Next]_vars /\ \A r \in Requests : WF_vars(Serve(r))

(***************************************************************************)
(* Properties                                                              *)
(***************************************************************************)
(* A request of AsCGI, AsHandler or AsJonPy gets one reply: the entry      *)
(* point returns exactly when the last thing written is a whole reply,     *)
(* whatever was written before it broke off, and raises with nothing       *)
(* written only before dispatching or for a Fault of the handler's that    *)
(* cannot be written.  (dispatch.py, _Dispatch)                            *)
OneReply(r) ==
    LET n == Len(sent[r]) IN
    /\ \A i \in 1..n : sent[r][i].whole => i = n
    /\ pc[r] = "returned" => n > 0 /\ sent[r][n].whole
    /\ pc[r] = "raised" =>
        \/ n > 0 /\ ~sent[r][n].whole
        \/ n = 0 /\ ~args[r].called
        \/ n = 0 /\ ~Reply(r).writable

Answered == site.entry # "server" => \A r \in Requests : OneReply(r)

(* A reply is sent for every request that a handler has been called for    *)
(* and that has ended: "Call SendResponse or SendFault to send the reply   *)
(* back, appropriately." (dispatch.py:29)                                  *)
CalledIsAnswered ==
    \A r \in Requests :
        pc[r] \in {"returned", "raised"} /\ args[r].called => sent[r] # <<>>

(* The place of a request among those that assigned the binding.           *)
Position(r) == CHOOSE i \in DOMAIN bound : bound[i] = r

(* The binding a handler gets is of its own request or of one dispatched   *)
(* later by another thread, never the leftover of an earlier one; one      *)
(* request at a time, or a process for each, makes it the handler's own.   *)
NoEarlierClient ==
    \A r \in Requests :
        seen[r] # NotAsked =>
            /\ seen[r].whose \in Requests
            /\ Position(seen[r].whose) >= Position(r)
            /\ site.entry \in {"cgi", "server"} =>
                seen[r] = [whose |-> r, auth |-> GetAuth(r)]

(* A fault that blames the client's message says that nothing was done: no *)
(* handler was called.  Style "doc" breaks this, it blames the client for  *)
(* whatever its handler raises.                                            *)
BlamedIsUndone ==
    site.style # "doc" =>
        \A r \in Requests : \A i \in DOMAIN sent[r] :
            sent[r][i].code = "Client" => ~args[r].called

(* The faults _Dispatch and the entry points make reach the client with    *)
(* one request id, to find the log by, and with what they report in the    *)
(* detail, or in the header when it is about the header.                   *)
FaultsTraceable ==
    \A r \in Requests : \A i \in DOMAIN sent[r] :
        LET f == FaultFromFaultMessage(sent[r][i])
            ids == {k \in DOMAIN f.detail : f.detail[k] = "request id"} IN
        f.code = "Server" \/ (f.code = "Client" /\ Posted(call[r])) =>
            /\ Cardinality(ids) = 1
            /\ Len(f.detail) + Len(sent[r][i].header) = 2

(* Opaque raises KeyError only when somebody cleared the cache while it    *)
(* ran: the key it found may be of a content not stored yet, or cleared,   *)
(* and it looks before it reads.                                           *)
KeyErrorOnlyByClear ==
    \A r \in Requests : lookup[r].step = "KeyError" => lookup[r].cleared

(* The read or write of one request does not keep another waiting for      *)
(* ever, be it that the client goes on or that nobody has to wait for it.  *)
Lets(q, r) ==
    []<>(pc[q] \notin {"reading", "sending"} \/ (q # r /\ site.entry # "server"))

(* Every request ends whose own client sends the body it announced and     *)
(* takes the reply, whatever the other clients do; at AsServer, which has  *)
(* one request wait for the other, whose clients all do.                   *)
RequestsEnd ==
    \A r \in Requests :
        (\A q \in Requests : Lets(q, r)) => (pc[r] = "arrived" ~> pc[r] \in {"returned", "raised"})
=============================================================================
