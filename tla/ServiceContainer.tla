--------------------------- MODULE ServiceContainer ---------------------------
(***************************************************************************)
(* The server side of ZSI: a ServiceContainer, its request handler and     *)
(* _Dispatch (ZSI/ServiceContainer.py).                                    *)
(*                                                                         *)
(* A container is an HTTPServer with a tree of services.  A handler parses *)
(* a POST, remembers it in the module's _contexts under the identity of    *)
(* its thread, and calls _Dispatch, which finds the service, checks and    *)
(* runs it and writes a response or a fault.  What goes wrong is caught in *)
(* three places, each of which writes another fault, and the last of them  *)
(* may raise past the clean-up.  HTTPServer itself runs one handler at a   *)
(* time; with ThreadingMixIn, for which _contexts is kept per thread,      *)
(* handlers interleave wherever they read or write what they share: the    *)
(* node tree, _contexts, and the _url of a WSAResource.                    *)
(*                                                                         *)
(* The services (their authorize, verify and sign hooks and the operation  *)
(* itself) and the socket are the environment: they succeed or raise.      *)
(***************************************************************************)
EXTENDS Naturals, Sequences

(* A definition Mut... is the one that follows it with a fault seeded in; no *)
(* specification uses it, a property is checked to reject it.                *)

CONSTANTS
  Threads,     \* thread identities; an identity serves one request after another
  Urls,        \* request paths as written
  Paths,       \* what NodeTree keeps of a url
  PathOf,      \* urlsplit(url)[2] without its first "/"
  Services,    \* instances of ServiceSOAPBinding
  Resources,   \* those that are instances of WSAResource
  Foreign,     \* objects that are not services
  Actions,     \* SOAP Action and WS-Action values
  SoapAction,  \* the keys of each service's soapAction dictionary
  Requests,    \* the POSTs considered
  LegacyHTTP,  \* headers have getheader, wfile.write accepts str: not in Python 3
  None         \* Python's None

\* wsa: the Action of the WS-Address header, "bad" when there is no parsable
\* header; rooted: the body's root element is a key of the root dictionary
\* of the service that it is sent to.
AnyRequest == [post : Urls, action : Actions \cup {None},
               wsa : Actions \cup {None, "bad"}, rooted : BOOLEAN]

ASSUME ContainerAssumption ==
  /\ PathOf \in [Urls -> Paths]
  /\ Resources \subseteq Services
  /\ Foreign \cap Services = {}
  /\ SoapAction \in [Services -> SUBSET Actions]
  /\ Requests \subseteq AnyRequest
  /\ LegacyHTTP \in BOOLEAN
  /\ None \notin Services \cup Requests \cup Urls \cup Actions

\* What send_xml is asked to write, and how much of it reaches the socket
\* before an exception; "whole" is the only part that raises none.
Kinds == {"response", "empty", "fault", "denied", "page", "missing"}
Parts == {"nothing", "headers", "whole"}
Reply == [kind : Kinds, part : Parts]

VARIABLES
  nodes,     \* NodeTree: the service at each path, or None
  url,       \* _url of each WSAResource, or None
  contexts,  \* _contexts: the request of a thread's SOAPContext, or None
  pc,        \* where the handler of a thread stands
  req,       \* the request it serves, or None
  service,   \* the service that _Dispatch found for it, or None
  replies,   \* what it wrote so far to answer that request
  later      \* history only: the urls its service learned since that was found

vars == <<nodes, url, contexts, pc, req, service, replies, later>>

\* Steps of the handler: "dispatch" to "respond" are _Dispatch, "faulting"
\* is its SendFault, "escaped" the last except of do_POST.
Serving == {"authorize", "method", "respond"}
Steps   == {"idle", "dispatch", "faulting", "escaped", "cleanup"} \cup Serving

Init ==
  /\ nodes = [p \in Paths |-> None]
  /\ url = [s \in Resources |-> None]
  /\ contexts = [t \in Threads |-> None]
  /\ pc = [t \in Threads |-> "idle"]
  /\ req = [t \in Threads |-> None]
  /\ service = [t \in Threads |-> None]
  /\ replies = [t \in Threads |-> <<>>]
  /\ later = [t \in Threads |-> {}]

------------------------------------------------------------------------------
\* The node tree, changed before the server runs and by services.

\* NodeTree.setNode: objects that are not services and paths that are taken
\* are refused, by exceptions that change nothing.
SetNode(s, u) ==
  /\ s \in Services
  /\ nodes[PathOf[u]] = None
  /\ nodes' = [nodes EXCEPT ![PathOf[u]] = s]
  /\ UNCHANGED <<url, contexts, pc, req, service, replies, later>>

RemoveNode(u) ==
  /\ nodes[PathOf[u]] # None
  /\ nodes' = [nodes EXCEPT ![PathOf[u]] = None]
  /\ UNCHANGED <<url, contexts, pc, req, service, replies, later>>

------------------------------------------------------------------------------
\* Writing a reply: send_xml and send_fault.

\* Headers are flushed before the text; a text is str, which only an old
\* stream accepts.  A fault may fail to serialize before anything is written.
CanWrite(kind, part) ==
  part = "whole" => LegacyHTTP \/ kind \in {"empty", "missing"}

\* Thread t writes a reply and goes on at one step if that raises nothing,
\* at another if it does.
Sends(t, kind, part, after, raised) ==
  /\ CanWrite(kind, part)
  /\ replies' = [replies EXCEPT ![t] = Append(@, [kind |-> kind, part |-> part])]
  /\ pc' = [pc EXCEPT ![t] = IF part = "whole" THEN after ELSE raised]

\* Thread t goes on at another step.
Goes(t, step) ==
  /\ pc' = [pc EXCEPT ![t] = step]
  /\ UNCHANGED replies

\* The locals of a handler that ends are gone.
Ends(t) ==
  /\ req' = [req EXCEPT ![t] = None]
  /\ service' = [service EXCEPT ![t] = None]
  /\ later' = [later EXCEPT ![t] = {}]

------------------------------------------------------------------------------
\* do_POST and do_GET.

\* The request has no path, so PostNotSpecified is raised past everything, or
\* its headers have no getheader, so AttributeError is.
PostRaises(t) ==
  /\ pc[t] = "idle"
  /\ replies' = [replies EXCEPT ![t] = <<>>]
  /\ UNCHANGED <<nodes, url, contexts, pc, req, service, later>>

\* The message cannot be read or parsed: a fault, outside any try.
PostUnparsed(t, part) ==
  /\ pc[t] = "idle"
  /\ LegacyHTTP
  /\ CanWrite("fault", part)
  /\ replies' = [replies EXCEPT ![t] = <<[kind |-> "fault", part |-> part]>>]
  /\ UNCHANGED <<nodes, url, contexts, pc, req, service, later>>

\* The message is parsed: its context is registered, _Dispatch is called.
Post(t, r) ==
  /\ pc[t] = "idle"
  /\ LegacyHTTP
  /\ pc' = [pc EXCEPT ![t] = "dispatch"]
  /\ req' = [req EXCEPT ![t] = r]
  /\ replies' = [replies EXCEPT ![t] = <<>>]
  /\ contexts' = [contexts EXCEPT ![t] = r]
  /\ UNCHANGED <<nodes, url, service, later>>

\* GET: the wsdl, if it is asked for and the service has one, or an error page.  The lookup of
\* a service that is not there raises and nothing is written.
Get(t, u, asked, has, part) ==
  /\ pc[t] = "idle"
  /\ LET found == nodes[PathOf[u]] # None
         kind  == IF asked /\ found /\ has THEN "page" ELSE "missing"
     IN /\ CanWrite(kind, part)
        /\ replies' = [replies EXCEPT ![t] =
                         IF asked /\ ~found THEN <<>> ELSE <<[kind |-> kind, part |-> part]>>]
  /\ UNCHANGED <<nodes, url, contexts, pc, req, service, later>>

\* The except of do_POST: whatever escaped _Dispatch becomes a fault; if
\* writing that raises too, the handler ends without the clean-up.
Escaped(t, part) ==
  /\ pc[t] = "escaped"
  /\ Sends(t, "fault", part, "cleanup", "idle")
  /\ IF part = "whole" THEN UNCHANGED <<req, service, later>> ELSE Ends(t)
  /\ UNCHANGED <<nodes, url, contexts>>

MutCleanUpAll(t) ==
  /\ pc[t] = "cleanup"
  /\ contexts' = [u \in Threads |-> None]
  /\ Goes(t, "idle")
  /\ Ends(t)
  /\ UNCHANGED <<nodes, url>>
MutCleanUpNone(t) ==
  /\ pc[t] = "cleanup"
  /\ Goes(t, "idle")
  /\ Ends(t)
  /\ UNCHANGED <<nodes, url, contexts>>
CleanUp(t) ==
  /\ pc[t] = "cleanup"
  /\ contexts' = [contexts EXCEPT ![t] = None]
  /\ Goes(t, "idle")
  /\ Ends(t)
  /\ UNCHANGED <<nodes, url>>

------------------------------------------------------------------------------
\* _Dispatch.

\* What getOperation makes of a request: the root element names the
\* operation, or else the action does; a WSAResource looks at the WS-Action.
Action(s, r) == IF s \in Resources THEN r.wsa ELSE r.action
HasOperation(s, r) == r.rooted \/ Action(s, r) \in SoapAction[s]

\* The address of a WSAResource request is parsed and agrees with the
\* SOAPAction header, if there is one.
Addressed(r) == r.wsa # "bad" /\ (r.action # None => r.action = r.wsa)

\* setServiceURL: service s, if it is a WSAResource, has one _url for all the
\* handlers that use it, that of the request dispatched to it last.
MutLearns(s, u) == url' = IF s \in Resources /\ url[s] = None THEN [url EXCEPT ![s] = u] ELSE url
Learns(s, u) == url' = IF s \in Resources THEN [url EXCEPT ![s] = u] ELSE url

\* The service is looked up and learns the url of this request, even of one
\* that is then refused; the handlers that use it note what it has learned.
Dispatch(t) ==
  LET r == req[t]
      s == nodes[PathOf[r.post]]
  IN /\ pc[t] = "dispatch"
     /\ service' = [service EXCEPT ![t] = s]
     /\ Learns(s, r.post)
     /\ later' = [u \in Threads |-> IF u = t THEN {}
                                     ELSE IF s \in Resources /\ service[u] = s
                                          THEN later[u] \cup {r.post}
                                     ELSE later[u]]
     /\ Goes(t, IF s = None THEN "escaped"
                ELSE IF s \in Resources /\ ~Addressed(r) THEN "faulting"
                ELSE "authorize")
     /\ UNCHANGED <<nodes, contexts, req>>

\* The service refuses the request: a fault with status 401 and no more.
MutDenied(t, part) ==
  /\ pc[t] = "authorize"
  /\ Sends(t, "denied", part, "method", "escaped")
  /\ UNCHANGED <<nodes, url, contexts, req, service, later>>
Denied(t, part) ==
  /\ pc[t] = "authorize"
  /\ Sends(t, "denied", part, "cleanup", "escaped")
  /\ UNCHANGED <<nodes, url, contexts, req, service, later>>

\* authorize accepts and the operation is looked up, or authorize raises.
Authorize(t, raises) ==
  /\ pc[t] = "authorize"
  /\ Goes(t, IF raises THEN "escaped"
             ELSE IF HasOperation(service[t], req[t]) THEN "method"
             ELSE "faulting")
  /\ UNCHANGED <<nodes, url, contexts, req, service, later>>

\* The operation raises, or it returns and verify is called.
Method(t, raises, verified) ==
  /\ pc[t] = "method"
  /\ Goes(t, IF raises THEN "faulting" ELSE IF verified THEN "respond" ELSE "escaped")
  /\ UNCHANGED <<nodes, url, contexts, req, service, later>>

\* The operation has no result: an empty response, outside any try.
RespondEmpty(t, part) ==
  /\ pc[t] = "respond"
  /\ Sends(t, "empty", part, "cleanup", "escaped")
  /\ UNCHANGED <<nodes, url, contexts, req, service, later>>

\* The response is not made: serializing it or its WS-Address header raises,
\* which is a fault, or getResponseAction or sign does, which escapes.
RespondFails(t, caught) ==
  /\ pc[t] = "respond"
  /\ Goes(t, IF caught THEN "faulting" ELSE "escaped")
  /\ UNCHANGED <<nodes, url, contexts, req, service, later>>

\* The response is written; if that raises, a fault is written after it.
Respond(t, part) ==
  /\ pc[t] = "respond"
  /\ Sends(t, "response", part, "cleanup", "faulting")
  /\ UNCHANGED <<nodes, url, contexts, req, service, later>>

\* SendFault in _Dispatch.
Faulting(t, part) ==
  /\ pc[t] = "faulting"
  /\ Sends(t, "fault", part, "cleanup", "escaped")
  /\ UNCHANGED <<nodes, url, contexts, req, service, later>>

------------------------------------------------------------------------------
Administer ==
  \E u \in Urls : RemoveNode(u) \/ \E s \in Services \cup Foreign : SetNode(s, u)

Handle(t) ==
  \/ PostRaises(t)
  \/ \E r \in Requests : Post(t, r)
  \/ Dispatch(t)
  \/ \E raises \in BOOLEAN :
       \/ Authorize(t, raises)
       \/ RespondFails(t, raises)
       \/ \E verified \in BOOLEAN : Method(t, raises, verified)
  \/ CleanUp(t)
  \/ \E part \in Parts :
       \/ PostUnparsed(t, part)
       \/ \E u \in Urls, asked, has \in BOOLEAN : Get(t, u, asked, has, part)
       \/ Escaped(t, part)
       \/ Denied(t, part)
       \/ RespondEmpty(t, part)
       \/ Respond(t, part)
       \/ Faulting(t, part)

Next == Administer \/ \E t \in Threads : Handle(t)

Spec == Init /\ [][Next]_vars

------------------------------------------------------------------------------
TypeOK ==
  /\ nodes \in [Paths -> Services \cup {None}]
  /\ url \in [Resources -> Urls \cup {None}]
  /\ contexts \in [Threads -> Requests \cup {None}]
  /\ pc \in [Threads -> Steps]
  /\ req \in [Threads -> Requests \cup {None}]
  /\ service \in [Threads -> Services \cup {None}]
  /\ replies \in [Threads -> Seq(Reply)]
  /\ later \in [Threads -> SUBSET Urls]

\* Code of a service that asks for the context of its call gets the context
\* of the request it is serving: no other thread and no call left behind on
\* the same thread identity comes between.
OwnContext ==
  \A t \in Threads : pc[t] \in Serving => contexts[t] = req[t]

\* What getServiceURL tells the code of a WSAResource is the url of the call it
\* serves, or that of a call dispatched to the same resource since: never what
\* an earlier call left behind, and never nothing.  (The code does not promise
\* more: one attribute serves all the handlers of a threading server.)
OwnOrLaterURL ==
  \A t \in Threads : pc[t] \in Serving /\ service[t] \in Resources =>
    url[service[t]] \in {req[t].post} \cup later[t]

\* A second reply to one request is a fault, and only follows a reply that
\* broke off: a reply that was written whole is the last.
FaultsFollowBroken ==
  \A t \in Threads : \A i, j \in 1..Len(replies[t]) :
    i < j => replies[t][i].part # "whole" /\ replies[t][j].kind = "fault"

\* When _Dispatch has been called for a request, the handler does not end
\* without having tried to reply, and the context of the call is dropped
\* unless the last reply was a fault that broke off.
EndsAnswered ==
  [][\A t \in Threads : pc[t] # "idle" /\ pc'[t] = "idle" =>
       /\ replies'[t] # <<>>
       /\ contexts'[t] # None =>
            LET last == replies'[t][Len(replies'[t])]
            IN last.kind = "fault" /\ last.part # "whole"]_vars
==============================================================================
