------------------------ MODULE ServiceContainerProofs ------------------------
(***************************************************************************)
(* Theorems about ServiceContainer, for any number of threads, services,   *)
(* urls and requests.  Everything follows from what is true of one thread  *)
(* at each step of its handler: CallInv about the call it tracks, ReplyInv *)
(* about what it has written; OwnOrLaterURL, which relates the _url that    *)
(* handlers share to the history of each of them, is inductive as it is.   *)
(***************************************************************************)
EXTENDS ServiceContainer, TLAPS

\* A handler that is not idle has a request, tracked under its own identity.
CallInv ==
  \A t \in Threads : pc[t] # "idle" => req[t] \in Requests /\ contexts[t] = req[t]

Broken(rs) == \A i \in 1..Len(rs) : rs[i].part # "whole"
Ordered(rs) ==
  \A i, j \in 1..Len(rs) : i < j => rs[i].part # "whole" /\ rs[j].kind = "fault"

\* Up to its first reply a handler has written nothing; while it still means
\* to reply, all it wrote broke off; when it cleans up, it has replied.
Unanswered == {"dispatch"} \cup Serving
ReplyInv ==
  \A t \in Threads :
    /\ pc[t] \in Unanswered => replies[t] = <<>>
    /\ pc[t] \in {"faulting", "escaped"} => Broken(replies[t])
    /\ pc[t] = "cleanup" => replies[t] # <<>>
    /\ Ordered(replies[t])

IInv == TypeOK /\ CallInv /\ ReplyInv /\ OwnOrLaterURL

------------------------------------------------------------------------------
\* Typing.

\* A reply that is written is appended to those of the thread.
LEMMA SendsType ==
  ASSUME TypeOK, NEW t \in Threads, NEW kind \in Kinds, NEW part \in Parts,
         NEW after \in Steps, NEW raised \in Steps, Sends(t, kind, part, after, raised)
  PROVE  /\ replies' \in [Threads -> Seq(Reply)]
         /\ pc' \in [Threads -> Steps]
<1>1. [kind |-> kind, part |-> part] \in Reply
  BY DEF Reply
<1>2. Append(replies[t], [kind |-> kind, part |-> part]) \in Seq(Reply)
  BY <1>1 DEF TypeOK
<1>3. QED
  BY <1>2 DEF Sends, TypeOK

\* Every step keeps the types; the lookup of a service needs a request.
LEMMA TypePreserved == TypeOK /\ CallInv /\ [Next]_vars => TypeOK'
<1> SUFFICES ASSUME TypeOK, CallInv, [Next]_vars PROVE TypeOK'
  OBVIOUS
<1> USE ContainerAssumption
<1>1. CASE UNCHANGED vars
  BY <1>1 DEF vars, TypeOK
<1>2. CASE Administer
  BY <1>2 DEF Administer, SetNode, RemoveNode, TypeOK
<1>3. ASSUME NEW t \in Threads, Handle(t) PROVE TypeOK'
  <2>1. CASE PostRaises(t)
    BY <2>1 DEF PostRaises, TypeOK
  <2>2. ASSUME NEW r \in Requests, Post(t, r) PROVE TypeOK'
    BY <2>2 DEF Post, TypeOK, Steps
  <2>3. CASE Dispatch(t)
    <3>1. pc' \in [Threads -> Steps] /\ replies' = replies
      BY <2>3 DEF Dispatch, Goes, TypeOK, Steps, Serving
    <3>2. req[t] \in Requests
      BY <2>3 DEF Dispatch, CallInv
    <3>3. nodes[PathOf[req[t].post]] \in Services \cup {None} /\ req[t].post \in Urls
      BY <3>2 DEF TypeOK, AnyRequest
    <3>4. url' \in [Resources -> Urls \cup {None}]
      BY <2>3, <3>3 DEF Dispatch, Learns, TypeOK
    <3>5. later' \in [Threads -> SUBSET Urls]
      BY <2>3, <3>3 DEF Dispatch, TypeOK
    <3>6. QED
      BY <2>3, <3>1, <3>3, <3>4, <3>5 DEF Dispatch, TypeOK
  <2>4. ASSUME NEW raises \in BOOLEAN,
               Authorize(t, raises) \/ RespondFails(t, raises) \/
                 \E verified \in BOOLEAN : Method(t, raises, verified)
        PROVE TypeOK'
    BY <2>4 DEF Authorize, RespondFails, Method, Goes, TypeOK, Steps, Serving
  <2>5. CASE CleanUp(t)
    BY <2>5 DEF CleanUp, Ends, Goes, TypeOK, Steps
  <2>6. ASSUME NEW part \in Parts, PostUnparsed(t, part) PROVE TypeOK'
    <3>1. <<[kind |-> "fault", part |-> part]>> \in Seq(Reply)
      BY DEF Reply, Kinds
    <3>2. QED
      BY <2>6, <3>1 DEF PostUnparsed, TypeOK
  <2>7. ASSUME NEW part \in Parts, NEW u \in Urls, NEW asked \in BOOLEAN, NEW has \in BOOLEAN,
               Get(t, u, asked, has, part)
        PROVE TypeOK'
    <3>1. /\ <<[kind |-> "page", part |-> part]>> \in Seq(Reply)
          /\ <<[kind |-> "missing", part |-> part]>> \in Seq(Reply)
      BY DEF Reply, Kinds
    <3>2. QED
      BY <2>7, <3>1 DEF Get, TypeOK
  <2>8. ASSUME NEW part \in Parts,
               Escaped(t, part) \/ Denied(t, part) \/ RespondEmpty(t, part) \/
               Respond(t, part) \/ Faulting(t, part)
        PROVE TypeOK'
    <3>1. /\ {"fault", "denied", "empty", "response"} \subseteq Kinds
          /\ {"cleanup", "idle", "escaped", "faulting"} \subseteq Steps
      BY DEF Kinds, Steps
    <3>2. replies' \in [Threads -> Seq(Reply)] /\ pc' \in [Threads -> Steps]
      BY <2>8, <3>1, SendsType DEF Escaped, Denied, RespondEmpty, Respond, Faulting
    <3>3. QED
      BY <2>8, <3>2 DEF Escaped, Denied, RespondEmpty, Respond, Faulting, Ends, TypeOK
  <2>9. QED
    BY <1>3, <2>1, <2>2, <2>3, <2>4, <2>5, <2>6, <2>7, <2>8 DEF Handle
<1>4. QED
  BY <1>1, <1>2, <1>3 DEF Next

------------------------------------------------------------------------------
\* Frames.

\* One handler leaves the locals, the context and the replies of another alone,
\* and, unless it dispatches, what the other has noted and every _url.
LEMMA OthersUntouched ==
  ASSUME TypeOK, NEW t \in Threads, Handle(t), NEW u \in Threads, u # t
  PROVE  /\ pc'[u] = pc[u]
         /\ req'[u] = req[u]
         /\ contexts'[u] = contexts[u]
         /\ service'[u] = service[u]
         /\ replies'[u] = replies[u]
         /\ ~Dispatch(t) => later'[u] = later[u] /\ url' = url
<1>1. CASE \/ PostRaises(t) \/ \E r \in Requests : Post(t, r)
           \/ \E part \in Parts : PostUnparsed(t, part)
           \/ \E part \in Parts, v \in Urls, asked, has \in BOOLEAN : Get(t, v, asked, has, part)
  BY <1>1 DEF PostRaises, Post, PostUnparsed, Get, TypeOK
<1>2. CASE \/ Dispatch(t) \/ CleanUp(t)
           \/ \E raises \in BOOLEAN : Authorize(t, raises) \/ RespondFails(t, raises) \/
                \E verified \in BOOLEAN : Method(t, raises, verified)
  BY <1>2 DEF Dispatch, CleanUp, Authorize, RespondFails, Method, Goes, Ends, TypeOK
<1>3. CASE \E part \in Parts : Escaped(t, part) \/ Denied(t, part) \/ RespondEmpty(t, part) \/
             Respond(t, part) \/ Faulting(t, part)
  BY <1>3 DEF Escaped, Denied, RespondEmpty, Respond, Faulting, Sends, Ends, TypeOK
<1>4. QED
  BY <1>1, <1>2, <1>3 DEF Handle

\* The tree is administered without the handlers.
LEMMA HandlersUntouched ==
  ASSUME Administer \/ UNCHANGED vars
  PROVE  UNCHANGED <<pc, req, contexts, service, replies, later, url>>
BY DEF Administer, SetNode, RemoveNode, vars

------------------------------------------------------------------------------
\* The invariant is inductive.

\* A handler tracks its call from the registration to the end.
LEMMA CallPreserved == TypeOK /\ CallInv /\ [Next]_vars => CallInv'
<1> SUFFICES ASSUME TypeOK, CallInv, [Next]_vars PROVE CallInv'
  OBVIOUS
<1>1. CASE Administer \/ UNCHANGED vars
  BY <1>1, HandlersUntouched DEF CallInv
<1>2. ASSUME NEW t \in Threads, Handle(t) PROVE CallInv'
  <2>1. ASSUME pc'[t] # "idle" PROVE req'[t] \in Requests /\ contexts'[t] = req'[t]
    <3>1. ASSUME NEW r \in Requests, Post(t, r) PROVE req'[t] \in Requests /\ contexts'[t] = req'[t]
      BY <3>1 DEF Post, TypeOK
    <3>2. ASSUME NEW part \in Parts, Escaped(t, part)
          PROVE  UNCHANGED <<req, contexts>> /\ pc[t] # "idle"
      BY <3>2, <2>1 DEF Escaped, Sends, TypeOK
    <3>3. ~CleanUp(t)
      BY <2>1 DEF CleanUp, Goes, TypeOK
    <3>4. ~PostRaises(t) /\ \A part \in Parts : ~PostUnparsed(t, part)
      BY <2>1 DEF PostRaises, PostUnparsed
    <3>5. \A part \in Parts, u \in Urls, asked, has \in BOOLEAN : ~Get(t, u, asked, has, part)
      BY <2>1 DEF Get
    <3>6. ASSUME ~\E r \in Requests : Post(t, r), ~\E part \in Parts : Escaped(t, part)
          PROVE  UNCHANGED <<req, contexts>> /\ pc[t] # "idle"
      BY <1>2, <3>3, <3>4, <3>5, <3>6
         DEF Handle, Dispatch, Denied, Authorize, Method, RespondEmpty, RespondFails, Respond, Faulting
    <3>7. QED
      BY <3>1, <3>2, <3>6 DEF CallInv
  <2>2. QED
    BY <1>2, <2>1, OthersUntouched DEF CallInv
<1>3. QED
  BY <1>1, <1>2 DEF Next

\* No reply and a single one are in order.
LEMMA ShortOrdered == Broken(<<>>) /\ Ordered(<<>>) /\ \A r \in Reply : Ordered(<<r>>)
BY DEF Broken, Ordered

\* Appending to broken replies a fault, or anything to none, keeps the order.
LEMMA AppendOrdered ==
  ASSUME NEW rs \in Seq(Reply), NEW r \in Reply, Broken(rs), Ordered(rs),
         rs = <<>> \/ r.kind = "fault"
  PROVE  /\ Ordered(Append(rs, r))
         /\ Append(rs, r) # <<>>
         /\ r.part # "whole" => Broken(Append(rs, r))
BY DEF Broken, Ordered

\* What a handler writes next keeps to ReplyInv.
LEMMA ReplyPreserved == TypeOK /\ ReplyInv /\ [Next]_vars => ReplyInv'
<1> SUFFICES ASSUME TypeOK, ReplyInv, [Next]_vars PROVE ReplyInv'
  OBVIOUS
<1> DEFINE Kept(t) ==
      /\ pc'[t] \in Unanswered => replies'[t] = <<>>
      /\ pc'[t] \in {"faulting", "escaped"} => Broken(replies'[t])
      /\ pc'[t] = "cleanup" => replies'[t] # <<>>
      /\ Ordered(replies'[t])
<1>1. CASE Administer \/ UNCHANGED vars
  BY <1>1, HandlersUntouched DEF ReplyInv, Broken, Ordered
<1>2. ASSUME NEW t \in Threads, Handle(t) PROVE ReplyInv'
  <2> SUFFICES Kept(t)
    BY <1>2, OthersUntouched DEF ReplyInv
  <2> USE DEF Unanswered, Serving
  <2>1. ASSUME NEW kind \in Kinds, NEW part \in Parts, NEW after, NEW raised,
               Sends(t, kind, part, after, raised),
               \/ pc[t] \in Unanswered
               \/ pc[t] \in {"faulting", "escaped"} /\ kind = "fault",
               after = "cleanup", raised \in {"faulting", "escaped", "idle"}
        PROVE  Kept(t)
    <3>1. /\ replies[t] \in Seq(Reply)
          /\ [kind |-> kind, part |-> part] \in Reply
          /\ Broken(replies[t])
          /\ Ordered(replies[t])
          /\ replies[t] = <<>> \/ kind = "fault"
      BY <2>1, ShortOrdered DEF TypeOK, Reply, ReplyInv
    <3>2. /\ replies'[t] = Append(replies[t], [kind |-> kind, part |-> part])
          /\ pc'[t] = IF part = "whole" THEN "cleanup" ELSE raised
      BY <2>1 DEF Sends, TypeOK
    <3>3. QED
      BY <2>1, <3>1, <3>2, AppendOrdered
  <2>2. ASSUME NEW step, Goes(t, step), pc[t] \in Unanswered,
               step \in Serving \cup {"faulting", "escaped"}
        PROVE  Kept(t)
    BY <2>2 DEF Goes, TypeOK, ReplyInv, Broken
  <2>3. CASE PostRaises(t) \/ \E r \in Requests : Post(t, r)
    <3>1. replies'[t] = <<>> /\ pc'[t] \in {"idle", "dispatch"}
      BY <2>3 DEF PostRaises, Post, TypeOK
    <3>2. QED
      BY <3>1, ShortOrdered
  <2>4. CASE \E part \in Parts : PostUnparsed(t, part) \/
               \E u \in Urls, asked, has \in BOOLEAN : Get(t, u, asked, has, part)
    <3>1. /\ pc'[t] = "idle"
          /\ replies'[t] = <<>> \/ \E r \in Reply : replies'[t] = <<r>>
      BY <2>4 DEF PostUnparsed, Get, TypeOK, Reply, Kinds
    <3>2. QED
      BY <3>1, ShortOrdered
  <2>5. CASE Dispatch(t)
    BY <2>5, <2>2 DEF Dispatch
  <2>6. CASE \E raises \in BOOLEAN : Authorize(t, raises) \/ RespondFails(t, raises) \/
               \E verified \in BOOLEAN : Method(t, raises, verified)
    BY <2>6, <2>2 DEF Authorize, RespondFails, Method
  <2>7. CASE CleanUp(t)
    BY <2>7 DEF CleanUp, Goes, TypeOK, ReplyInv
  <2>8. CASE \E part \in Parts : Escaped(t, part) \/ Denied(t, part) \/ RespondEmpty(t, part) \/
               Respond(t, part) \/ Faulting(t, part)
    BY <2>8, <2>1 DEF Escaped, Denied, RespondEmpty, Respond, Faulting, Kinds
  <2>9. QED
    BY <1>2, <2>3, <2>4, <2>5, <2>6, <2>7, <2>8 DEF Handle
<1>3. QED
  BY <1>1, <1>2 DEF Next

\* A dispatch sets the _url of its service to its own url, and every other
\* handler of that service notes it; nothing else touches either.
LEMMA UrlPreserved == TypeOK /\ CallInv /\ OwnOrLaterURL /\ [Next]_vars => OwnOrLaterURL'
<1> SUFFICES ASSUME TypeOK, CallInv, OwnOrLaterURL, [Next]_vars PROVE OwnOrLaterURL'
  OBVIOUS
<1>1. CASE Administer \/ UNCHANGED vars
  BY <1>1, HandlersUntouched DEF OwnOrLaterURL
<1>2. ASSUME NEW t \in Threads, Handle(t) PROVE OwnOrLaterURL'
  <2>1. CASE Dispatch(t)
    <3> DEFINE r == req[t]
               s == nodes[PathOf[r.post]]
    <3>1. r \in Requests /\ r.post \in Urls
      BY <2>1, ContainerAssumption DEF Dispatch, CallInv, AnyRequest
    <3>2. /\ req' = req
          /\ service' = [service EXCEPT ![t] = s]
          /\ url' = IF s \in Resources THEN [url EXCEPT ![s] = r.post] ELSE url
      BY <2>1 DEF Dispatch, Learns
    <3>3. ASSUME NEW u \in Threads, pc'[u] \in Serving, service'[u] \in Resources
          PROVE  url'[service'[u]] \in {req'[u].post} \cup later'[u]
      <4>1. CASE u = t
        BY <4>1, <3>2, <3>3 DEF TypeOK
      <4>2. CASE u # t
        <5>1. pc[u] \in Serving /\ service'[u] = service[u] /\ service[u] \in Resources
          BY <4>2, <1>2, <3>3, OthersUntouched
        <5>2. later'[u] = IF s \in Resources /\ service[u] = s THEN later[u] \cup {r.post} ELSE later[u]
          BY <4>2, <2>1 DEF Dispatch
        <5>3. url[service[u]] \in {req[u].post} \cup later[u]
          BY <5>1 DEF OwnOrLaterURL
        <5>4. CASE service[u] = s
          BY <5>1, <5>2, <5>4, <3>2 DEF TypeOK
        <5>5. CASE service[u] # s
          BY <5>1, <5>2, <5>3, <5>5, <3>2 DEF TypeOK
        <5>6. QED
          BY <5>4, <5>5
      <4>3. QED
        BY <4>1, <4>2
    <3>4. QED
      BY <3>3 DEF OwnOrLaterURL
  <2>2. CASE ~Dispatch(t)
    <3>1. pc'[t] \in Serving => /\ pc[t] \in Serving /\ req'[t] = req[t]
                                /\ service'[t] = service[t] /\ later'[t] = later[t]
                                /\ url' = url
      BY <1>2, <2>2 DEF Handle, PostRaises, PostUnparsed, Post, Get, Escaped, CleanUp, Denied, Authorize,
           Method, RespondEmpty, RespondFails, Respond, Faulting, Goes, Ends, Sends, TypeOK, Serving
    <3>2. QED
      BY <3>1, <1>2, <2>2, OthersUntouched DEF OwnOrLaterURL
  <2>3. QED
    BY <2>1, <2>2
<1>3. QED
  BY <1>1, <1>2 DEF Next

\* What every handler satisfies at every step.
THEOREM Inductive == Spec => []IInv
<1>1. Init => IInv
  BY ContainerAssumption
     DEF Init, IInv, TypeOK, CallInv, ReplyInv, OwnOrLaterURL, Ordered, Broken, Steps, Serving, Unanswered
<1>2. IInv /\ [Next]_vars => IInv'
  BY TypePreserved, CallPreserved, ReplyPreserved, UrlPreserved DEF IInv
<1>3. QED
  BY <1>1, <1>2, PTL DEF Spec

------------------------------------------------------------------------------
\* The properties.

\* Every variable keeps its type.
THEOREM TypeCorrect == Spec => []TypeOK
BY Inductive, PTL DEF IInv

\* GetSOAPContext, called by the code of a service, returns the context of
\* the call it serves, however many handlers interleave.
THEOREM OwnContextAlways == Spec => []OwnContext
<1>1. IInv => OwnContext
  BY DEF IInv, CallInv, OwnContext, Serving
<1>2. QED
  BY <1>1, Inductive, PTL

\* The url that a WSAResource reports is never one left behind by an earlier
\* call, however many handlers of one resource interleave.
THEOREM OwnOrLaterURLAlways == Spec => []OwnOrLaterURL
BY Inductive, PTL DEF IInv

\* The three places that write faults never add one to a whole reply.
THEOREM FaultsFollowBrokenAlways == Spec => []FaultsFollowBroken
<1>1. IInv => FaultsFollowBroken
  BY DEF IInv, ReplyInv, Ordered, FaultsFollowBroken
<1>2. QED
  BY <1>1, Inductive, PTL

\* A handler that ends has tried to reply, and cleaned up or failed to write
\* its last fault.
THEOREM EndsAnsweredAlways == Spec => EndsAnswered
<1> DEFINE Ended(t) ==
      /\ replies'[t] # <<>>
      /\ contexts'[t] # None =>
           LET last == replies'[t][Len(replies'[t])]
           IN last.kind = "fault" /\ last.part # "whole"
<1>1. IInv /\ [Next]_vars => \A t \in Threads : pc[t] # "idle" /\ pc'[t] = "idle" => Ended(t)
  <2> SUFFICES ASSUME IInv, [Next]_vars, NEW t \in Threads, pc[t] # "idle", pc'[t] = "idle"
               PROVE  Ended(t)
    OBVIOUS
  <2>1. Handle(t)
    BY HandlersUntouched, OthersUntouched DEF Next, IInv
  <2>2. CASE CleanUp(t)
    BY <2>2 DEF CleanUp, Goes, IInv, TypeOK, ReplyInv
  <2>3. ASSUME NEW part \in Parts, Escaped(t, part) PROVE Ended(t)
    <3>1. /\ replies[t] \in Seq(Reply)
          /\ replies'[t] = Append(replies[t], [kind |-> "fault", part |-> part])
          /\ part # "whole"
      BY <2>3 DEF Escaped, Sends, IInv, TypeOK
    <3>2. /\ Len(replies'[t]) = Len(replies[t]) + 1
          /\ replies'[t][Len(replies[t]) + 1] = [kind |-> "fault", part |-> part]
      BY <3>1
    <3>3. QED
      BY <3>1, <3>2
  <2>4. CASE ~CleanUp(t) /\ \A part \in Parts : ~Escaped(t, part)
    <3>1. FALSE
      BY <2>1, <2>4 DEF Handle, PostRaises, PostUnparsed, Post, Get, Dispatch, Denied, Authorize,
         Method, RespondEmpty, RespondFails, Respond, Faulting, Goes, Sends, IInv, TypeOK
    <3>2. QED
      BY <3>1
  <2>5. QED
    BY <2>2, <2>3, <2>4
<1>2. QED
  BY <1>1, Inductive, PTL DEF Spec, EndsAnswered
==============================================================================
