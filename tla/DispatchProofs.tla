--------------------------- MODULE DispatchProofs ---------------------------
(***************************************************************************)
(* Theorems about Dispatch, for any number of requests, any messages,      *)
(* modules, handlers, URIs and contents, on every entry point in every     *)
(* style.                                                                  *)
(***************************************************************************)
EXTENDS Dispatch, FiniteSetTheorems, TLAPS

Steps == {"none", "arrived", "reading", "parsed", "bound",
          "called", "sending", "returned", "raised"}
BeforeBind == {"none", "arrived", "reading", "parsed"}
InService == {"reading", "parsed", "bound", "called", "sending"}

Total(f) == f = [r \in Requests |-> f[r]]

(* The shapes of the variables; what they hold matters to no proof.        *)
TypeOK ==
    /\ site \in Sites
    /\ pc \in [Requests -> Steps]
    /\ binding \in [Processes -> Requests \cup {None}]
    /\ bound \in Seq(Requests)
    /\ Total(call) /\ Total(args) /\ Total(seen) /\ Total(pending)
    /\ Total(sent) /\ Total(lookup)
    /\ contentOf = [p \in Processes |-> contentOf[p]]
    /\ \A r \in Requests :
        DOMAIN lookup[r] = {"step", "uri", "key", "content", "cleared"}

LEMMA ProcessTyped == \A r \in Requests : Process(r) \in Processes
BY SiteAssumption DEF Process

(***************************************************************************)
(* Frames.                                                                 *)
(***************************************************************************)
(* What a step of a request's serving does to the variables.               *)
Act(r) == Arrive(r) \/ Parse(r) \/ Serve(r) \/ Finish(r)

(* A step of one request leaves the others' alone.                         *)
Apart(r) ==
    \A q \in Requests \ {r} :
        /\ pc'[q] = pc[q] /\ call'[q] = call[q] /\ args'[q] = args[q]
        /\ seen'[q] = seen[q] /\ pending'[q] = pending[q]
        /\ sent'[q] = sent[q]

(* Send and what ends with it.                                             *)
LEMMA Sending ==
    ASSUME TypeOK, NEW r \in Requests, NEW reply, NEW level,
           Send(r, reply, level)
    PROVE  /\ pc' = [pc EXCEPT ![r] = "sending"]
           /\ pc' \in [Requests -> Steps] /\ Total(pending)'
           /\ \A q \in Requests \ {r} : pending'[q] = pending[q]
BY DEF Send, TypeOK, Total, Steps

(* A step of Finish moves to one of three places.                          *)
LEMMA Finishing ==
    ASSUME TypeOK, NEW r \in Requests, Finish(r)
    PROVE  /\ pc[r] = "sending"
           /\ pc'[r] \in {"sending", "returned", "raised"}
           /\ pc' = [pc EXCEPT ![r] = pc'[r]]
           /\ Total(pending)' /\ Total(sent)'
           /\ Apart(r)
           /\ UNCHANGED <<site, call, binding, bound, args, seen, cacheVars>>
<1>1. ASSUME Raised(r)
      PROVE  /\ pc'[r] \in {"sending", "raised"}
             /\ pc' = [pc EXCEPT ![r] = pc'[r]]
             /\ Total(pending)'
             /\ \A q \in Requests \ {r} : pending'[q] = pending[q]
    BY <1>1 DEF Raised, Crash, Send, TypeOK, Total, Steps
<1>2. ASSUME NEW whole, Put(r, whole)
      PROVE  Total(sent)' /\ \A q \in Requests \ {r} : sent'[q] = sent[q]
    BY <1>2 DEF Put, TypeOK, Total
<1>3. UNCHANGED sent => Total(sent)' /\ \A q \in Requests : sent'[q] = sent[q]
    BY DEF TypeOK, Total
<1>4. CASE WriteServer(r)
    BY <1>1, <1>2, <1>3, <1>4 DEF WriteServer, Finish, Apart, TypeOK, cacheVars
<1>5. CASE Write(r)
    <2>1. CASE Raised(r)
        BY <1>1, <1>2, <1>3, <1>5, <2>1 DEF Write, Finish, Apart, TypeOK
    <2>2. CASE pc' = [pc EXCEPT ![r] = "returned"] /\ UNCHANGED pending
        BY <1>2, <1>3, <1>5, <2>2 DEF Write, Finish, Apart, TypeOK, Total
    <2> QED BY <1>5, <2>1, <2>2 DEF Write
<1> QED BY <1>4, <1>5 DEF Finish

(* Every step before the writes that only moves on, or sets out to reply.  *)
Moves(r) ==
    \/ RefuseMethod(r) \/ RefuseHeaders(r) \/ ReadBody(r)
    \/ RefuseMessage(r) \/ Abort(r) \/ Accept(r)
    \/ LackHandler(r) \/ RefuseArguments(r) \/ StumbleOverArguments(r)
    \/ Return(r) \/ RaiseException(r) \/ RaiseFault(r)

LEMMA Moving ==
    ASSUME TypeOK, NEW r \in Requests, Moves(r)
    PROVE  /\ pc[r] \in {"arrived", "reading", "parsed", "bound", "called"}
           /\ pc'[r] \in {"reading", "parsed", "sending", "raised"}
           /\ pc[r] \in {"bound", "called"} => pc'[r] = "sending"
           /\ pc[r] \in {"bound", "called", "parsed"} => pc'[r] # "parsed"
           /\ pc' = [pc EXCEPT ![r] = pc'[r]]
           /\ Total(pending)' /\ Apart(r)
           /\ pc[r] = "arrived" => Taken(r)
           /\ UNCHANGED <<site, call, binding, bound, args, seen, sent, cacheVars>>
<1>0. UNCHANGED pending =>
        Total(pending)' /\ \A q \in Requests \ {r} : pending'[q] = pending[q]
    BY DEF TypeOK, Total
<1>1. CASE RefuseMethod(r)
    BY <1>1, Sending DEF RefuseMethod, Taken, Dispatching, Apart, TypeOK
<1>2. CASE RefuseMessage(r)
    BY <1>2, Sending DEF RefuseMessage, Dispatching, Apart, TypeOK
<1>3. CASE RefuseHeaders(r) \/ Abort(r)
    <2>1. CASE pc' = [pc EXCEPT ![r] = "raised"] /\ UNCHANGED pending
        BY <1>3, <2>1, <1>0 DEF RefuseHeaders, Abort, Taken, Dispatching, Apart, TypeOK, Steps
    <2>2. CASE Send(r, FaultFromException(TRUE), "entry")
        BY <1>3, <2>2, Sending DEF RefuseHeaders, Abort, Taken, Dispatching, Apart, TypeOK
    <2> QED BY <1>3, <2>1, <2>2 DEF RefuseHeaders, Abort, Stumble
<1>4. CASE Accept(r)
    BY <1>4, <1>0 DEF Accept, Dispatching, Apart, TypeOK, Steps
<1>5. CASE ReadBody(r)
    BY <1>5, <1>0 DEF ReadBody, Taken, Dispatching, Apart, TypeOK, Steps
<1>9. CASE LackHandler(r)
    BY <1>9, Sending DEF LackHandler, Crash, Dispatching, Apart, TypeOK
<1>10. CASE RefuseArguments(r)
    BY <1>10, Sending DEF RefuseArguments, Crash, Dispatching, Apart, TypeOK
<1>11. CASE StumbleOverArguments(r)
    BY <1>11, Sending DEF StumbleOverArguments, Crash, Dispatching, Apart, TypeOK
<1>12. CASE Return(r)
    <2>1. \E reply, level : Send(r, reply, level)
        BY <1>12 DEF Return, Crash
    <2> QED BY <1>12, <2>1, Sending DEF Return, Running, Dispatching, Apart, TypeOK
<1>13. CASE RaiseException(r) \/ RaiseFault(r)
    <2>1. \E reply, level : Send(r, reply, level)
        BY <1>13 DEF RaiseException, RaiseFault, Crash
    <2> QED
        BY <1>13, <2>1, Sending
        DEF RaiseException, RaiseFault, Running, Dispatching, Apart, TypeOK
<1> QED
    BY <1>1, <1>2, <1>3, <1>4, <1>5, <1>9, <1>10, <1>11, <1>12, <1>13 DEF Moves

-----------------------------------------------------------------------------
(***************************************************************************)
(* The cache.                                                              *)
(***************************************************************************)
Fields == {"step", "uri", "key", "content", "cleared"}

(* Who is about to read a content has seen it there, and who missed it has *)
(* lost it to a clear.                                                     *)
ReadInv(r) ==
    /\ lookup[r].step = "read" =>
        lookup[r].key \in DOMAIN contentOf[Process(r)] \/ lookup[r].cleared
    /\ lookup[r].step = "KeyError" => lookup[r].cleared

CacheInv == \A r \in Requests : ReadInv(r)

CacheTyped ==
    /\ Total(lookup)
    /\ contentOf = [p \in Processes |-> contentOf[p]]
    /\ \A r \in Requests : DOMAIN lookup[r] = Fields

(* A step of one lookup: those of the others stay, and every content does. *)
LEMMA LookupKeeps ==
    ASSUME TypeOK, CacheInv, NEW r \in Requests, UNCHANGED site,
           \/ Opaque(r, Process(r))
           \/ \E uri \in Uris : GetKey(r, Process(r), uri)
    PROVE  CacheTyped' /\ CacheInv'
<1>1. Process(r) \in Processes /\ \A q \in Requests : Process(q)' = Process(q)
    BY ProcessTyped DEF Process
<1> DEFINE Same ==
        \A q \in Requests \ {r} : lookup'[q] = lookup[q]
<1>2. ASSUME UNCHANGED contentOf, Total(lookup)', Same,
             DOMAIN lookup'[r] = Fields, ReadInv(r)'
      PROVE  CacheTyped' /\ CacheInv'
    BY <1>1, <1>2 DEF CacheInv, ReadInv, CacheTyped, TypeOK, Fields
<1>5. CASE CheckContent(r, Process(r)) \/ MissContent(r, Process(r))
    <2>1. /\ Total(lookup)' /\ Same /\ DOMAIN lookup'[r] = Fields
          /\ lookup'[r].key = lookup[r].key
          /\ lookup'[r].cleared = lookup[r].cleared
          /\ UNCHANGED contentOf
        BY <1>5 DEF CheckContent, MissContent, Proceed, TypeOK, Total, Fields
    <2>2. CASE CheckContent(r, Process(r))
        <3>1. lookup'[r].step = "read" => Cached(r, Process(r))
            BY <2>2 DEF CheckContent, Proceed, TypeOK, Total
        <3>2. lookup'[r].step # "KeyError"
            BY <2>2 DEF CheckContent, Proceed, TypeOK, Total
        <3> QED BY <1>1, <1>2, <2>1, <3>1, <3>2 DEF Cached, ReadInv
    <2>3. CASE MissContent(r, Process(r))
        <3>0. /\ ~Cached(r, Process(r)) /\ lookup[r].step = "read"
              /\ lookup'[r].step = "KeyError"
            BY <2>3 DEF MissContent, Proceed, TypeOK, Total
        <3>1. lookup'[r].step = "KeyError" /\ lookup[r].cleared
            BY <3>0 DEF Cached, CacheInv, ReadInv
        <3> QED BY <1>2, <2>1, <3>1 DEF ReadInv
    <2> QED BY <1>5, <2>2, <2>3
<1>6. ASSUME NEW from, NEW to, Done(r, from, to), to \notin {"read", "KeyError"}
      PROVE  /\ Total(lookup)' /\ Same /\ DOMAIN lookup'[r] = Fields
             /\ ReadInv(r)'
    BY <1>6 DEF Done, NoLookup, TypeOK, Total, Fields, ReadInv
<1>7. CASE ReadContent(r, Process(r)) \/ FailFetch(r)
    BY <1>2, <1>6, <1>7 DEF ReadContent, FailFetch
<1>8. CASE Fetch(r) \/ StoreKey(r, Process(r))
    <2> DEFINE Goes(steps) ==
            /\ Total(lookup)' /\ Same /\ DOMAIN lookup'[r] = Fields
            /\ lookup'[r].step \in steps
            /\ UNCHANGED contentOf
    <2>1. Fetch(r) => Goes({"store"})
        BY DEF Fetch, TypeOK, Total, Fields
    <2>2. StoreKey(r, Process(r)) => Goes({"stored key"})
        <3>1. ASSUME NEW k, lookup' = [lookup EXCEPT ![r].step = "stored key", ![r].key = k],
                     UNCHANGED contentOf
              PROVE  Goes({"stored key"})
            BY <3>1 DEF TypeOK, Total, Fields
        <3> QED BY <3>1 DEF StoreKey
    <2>3. Goes({"store", "stored key"})
        BY <1>8, <2>1, <2>2
    <2> QED BY <1>2, <2>3 DEF ReadInv
<1>9. CASE \E uri \in Uris : GetKey(r, Process(r), uri)
    <2> PICK uri \in Uris : GetKey(r, Process(r), uri)
        BY <1>9
    <2> DEFINE found == uri \in DOMAIN keyOf[Process(r)]
               new == [step |-> IF found THEN "check" ELSE "fetch", uri |-> uri,
                       key |-> IF found THEN keyOf[Process(r)][uri] ELSE Nothing,
                       content |-> Nothing, cleared |-> FALSE]
    <2>0. lookup' = [lookup EXCEPT ![r] = new] /\ UNCHANGED contentOf
        BY DEF GetKey
    <2>3. DOMAIN new = Fields /\ new.step \in {"check", "fetch"}
        BY DEF Fields
    <2> HIDE DEF new
    <2>1. /\ Total(lookup)' /\ Same /\ DOMAIN lookup'[r] = Fields
          /\ lookup'[r].step \in {"check", "fetch"}
          /\ UNCHANGED contentOf
        BY <2>0, <2>3 DEF TypeOK, Total
    <2> QED BY <1>2, <2>1 DEF ReadInv
<1>4. CASE StoreContent(r, Process(r))
    <2>1. \A q \in Requests :
            DOMAIN contentOf[Process(q)] \subseteq DOMAIN contentOf'[Process(q)]
        BY <1>1, <1>4, ProcessTyped DEF StoreContent, With, TypeOK
    <2>2. contentOf' = [p \in Processes |-> contentOf'[p]]
        BY <1>4 DEF StoreContent, TypeOK
    <2> QED
        BY <1>1, <1>4, <2>1, <2>2
        DEF StoreContent, Done, NoLookup, TypeOK, CacheTyped, Fields, Total,
            CacheInv, ReadInv
<1> QED BY <1>4, <1>5, <1>7, <1>8, <1>9 DEF Opaque

(* A clear that takes a content from a lookup under way leaves its mark.   *)
LEMMA ClearKeeps ==
    ASSUME TypeOK, CacheInv, Clear
    PROVE  CacheTyped' /\ CacheInv'
<1>1. \A q \in Requests : Process(q)' = Process(q)
    BY DEF Clear, dispatchVars, Process
<1>2. CASE \E p \in Processes : ClearKeys(p, ProcessOf)
    BY <1>1, <1>2 DEF ClearKeys, TypeOK, CacheTyped, Fields, Total, CacheInv, ReadInv
<1>3. ASSUME NEW p \in Processes, ClearContents(p, ProcessOf)
      PROVE  CacheTyped' /\ CacheInv'
    <2>1. /\ CacheTyped'
          /\ \A q \in Requests :
              /\ lookup'[q].step = lookup[q].step
              /\ lookup'[q].key = lookup[q].key
              /\ lookup'[q].cleared =
                    (lookup[q].cleared \/ (Process(q) = p /\ Busy(q)))
        BY <1>3 DEF ClearContents, TypeOK, CacheTyped, Fields, Total, ProcessOf
    <2>2. \A q \in Processes \ {p} : contentOf'[q] = contentOf[q]
        BY <1>3 DEF ClearContents, TypeOK
    <2> SUFFICES ASSUME NEW q \in Requests PROVE ReadInv(q)'
        BY <2>1 DEF CacheInv
    <2>3. CASE lookup[q].step = "read" /\ Process(q) = p
        BY <2>1, <2>3 DEF ReadInv, Busy
    <2>4. CASE lookup[q].step = "read" /\ Process(q) # p
        BY <1>1, <2>1, <2>2, <2>4, ProcessTyped DEF CacheInv, ReadInv
    <2>5. CASE lookup[q].step # "read"
        BY <2>1, <2>5 DEF CacheInv, ReadInv
    <2> QED BY <2>3, <2>4, <2>5
<1> QED BY <1>2, <1>3 DEF Clear

-----------------------------------------------------------------------------
(***************************************************************************)
(* The types.                                                              *)
(***************************************************************************)
(* The steps that say whose the binding is.                                *)
LEMMA Binding ==
    ASSUME TypeOK, NEW r \in Requests, Bind(r)
    PROVE  /\ pc[r] = "parsed" /\ pc' = [pc EXCEPT ![r] = "bound"]
           /\ binding' = [binding EXCEPT ![Process(r)] = r]
           /\ bound' \in Seq(Requests) /\ Len(bound') = Len(bound) + 1
           /\ \A i \in DOMAIN bound : bound'[i] = bound[i]
           /\ bound'[Len(bound')] = r
           /\ Apart(r)
           /\ UNCHANGED <<site, call, args, seen, pending, sent, cacheVars>>
BY DEF Bind, TypeOK, Apart

LEMMA TypePreserved == TypeOK /\ CacheInv /\ [Next]_vars => TypeOK' /\ CacheInv'
<1> SUFFICES ASSUME TypeOK, CacheInv, [Next]_vars PROVE TypeOK' /\ CacheInv'
    OBVIOUS
<1> DEFINE Rest ==
        /\ site' \in Sites /\ UNCHANGED site
        /\ pc' \in [Requests -> Steps]
        /\ binding' \in [Processes -> Requests \cup {None}]
        /\ bound' \in Seq(Requests)
        /\ Total(call)' /\ Total(args)' /\ Total(seen)' /\ Total(pending)'
        /\ Total(sent)'
<1>1. Rest /\ CacheTyped' => TypeOK'
    BY DEF TypeOK, CacheTyped, Fields
<1>2. UNCHANGED <<site, cacheVars>> => CacheTyped' /\ CacheInv'
    BY DEF cacheVars, TypeOK, CacheTyped, Fields, Total, CacheInv, ReadInv, Process
<1>3. UNCHANGED dispatchVars => Rest
    BY DEF dispatchVars, TypeOK, Total
<1>4. CASE UNCHANGED vars
    BY <1>1, <1>2, <1>3, <1>4 DEF vars, dispatchVars
<1>5. CASE Clear
    BY <1>1, <1>3, <1>5, ClearKeeps DEF Clear
<1>6. ASSUME NEW r \in Requests, Arrive(r) PROVE TypeOK' /\ CacheInv'
    BY <1>1, <1>2, <1>6 DEF Arrive, TypeOK, Total, Steps
<1>7. ASSUME NEW r \in Requests, Moves(r) PROVE TypeOK' /\ CacheInv'
    <2>0. pc' \in [Requests -> Steps]
        BY <1>7, Moving DEF TypeOK, Steps
    <2>1. Rest
        BY <1>7, <2>0, Moving DEF TypeOK, Total
    <2> QED BY <1>1, <1>2, <1>7, <2>1, Moving
<1>8. ASSUME NEW r \in Requests, Bind(r) PROVE TypeOK' /\ CacheInv'
    <2>0. /\ pc' \in [Requests -> Steps]
          /\ binding' \in [Processes -> Requests \cup {None}]
        BY <1>8, ProcessTyped DEF Bind, TypeOK, Steps
    <2>1. Rest
        BY <1>8, <2>0, Binding DEF TypeOK, Total
    <2> QED BY <1>1, <1>2, <1>8, <2>1, Binding
<1>9. ASSUME NEW r \in Requests, CallHandler(r) PROVE TypeOK' /\ CacheInv'
    BY <1>1, <1>2, <1>9 DEF CallHandler, TypeOK, Total, Steps
<1>10. ASSUME NEW r \in Requests, AskClient(r) PROVE TypeOK' /\ CacheInv'
    BY <1>1, <1>2, <1>10 DEF AskClient, TypeOK, Total
<1>11. ASSUME NEW r \in Requests, AskURI(r) \/ Resolve(r) PROVE TypeOK' /\ CacheInv'
    <2>1. UNCHANGED site
        BY <1>11 DEF AskURI, Resolve, dispatchVars
    <2> QED BY <1>1, <1>3, <1>11, <2>1, LookupKeeps DEF AskURI, Resolve
<1>12. ASSUME NEW r \in Requests, Finish(r) PROVE TypeOK' /\ CacheInv'
    <2>1. Rest
        BY <1>12, Finishing DEF TypeOK, Total, Steps
    <2> QED BY <1>1, <1>2, <1>12, <2>1, Finishing
<1> QED
    BY <1>4, <1>5, <1>6, <1>7, <1>8, <1>9, <1>10, <1>11, <1>12
    DEF Next, Serve, Enter, Parse, Prepare, Handle, Moves

LEMMA Initial == Init => TypeOK /\ CacheInv
<1> SUFFICES ASSUME Init PROVE TypeOK /\ CacheInv
    OBVIOUS
<1>1. TypeOK
    BY DEF Init, CacheInit, TypeOK, Total, NoLookup, Steps
<1>2. CacheInv
    BY DEF Init, CacheInit, NoLookup, CacheInv, ReadInv
<1> QED BY <1>1, <1>2

(* Opaque raises KeyError only when somebody cleared the cache while it    *)
(* ran.                                                                    *)
THEOREM CacheSafe == Spec => []KeyErrorOnlyByClear
<1>1. Init => TypeOK /\ CacheInv
    BY Initial
<1>2. TypeOK /\ CacheInv /\ [Next]_vars => TypeOK' /\ CacheInv'
    BY TypePreserved
<1>3. CacheInv => KeyErrorOnlyByClear
    BY DEF CacheInv, ReadInv, KeyErrorOnlyByClear
<1> QED
    BY <1>1, <1>2, <1>3, PTL DEF Spec

-----------------------------------------------------------------------------
(***************************************************************************)
(* Whose binding a handler gets.                                           *)
(***************************************************************************)
(* r assigned the binding, and q did then or later.                        *)
Since(r, q) ==
    \E i, j \in 1..Len(bound) : i <= j /\ bound[i] = r /\ bound[j] = q

Alone == site.entry \in {"cgi", "server"}
Own(r) == [whose |-> r, auth |-> GetAuth(r)]

(* Each assigns once.                                                      *)
Once == \A i, j \in 1..Len(bound) : bound[i] = bound[j] => i = j
NotBefore ==
    \A r \in Requests : pc[r] \in BeforeBind =>
        seen[r] = NotAsked /\ \A i \in 1..Len(bound) : bound[i] # r

(* What a handler would get, and what it has got.                          *)
WouldGet ==
    \A r \in Requests : pc[r] \in {"bound", "called"} =>
        /\ Since(r, binding[Process(r)])
        /\ Alone => binding[Process(r)] = r
HasGot ==
    \A r \in Requests : seen[r] # NotAsked =>
        /\ Since(r, seen[r].whose)
        /\ Alone => seen[r] = Own(r)

(* AsServer serves one at a time.                                          *)
OneServed ==
    site.entry = "server" =>
        \A r, q \in Requests : pc[r] \in InService /\ pc[q] \in InService => r = q

ClientInv == Once /\ NotBefore /\ WouldGet /\ HasGot /\ OneServed

(* Steps that leave the binding alone.                                     *)
LEMMA Quiet ==
    ASSUME TypeOK, ClientInv, NEW r \in Requests,
           UNCHANGED <<site, binding, bound, seen>>,
           pc' = [pc EXCEPT ![r] = pc'[r]],
           pc'[r] \in BeforeBind => pc[r] \in BeforeBind,
           pc'[r] # "bound",
           pc'[r] = "called" => pc[r] = "bound",
           pc'[r] \in InService => pc[r] \in InService \/ Taken(r),
           \A q \in Requests \ {r} : call'[q] = call[q],
           call'[r] = call[r] \/ pc[r] \in BeforeBind
    PROVE  ClientInv'
<1>1. \A q \in Requests : Process(q)' = Process(q)
    BY DEF Process
<1>2. \A q \in Requests \ {r} : pc'[q] = pc[q]
    BY DEF TypeOK
<1>3. Alone' = Alone /\ \A q, p : Since(q, p)' = Since(q, p)
    BY DEF Alone, Since
<1>4. Once'
    BY DEF ClientInv, Once
<1>5. NotBefore'
    BY <1>2 DEF ClientInv, NotBefore
<1>6. WouldGet'
    BY <1>1, <1>2, <1>3 DEF ClientInv, WouldGet
<1>7. HasGot'
    <2> SUFFICES ASSUME NEW q \in Requests, seen[q] # NotAsked
                 PROVE  Own(q)' = Own(q)
        BY <1>3 DEF ClientInv, HasGot
    <2>1. call'[q] = call[q]
        BY DEF ClientInv, NotBefore
    <2> QED BY <2>1 DEF Own, GetAuth, Environ
<1>8. OneServed'
    <2>1. CASE pc[r] \in InService
        BY <1>2, <2>1 DEF ClientInv, OneServed
    <2>2. CASE pc'[r] \notin InService
        BY <1>2, <2>2 DEF ClientInv, OneServed
    <2>3. CASE Taken(r)
        BY <1>2, <2>3 DEF OneServed, Taken, InService
    <2> QED BY <2>1, <2>2, <2>3
<1> QED BY <1>4, <1>5, <1>6, <1>7, <1>8 DEF ClientInv

(* The binding is assigned.                                                *)
LEMMA BindKeeps ==
    ASSUME TypeOK, ClientInv, NEW r \in Requests, Bind(r)
    PROVE  ClientInv'
<1>1. /\ pc[r] = "parsed" /\ pc' = [pc EXCEPT ![r] = "bound"]
      /\ binding' = [binding EXCEPT ![Process(r)] = r]
      /\ UNCHANGED <<site, call, seen>>
    BY Binding
<1>2. \A q \in Requests : Process(q)' = Process(q) /\ Process(q) \in Processes
    BY <1>1, ProcessTyped DEF Process
<1>3. \A q \in Requests \ {r} : pc'[q] = pc[q]
    BY <1>1 DEF TypeOK
<1> DEFINE n == Len(bound)
<1>4. /\ n \in Nat /\ Len(bound') = n + 1
      /\ \A i \in 1..n : bound'[i] = bound[i]
      /\ bound'[n + 1] = r
    BY DEF Bind, TypeOK
<1>5. Alone' = Alone /\ \A q \in Requests : Own(q)' = Own(q)
    BY <1>1 DEF Alone, Own, GetAuth, Environ
<1>6. \A i \in 1..n : bound[i] # r
    BY <1>1 DEF ClientInv, NotBefore, BeforeBind
<1> HIDE DEF n
<1>7. \A q, p : Since(q, p) => Since(q, p)' /\ Since(q, r)'
    BY <1>4 DEF Since, n
<1>8. Since(r, r)'
    BY <1>4 DEF Since
<1>9. Once'
    BY <1>4, <1>6 DEF ClientInv, Once, n
<1>10. NotBefore'
    <2>1. pc'[r] = "bound"
        BY <1>1 DEF TypeOK
    <2> SUFFICES ASSUME NEW q \in Requests, pc'[q] \in BeforeBind
                 PROVE  seen'[q] = NotAsked /\ \A i \in 1..n + 1 : bound'[i] # q
        BY <1>4 DEF NotBefore
    <2>2. q # r /\ pc[q] \in BeforeBind
        BY <1>3, <2>1 DEF BeforeBind
    <2>3. seen[q] = NotAsked /\ \A i \in 1..n : bound[i] # q
        BY <2>2 DEF ClientInv, NotBefore, n
    <2> QED BY <1>1, <1>4, <2>2, <2>3
<1>11. WouldGet'
    <2> SUFFICES ASSUME NEW q \in Requests, pc'[q] \in {"bound", "called"}
                 PROVE  /\ Since(q, binding[Process(q)])'
                        /\ Alone => binding'[Process(q)] = q
        BY <1>2, <1>5 DEF WouldGet
    <2>1. CASE q = r
        BY <1>1, <1>2, <1>8, <2>1 DEF TypeOK
    <2>2. CASE q # r
        <3>1. pc[q] \in {"bound", "called"}
            BY <1>3, <2>2
        <3>2. Since(q, binding[Process(q)]) /\ (Alone => binding[Process(q)] = q)
            BY <3>1 DEF ClientInv, WouldGet
        <3>3. binding'[Process(q)] \in {binding[Process(q)], r}
            BY <1>1, <1>2 DEF TypeOK
        <3>4. Since(q, binding[Process(q)])'
            BY <1>2, <1>7, <3>2, <3>3
        <3>5. ASSUME Alone PROVE binding'[Process(q)] = q
            <4>1. CASE site.entry = "server"
                BY <1>1, <2>2, <3>1, <4>1 DEF ClientInv, OneServed, InService
            <4>2. CASE site.entry = "cgi"
                BY <1>1, <1>2, <2>2, <3>2, <3>5, <4>2 DEF Process, TypeOK
            <4> QED BY <3>5, <4>1, <4>2 DEF Alone
        <3> QED BY <3>4, <3>5
    <2> QED BY <2>1, <2>2
<1>12. HasGot'
    BY <1>1, <1>5, <1>7 DEF ClientInv, HasGot
<1>13. OneServed'
    BY <1>1, <1>3 DEF ClientInv, OneServed, InService
<1> QED BY <1>9, <1>10, <1>11, <1>12, <1>13 DEF ClientInv

(* A handler asks.                                                         *)
LEMMA AskKeeps ==
    ASSUME TypeOK, ClientInv, NEW r \in Requests, AskClient(r)
    PROVE  ClientInv'
<1> DEFINE b == binding[Process(r)]
<1>1. /\ pc[r] = "called"
      /\ seen' = [seen EXCEPT ![r] = [whose |-> b, auth |-> GetAuth(b)]]
      /\ UNCHANGED <<site, call, pc, binding, bound>>
    BY DEF AskClient
<1>2. /\ seen'[r] = [whose |-> b, auth |-> GetAuth(b)]
      /\ \A q \in Requests \ {r} : seen'[q] = seen[q]
    BY <1>1 DEF TypeOK, Total
<1>3. Since(r, b) /\ (Alone => b = r)
    BY <1>1 DEF ClientInv, WouldGet
<1>4. /\ Alone' = Alone
      /\ \A q, p : Since(q, p)' = Since(q, p)
      /\ \A q : Own(q)' = Own(q) /\ Process(q)' = Process(q)
    BY <1>1 DEF Alone, Since, Own, GetAuth, Environ, Process
<1>5. Once' /\ OneServed'
    BY <1>1 DEF ClientInv, Once, OneServed
<1>6. NotBefore'
    BY <1>1, <1>2 DEF ClientInv, NotBefore, BeforeBind
<1>7. WouldGet'
    BY <1>1, <1>4 DEF ClientInv, WouldGet
<1>8. HasGot'
    <2> SUFFICES ASSUME NEW q \in Requests, seen'[q] # NotAsked
                 PROVE  /\ Since(q, seen'[q].whose)
                        /\ Alone => seen'[q] = Own(q)
        BY <1>4 DEF HasGot
    <2>1. CASE q = r
        BY <1>2, <1>3, <2>1 DEF Own
    <2>2. CASE q # r
        BY <1>2, <2>2 DEF ClientInv, HasGot
    <2> QED BY <2>1, <2>2
<1> QED BY <1>5, <1>6, <1>7, <1>8 DEF ClientInv

LEMMA ClientPreserved == TypeOK /\ ClientInv /\ [Next]_vars => ClientInv'
<1> SUFFICES ASSUME TypeOK, ClientInv, [Next]_vars PROVE ClientInv'
    OBVIOUS
<1>1. CASE UNCHANGED dispatchVars
    BY <1>1
    DEF dispatchVars, ClientInv, Once, NotBefore, WouldGet, HasGot, OneServed,
        Since, Alone, Own, GetAuth, Environ, Process
<1>2. ASSUME NEW r \in Requests, Arrive(r) PROVE ClientInv'
    <2>1. /\ pc[r] = "none" /\ pc' = [pc EXCEPT ![r] = "arrived"]
          /\ UNCHANGED <<site, binding, bound, seen>>
          /\ \A q \in Requests \ {r} : call'[q] = call[q]
        BY <1>2 DEF Arrive, TypeOK, Total
    <2> QED BY <2>1, Quiet DEF TypeOK, BeforeBind, InService
<1>3. ASSUME NEW r \in Requests, Moves(r) PROVE ClientInv'
    <2>1. /\ pc'[r] \in BeforeBind => pc[r] \in BeforeBind
          /\ pc'[r] \notin {"bound", "called"}
          /\ pc[r] \in InService \/ Taken(r)
        BY <1>3, Moving DEF BeforeBind, InService
    <2>2. /\ UNCHANGED <<site, binding, bound, seen, call>>
          /\ pc' = [pc EXCEPT ![r] = pc'[r]]
        BY <1>3, Moving
    <2> QED BY <2>1, <2>2, Quiet
<1>4. ASSUME NEW r \in Requests, CallHandler(r) PROVE ClientInv'
    <2>1. /\ pc[r] = "bound" /\ pc' = [pc EXCEPT ![r] = "called"]
          /\ UNCHANGED <<site, binding, bound, seen, call>>
        BY <1>4 DEF CallHandler
    <2> QED BY <2>1, Quiet DEF TypeOK, BeforeBind, InService
<1>5. ASSUME NEW r \in Requests, Finish(r) PROVE ClientInv'
    <2>1. /\ pc[r] = "sending" /\ pc'[r] \in {"sending", "returned", "raised"}
          /\ pc' = [pc EXCEPT ![r] = pc'[r]]
          /\ UNCHANGED <<site, binding, bound, seen, call>>
        BY <1>5, Finishing
    <2> QED BY <2>1, Quiet DEF BeforeBind, InService
<1>6. ASSUME NEW r \in Requests, Bind(r) \/ AskClient(r) PROVE ClientInv'
    BY <1>6, BindKeeps, AskKeeps
<1> QED
    BY <1>1, <1>2, <1>3, <1>4, <1>5, <1>6
    DEF Next, Serve, Enter, Parse, Prepare, Handle, Moves, AskURI, Resolve, Clear, vars

LEMMA ClientImplies == TypeOK /\ ClientInv => NoEarlierClient
<1> SUFFICES ASSUME TypeOK, ClientInv, NEW r \in Requests, seen[r] # NotAsked
             PROVE  /\ seen[r].whose \in Requests
                    /\ Position(seen[r].whose) >= Position(r)
                    /\ Alone => seen[r] = Own(r)
    BY DEF NoEarlierClient, Alone, Own
<1>1. DOMAIN bound = 1..Len(bound) /\ Len(bound) \in Nat
      /\ \A i \in 1..Len(bound) : bound[i] \in Requests
    BY DEF TypeOK
<1>2. PICK i, j \in 1..Len(bound) :
        i <= j /\ bound[i] = r /\ bound[j] = seen[r].whose
    BY DEF ClientInv, HasGot, Since
<1>3. Position(r) = i /\ Position(seen[r].whose) = j
    BY <1>1, <1>2 DEF ClientInv, Once, Position
<1> QED BY <1>1, <1>2, <1>3 DEF ClientInv, HasGot

(* The binding a handler gets is of its own request or of one dispatched   *)
(* later, never of an earlier one, and its own where requests are served   *)
(* one at a time or by a process each.                                     *)
THEOREM ClientsKnown == Spec => []NoEarlierClient
<1>1. Init => TypeOK /\ CacheInv
    BY Initial
<1>2. Init => ClientInv
    BY DEF Init, ClientInv, Once, NotBefore, WouldGet, HasGot, OneServed, InService
<1>3. TypeOK /\ CacheInv /\ [Next]_vars => TypeOK' /\ CacheInv'
    BY TypePreserved
<1>4. TypeOK /\ ClientInv /\ [Next]_vars => ClientInv'
    BY ClientPreserved
<1>5. TypeOK /\ ClientInv => NoEarlierClient
    BY ClientImplies
<1> QED
    BY <1>1, <1>2, <1>3, <1>4, <1>5, PTL DEF Spec

-----------------------------------------------------------------------------
(***************************************************************************)
(* What is written.                                                        *)
(***************************************************************************)
IsSeq(s) == \E S : s \in Seq(S)

LEMMA Appended ==
    ASSUME NEW s, IsSeq(s), NEW e
    PROVE  LET t == Append(s, e) IN
           /\ IsSeq(t) /\ Len(s) \in Nat /\ Len(t) = Len(s) + 1
           /\ DOMAIN s = 1..Len(s) /\ DOMAIN t = 1..Len(t)
           /\ \A i \in 1..Len(s) : t[i] = s[i]
           /\ t[Len(t)] = e
<1>1. PICK S : s \in Seq(S)
    BY DEF IsSeq
<1>2. s \in Seq(S \cup {e})
    BY <1>1
<1>3. Append(s, e) \in Seq(S \cup {e})
    BY <1>2
<1> QED
    BY <1>2, <1>3 DEF IsSeq

BeforeSend == BeforeBind \cup {"bound", "called"}
Over == {"returned", "raised"}

(* Nothing is called before its time, and nothing written.                 *)
InTime(r) ==
    /\ IsSeq(sent[r])
    /\ pc[r] \in BeforeSend => sent[r] = <<>>
    /\ pc[r] \in BeforeBind \cup {"bound"} => ~args[r].called

(* Until a request is served all that was written broke off.               *)
Partial(r) == \A i \in 1..Len(sent[r]) : ~sent[r][i].whole
Closed(r) ==
    /\ pc[r] # "returned" => Partial(r)
    /\ pc[r] = "returned" =>
        /\ sent[r] # <<>> /\ sent[r][Len(sent[r])].whole
        /\ \A i \in 1..Len(sent[r]) : sent[r][i].whole => i = Len(sent[r])
    /\ pc[r] = "raised" =>
        sent[r] # <<>> \/ ~args[r].called \/ ~Reply(r).writable

(* Nobody is blamed once the handler has been called.                      *)
Blameless(r) ==
    args[r].called =>
        /\ pc[r] = "sending" => Reply(r).code # "Client"
        /\ \A i \in DOMAIN sent[r] : sent[r][i].code # "Client"

ReplyInv ==
    \A r \in Requests :
        /\ InTime(r)
        /\ site.entry # "server" => Closed(r)
        /\ site.style # "doc" => Blameless(r)

(* A step of r has to keep what is said of r.                              *)
LEMMA OthersKeep ==
    ASSUME TypeOK, ReplyInv, NEW r \in Requests, UNCHANGED site, Apart(r),
           InTime(r)',
           site.entry # "server" => Closed(r)',
           site.style # "doc" => Blameless(r)'
    PROVE  ReplyInv'
<1> SUFFICES ASSUME NEW q \in Requests \ {r}
             PROVE  /\ InTime(q)'
                    /\ site.entry # "server" => Closed(q)'
                    /\ site.style # "doc" => Blameless(q)'
    BY DEF ReplyInv
<1>1. /\ pc'[q] = pc[q] /\ args'[q] = args[q] /\ pending'[q] = pending[q]
      /\ sent'[q] = sent[q]
    BY DEF Apart
<1> QED
    BY <1>1 DEF ReplyInv, InTime, Closed, Blameless, Partial, Reply

(* What a called handler's end sends blames nobody, but in style "doc".    *)
LEMMA HandlersBlame ==
    ASSUME TypeOK, NEW r \in Requests, site.style # "doc",
           \/ Return(r) \/ RaiseException(r) \/ RaiseFault(r)
           \/ LackHandler(r) \/ StumbleOverArguments(r)
    PROVE  pending'[r].reply.code # "Client"
<1>1. \A reply, level : Send(r, reply, level) => pending'[r].reply = reply
    BY DEF Send, TypeOK, Total
<1>2. ASSUME Crash(r) PROVE pending'[r].reply.code # "Client"
    BY <1>1, <1>2 DEF Crash, FaultFromException, Fault
<1>3. CASE Return(r)
    <2>1. \A wide : Response(wide).code = "response"
        BY DEF Response, Fault
    <2>2. \A kind : Judged(kind) # "untyped"
        BY DEF Judged
    <2> QED BY <1>1, <1>2, <1>3, <2>1, <2>2 DEF Return
<1>4. CASE RaiseFault(r)
    <2>1. \A w : OwnFault(w).code = "own"
        BY DEF OwnFault, Fault
    <2> QED BY <1>1, <1>4, <2>1 DEF RaiseFault
<1> QED
    BY <1>2, <1>3, <1>4 DEF RaiseException, LackHandler, StumbleOverArguments

LEMMA MovesReply ==
    ASSUME TypeOK, ReplyInv, NEW r \in Requests, Moves(r)
    PROVE  ReplyInv'
<1>1. /\ pc[r] \in BeforeSend
      /\ pc'[r] \in {"reading", "parsed", "sending", "raised"}
      /\ pc[r] \in {"bound", "called"} => pc'[r] = "sending"
      /\ Apart(r) /\ UNCHANGED <<site, args, sent>>
    BY Moving DEF BeforeSend, BeforeBind
<1>2. sent'[r] = <<>> /\ IsSeq(sent'[r]) /\ (pc[r] # "called" => ~args'[r].called)
    BY <1>1 DEF ReplyInv, InTime, BeforeSend
<1>3. InTime(r)'
    BY <1>1, <1>2 DEF InTime, BeforeBind
<1>4. Closed(r)'
    BY <1>1, <1>2 DEF Closed, Partial
<1>5. ASSUME site.style # "doc" PROVE Blameless(r)'
    <2>1. CASE pc[r] = "called"
        <3>1. Return(r) \/ RaiseException(r) \/ RaiseFault(r)
            BY <2>1
            DEF Moves, RefuseMethod, RefuseHeaders, ReadBody, RefuseMessage, Abort,
                Accept, LackHandler, RefuseArguments, StumbleOverArguments, Taken
        <3> QED BY <1>2, <1>5, <3>1, HandlersBlame DEF Blameless, Reply
    <2>2. CASE pc[r] # "called"
        BY <1>2, <2>2 DEF Blameless
    <2> QED BY <2>1, <2>2
<1> QED BY <1>1, <1>3, <1>4, <1>5, OthersKeep

LEMMA FinishReply ==
    ASSUME TypeOK, ReplyInv, NEW r \in Requests, Finish(r)
    PROVE  ReplyInv'
<1>1. /\ pc[r] = "sending" /\ pc'[r] \in {"sending", "returned", "raised"}
      /\ Apart(r) /\ UNCHANGED <<site, args>>
    BY Finishing
<1> DEFINE New(whole) == Append(sent[r], Message(Reply(r), whole))
<1>2. \A whole : Put(r, whole) => sent'[r] = New(whole)
    BY DEF Put, TypeOK, Total
<1>3. \A whole : /\ Message(Reply(r), whole).whole = whole
                 /\ Message(Reply(r), whole).code = Reply(r).code
    BY DEF Message
<1>4. IsSeq(sent[r]) /\ \A whole : IsSeq(New(whole))
    BY Appended DEF ReplyInv, InTime
<1> DEFINE n == Len(sent[r])
       Extends(t, whole) ==
            /\ n \in Nat /\ Len(t) = n + 1 /\ t # <<>>
            /\ \A i \in 1..n : t[i] = sent[r][i]
            /\ t[n + 1].whole = whole
<1>10. ASSUME NEW whole, sent'[r] = New(whole) PROVE Extends(sent'[r], whole)
    <2>1. /\ n \in Nat /\ Len(New(whole)) = n + 1
          /\ \A i \in 1..n : New(whole)[i] = sent[r][i]
          /\ New(whole)[n + 1] = Message(Reply(r), whole)
        BY <1>4, Appended DEF ReplyInv, InTime
    <2>2. New(whole)[n + 1].whole = whole
        BY <1>3, <2>1
    <2>3. New(whole) # <<>>
        BY <2>1
    <2> QED BY <1>10, <2>1, <2>2, <2>3
<1>5. Raised(r) =>
        \/ pc'[r] = "raised" /\ Reply(r)' = Reply(r)
        \/ pc'[r] = "sending" /\ Reply(r)'.code # "Client"
    <2>1. Crash(r) => pc'[r] = "sending" /\ Reply(r)'.code = "Server"
        BY DEF Crash, Send, FaultFromException, Fault, Reply, TypeOK, Total
    <2> QED BY <2>1 DEF Raised, Reply, TypeOK
<1>6. \/ sent'[r] = sent[r] \/ sent'[r] = New(FALSE)
      \/ sent'[r] = New(TRUE) /\ pc'[r] = "returned" /\ site.entry # "server"
    BY <1>1, <1>2 DEF Finish, WriteServer, Write, TypeOK
<1>7. InTime(r)'
    BY <1>1, <1>4, <1>6 DEF InTime, BeforeSend, BeforeBind
<1>8. ASSUME site.entry # "server" PROVE Closed(r)'
    <2>1. Partial(r) /\ Write(r)
        BY <1>1, <1>8 DEF ReplyInv, Closed, Finish, WriteServer
    <2>2. CASE Put(r, TRUE) /\ pc' = [pc EXCEPT ![r] = "returned"]
        <3>1. sent'[r] = New(TRUE) /\ pc'[r] = "returned"
            BY <1>2, <2>2 DEF TypeOK
        <3>2. Extends(sent'[r], TRUE)
            BY <1>10, <3>1
        <3>3. sent'[r][Len(sent'[r])].whole /\ sent'[r] # <<>>
            BY <3>2
        <3>4. \A i \in 1..Len(sent'[r]) : sent'[r][i].whole => i = Len(sent'[r])
            BY <2>1, <3>2 DEF Partial
        <3> QED BY <3>1, <3>3, <3>4 DEF Closed
    <2>3. CASE Put(r, FALSE) /\ Raised(r)
        <3>1. sent'[r] = New(FALSE) /\ pc'[r] # "returned"
            BY <1>2, <1>5, <2>3
        <3>2. Partial(r)' /\ sent'[r] # <<>>
            <4>1. Extends(sent'[r], FALSE)
                BY <1>10, <3>1
            <4> QED BY <2>1, <4>1 DEF Partial
        <3> QED BY <3>1, <3>2 DEF Closed
    <2>4. CASE ~Reply(r).writable /\ UNCHANGED sent /\ Raised(r)
        BY <1>5, <2>1, <2>4 DEF Closed, Partial
    <2> QED BY <2>1, <2>2, <2>3, <2>4 DEF Write
<1>9. ASSUME site.style # "doc" PROVE Blameless(r)'
    <2> SUFFICES ASSUME args[r].called
                 PROVE  /\ pc'[r] = "sending" => Reply(r)'.code # "Client"
                        /\ \A i \in DOMAIN sent'[r] : sent'[r][i].code # "Client"
        BY <1>1 DEF Blameless
    <2>1. /\ Reply(r).code # "Client"
          /\ \A i \in DOMAIN sent[r] : sent[r][i].code # "Client"
        BY <1>1, <1>9 DEF ReplyInv, Blameless
    <2>2. pc'[r] = "sending" => Reply(r)'.code # "Client"
        BY <1>5, <2>1 DEF Finish, WriteServer, Write, TypeOK
    <2>3. \A whole : \A i \in DOMAIN New(whole) : New(whole)[i].code # "Client"
        BY <1>3, <1>4, <2>1, Appended
    <2> QED BY <1>6, <2>1, <2>2, <2>3
<1> QED BY <1>1, <1>7, <1>8, <1>9, OthersKeep

LEMMA ReplyPreserved == TypeOK /\ ReplyInv /\ [Next]_vars => ReplyInv'
<1> SUFFICES ASSUME TypeOK, ReplyInv, [Next]_vars PROVE ReplyInv'
    OBVIOUS
<1>1. CASE UNCHANGED dispatchVars
    BY <1>1
    DEF dispatchVars, ReplyInv, InTime, Closed, Blameless, Partial, Reply
<1>2. ASSUME NEW r \in Requests,
             \/ Arrive(r) \/ Bind(r) \/ CallHandler(r) \/ AskClient(r)
      PROVE  ReplyInv'
    <2>1. /\ pc[r] \in BeforeSend /\ pc'[r] \in BeforeSend
          /\ Apart(r) /\ UNCHANGED <<site, sent>>
        BY <1>2
        DEF Arrive, Bind, CallHandler, AskClient, TypeOK, Total, Apart,
            BeforeSend, BeforeBind
    <2>2. pc'[r] \in BeforeBind \cup {"bound"} => ~args'[r].called
        BY <1>2
        DEF Arrive, Bind, CallHandler, AskClient, TypeOK, ReplyInv, InTime,
            BeforeBind
    <2>3. sent'[r] = <<>> /\ IsSeq(sent'[r])
        BY <2>1 DEF ReplyInv, InTime
    <2>4. InTime(r)' /\ Closed(r)' /\ Blameless(r)'
        BY <2>1, <2>2, <2>3
        DEF InTime, Closed, Blameless, Partial, BeforeSend, BeforeBind
    <2> QED BY <2>1, <2>4, OthersKeep
<1>3. ASSUME NEW r \in Requests, Moves(r) \/ Finish(r) PROVE ReplyInv'
    BY <1>3, MovesReply, FinishReply
<1> QED
    BY <1>1, <1>2, <1>3
    DEF Next, Serve, Enter, Parse, Prepare, Handle, Moves, AskURI, Resolve, Clear, vars

LEMMA ReplyInitial == Init => ReplyInv
<1>1. IsSeq(<<>>)
    BY <<>> \in Seq({}) DEF IsSeq
<1>2. ~NotCalled.called
    BY DEF NotCalled
<1> QED
    BY <1>1, <1>2
    DEF Init, ReplyInv, InTime, Closed, Blameless, Partial, BeforeSend,
        BeforeBind

LEMMA ReplyImplies == TypeOK /\ ReplyInv => Answered /\ BlamedIsUndone
<1> SUFFICES ASSUME TypeOK, ReplyInv PROVE Answered /\ BlamedIsUndone
    OBVIOUS
<1>1. BlamedIsUndone
    BY DEF BlamedIsUndone, ReplyInv, Blameless
<1>2. ASSUME site.entry # "server", NEW r \in Requests PROVE OneReply(r)
    <2>1. PICK S : sent[r] \in Seq(S)
        BY DEF ReplyInv, InTime, IsSeq
    <2>2. Len(sent[r]) \in Nat /\ (sent[r] # <<>> <=> Len(sent[r]) > 0)
        BY <2>1
    <2>3. Closed(r)
        BY <1>2 DEF ReplyInv
    <2> QED BY <2>2, <2>3 DEF Closed, Partial, OneReply
<1> QED BY <1>1, <1>2 DEF Answered

(* A request to AsCGI, AsHandler or AsJonPy gets one whole reply or the    *)
(* entry point raises, for any handlers, faults and broken connections.    *)
THEOREM RequestsAnswered == Spec => []Answered
<1>1. Init => TypeOK /\ CacheInv /\ ReplyInv
    BY Initial, ReplyInitial
<1>2. TypeOK /\ CacheInv /\ [Next]_vars => TypeOK' /\ CacheInv'
    BY TypePreserved
<1>3. TypeOK /\ ReplyInv /\ [Next]_vars => ReplyInv'
    BY ReplyPreserved
<1>4. TypeOK /\ ReplyInv => Answered
    BY ReplyImplies
<1> QED
    BY <1>1, <1>2, <1>3, <1>4, PTL DEF Spec

(* A fault that blames the client, in any style but "doc", means that no   *)
(* handler was called.                                                     *)
THEOREM BlameTrusted == Spec => []BlamedIsUndone
<1>1. Init => TypeOK /\ CacheInv /\ ReplyInv
    BY Initial, ReplyInitial
<1>2. TypeOK /\ CacheInv /\ [Next]_vars => TypeOK' /\ CacheInv'
    BY TypePreserved
<1>3. TypeOK /\ ReplyInv /\ [Next]_vars => ReplyInv'
    BY ReplyPreserved
<1>4. TypeOK /\ ReplyInv => BlamedIsUndone
    BY ReplyImplies
<1> QED
    BY <1>1, <1>2, <1>3, <1>4, PTL DEF Spec

-----------------------------------------------------------------------------
(***************************************************************************)
(* What the faults report.                                                 *)
(***************************************************************************)
Made == {FaultFromZSIException(b) : b \in BOOLEAN}
            \cup {FaultFromException(b) : b \in BOOLEAN}

(* A fault that blames the server, or the client's message, was made of an *)
(* exception; that a GET is none is not about a message.                   *)
Reports(r, code) == code = "Server" \/ (code = "Client" /\ Posted(call[r]))
MadeOf(r, reply) == Reports(r, reply.code) => reply \in Made

Ids(m) == {k \in DOMAIN m.detail : m.detail[k] = "request id"}
Traceable(m) == Cardinality(Ids(m)) = 1 /\ Len(m.detail) + Len(m.header) = 2

Told(r) ==
    \A i \in DOMAIN sent[r] : Reports(r, sent[r][i].code) => Traceable(sent[r][i])

TraceInv ==
    \A r \in Requests : (pc[r] = "sending" => MadeOf(r, Reply(r))) /\ Told(r)

(* An element that is appended to others is the only one of its kind.      *)
LEMMA LastAlone ==
    ASSUME NEW S, NEW s \in Seq(S), NEW e, e \notin S
    PROVE  /\ Len(s \o <<e>>) = Len(s) + 1
           /\ {k \in DOMAIN (s \o <<e>>) : (s \o <<e>>)[k] = e} = {Len(s) + 1}
<1> DEFINE d == s \o <<e>>
           n == Len(s)
<1>1. n \in Nat /\ \A i \in 1..n : s[i] \in S
    OBVIOUS
<1>2. s \in Seq(S \cup {e}) /\ <<e>> \in Seq(S \cup {e}) /\ Len(<<e>>) = 1 /\ <<e>>[1] = e
    OBVIOUS
<1>3. /\ d \in Seq(S \cup {e}) /\ Len(d) = n + 1
      /\ \A i \in 1..n : d[i] = s[i]
      /\ d[n + 1] = e
    BY <1>1, <1>2
<1> HIDE DEF d, n
<1>4. DOMAIN d = 1..(n + 1)
    BY <1>1, <1>3
<1>5. {k \in DOMAIN d : d[k] = e} = {n + 1}
    BY <1>1, <1>3, <1>4
<1> QED BY <1>3, <1>5 DEF d, n

Items == {"trace", "exception"}

(* A fault reports in one of the two details, and once by its id.          *)
LEMMA MadeTraceable ==
    ASSUME NEW f \in Made, NEW whole
    PROVE  Traceable(Message(f, whole))
<1>1. PICK inheader \in BOOLEAN, what \in Items :
        /\ f.detail = IF inheader THEN <<>> ELSE <<what>>
        /\ f.headerdetail = IF inheader THEN <<what>> ELSE <<>>
        /\ f.id
    BY DEF Made, FaultFromZSIException, FaultFromException, Fault, Items
<1> DEFINE m == Message(f, whole)
<1>2. m.detail = f.detail \o <<"request id">> /\ m.header = f.headerdetail
    BY <1>1 DEF Message, DetailOf
<1> HIDE DEF m
<1>3. /\ f.detail \in Seq(Items) /\ Len(f.detail) \in Nat
      /\ Len(f.headerdetail) \in Nat /\ Len(f.detail) + Len(f.headerdetail) = 1
    <2>1. <<>> \in Seq(Items) /\ Len(<<>>) = 0
        OBVIOUS
    <2>2. <<what>> \in Seq(Items) /\ Len(<<what>>) = 1
        OBVIOUS
    <2>3. CASE inheader
        BY <1>1, <2>1, <2>2, <2>3
    <2>4. CASE ~inheader
        BY <1>1, <2>1, <2>2, <2>4
    <2> QED BY <2>3, <2>4
<1>4. Len(m.detail) = Len(f.detail) + 1 /\ Ids(m) = {Len(f.detail) + 1}
    <2> DEFINE id == "request id"
               s == f.detail
    <2>1. id \notin Items
        BY DEF Items
    <2> HIDE DEF id, s
    <2>2. s \in Seq(Items) /\ m.detail = s \o <<id>>
        BY <1>2, <1>3 DEF id, s
    <2>3. Len(m.detail) = Len(s) + 1 /\ {k \in DOMAIN m.detail : m.detail[k] = id} = {Len(s) + 1}
        BY <2>1, <2>2, LastAlone
    <2> QED BY <2>3 DEF Ids, id, s
<1>5. Cardinality(Ids(m)) = 1
    BY <1>4, FS_Singleton
<1>6. Len(m.detail) + Len(m.header) = 2
    <2> DEFINE a == Len(f.detail)
               b == Len(m.header)
               c == Len(m.detail)
    <2>1. a \in Nat /\ b \in Nat /\ a + b = 1 /\ c = a + 1
        BY <1>2, <1>3, <1>4
    <2> HIDE DEF a, b, c
    <2>2. c + b = 2
        BY <2>1
    <2> QED BY <2>2 DEF b, c
<1> QED BY <1>5, <1>6 DEF Traceable, m

(* A step of r has to keep what is said of r.                              *)
LEMMA OthersTraced ==
    ASSUME TypeOK, TraceInv, NEW r \in Requests, UNCHANGED site, Apart(r),
           pc'[r] = "sending" => MadeOf(r, Reply(r))', Told(r)'
    PROVE  TraceInv'
<1> SUFFICES ASSUME NEW q \in Requests \ {r}
             PROVE  (pc'[q] = "sending" => MadeOf(q, Reply(q))') /\ Told(q)'
    BY DEF TraceInv
<1>1. /\ pc'[q] = pc[q] /\ pending'[q] = pending[q] /\ sent'[q] = sent[q]
      /\ call'[q] = call[q]
    BY DEF Apart
<1>2. (pc[q] = "sending" => MadeOf(q, Reply(q))) /\ Told(q)
    BY DEF TraceInv
<1>3. Told(q)'
    BY <1>1, <1>2 DEF Told, Reports, Posted, Traceable, Ids
<1>4. pc'[q] = "sending" => MadeOf(q, Reply(q))'
    BY <1>1, <1>2 DEF MadeOf, Reply, Reports, Posted
<1> QED BY <1>3, <1>4

(* What is sent other than a response, or a Fault of the handler's, was    *)
(* made of an exception or answers what is no POST.                        *)
LEMMA SendsMade ==
    ASSUME TypeOK, NEW r \in Requests, NEW reply, NEW level,
           Send(r, reply, level), UNCHANGED <<site, call>>,
           \/ reply \in Made \/ reply.code \notin {"Server", "Client"}
           \/ reply.code = "Client" /\ ~Posted(call[r])
    PROVE  MadeOf(r, Reply(r))'
<1>1. Reply(r)' = reply
    BY DEF Send, Reply, TypeOK, Total
<1>2. \A code : Reports(r, code)' <=> Reports(r, code)
    BY DEF Reports, Posted
<1>3. MadeOf(r, reply)
    BY DEF MadeOf, Reports
<1> QED BY <1>1, <1>2, <1>3 DEF MadeOf

LEMMA MovesMade ==
    ASSUME TypeOK, NEW r \in Requests, Moves(r), pc'[r] = "sending"
    PROVE  MadeOf(r, Reply(r))'
<1>1. UNCHANGED <<site, call>> /\ \A b \in BOOLEAN :
            FaultFromZSIException(b) \in Made /\ FaultFromException(b) \in Made
    BY Moving DEF Made
<1>2. ASSUME NEW reply \in Made, NEW level, Send(r, reply, level)
      PROVE  MadeOf(r, Reply(r))'
    BY <1>1, <1>2, SendsMade
<1>3. ASSUME Crash(r) PROVE MadeOf(r, Reply(r))'
    BY <1>1, <1>2, <1>3 DEF Crash
<1>4. CASE RefuseMethod(r)
    <2>1. MustUsePOST.code = "Client" /\ ~Posted(call[r]) /\ Send(r, MustUsePOST, "entry")
        BY <1>4 DEF RefuseMethod, MustUsePOST, Fault
    <2> QED BY <1>1, <2>1, SendsMade
<1>5. CASE RefuseMessage(r) \/ RefuseArguments(r)
    <2>1. ParseFault(call[r]) \in Made
        BY <1>1 DEF ParseFault
    <2> QED BY <1>1, <1>2, <1>3, <1>5, <2>1 DEF RefuseMessage, RefuseArguments
<1>6. CASE RefuseHeaders(r) \/ Abort(r)
    <2>1. CASE pc' = [pc EXCEPT ![r] = "raised"]
        BY <2>1 DEF TypeOK
    <2>2. CASE Send(r, FaultFromException(TRUE), "entry")
        BY <1>1, <1>2, <2>2
    <2> QED BY <1>6, <2>1, <2>2 DEF RefuseHeaders, Abort, Stumble
<1>7. CASE LackHandler(r) \/ StumbleOverArguments(r)
    BY <1>3, <1>7 DEF LackHandler, StumbleOverArguments
<1>8. CASE Return(r)
    <2>1. \A wide : Response(wide).code = "response"
        BY DEF Response, Fault
    <2>2. ASSUME NEW wide, Send(r, Response(wide), "try") PROVE MadeOf(r, Reply(r))'
        <3>1. Response(wide).code \notin {"Server", "Client"}
            BY <2>1
        <3> QED BY <1>1, <2>2, <3>1, SendsMade
    <2> QED BY <1>1, <1>2, <1>3, <1>8, <2>2 DEF Return
<1>9. CASE RaiseException(r)
    BY <1>1, <1>2, <1>3, <1>9 DEF RaiseException
<1>10. CASE RaiseFault(r)
    <2>1. \A w : OwnFault(w).code = "own"
        BY DEF OwnFault, Fault
    <2>2. ASSUME NEW w, Send(r, OwnFault(w), "last") PROVE MadeOf(r, Reply(r))'
        <3>1. OwnFault(w).code \notin {"Server", "Client"}
            BY <2>1
        <3> QED BY <1>1, <2>2, <3>1, SendsMade
    <2> QED BY <1>1, <1>2, <1>10, <2>2 DEF RaiseFault
<1>11. CASE Accept(r) \/ ReadBody(r)
    BY <1>11 DEF Accept, ReadBody, TypeOK
<1> QED
    BY <1>4, <1>5, <1>6, <1>7, <1>8, <1>9, <1>10, <1>11 DEF Moves

LEMMA FinishTraced ==
    ASSUME TypeOK, ReplyInv, TraceInv, NEW r \in Requests, Finish(r)
    PROVE  TraceInv'
<1>1. /\ pc[r] = "sending" /\ Apart(r) /\ UNCHANGED <<site, call>>
    BY Finishing
<1>2. MadeOf(r, Reply(r)) /\ \A code : Reports(r, code)' <=> Reports(r, code)
    BY <1>1 DEF TraceInv, Reports, Posted
<1>3. pc'[r] = "sending" => MadeOf(r, Reply(r))'
    <2>1. CASE Crash(r)
        <3>1. FaultFromException(FALSE) \in Made
            BY DEF Made
        <3> QED BY <1>1, <2>1, <3>1, SendsMade DEF Crash
    <2>2. CASE pc' = [pc EXCEPT ![r] = "raised"] \/ pc' = [pc EXCEPT ![r] = "returned"]
        BY <2>2 DEF TypeOK
    <2> QED BY <2>1, <2>2 DEF Finish, WriteServer, Write, Raised
<1>4. ASSUME NEW whole, sent' = [sent EXCEPT ![r] = Append(@, Message(Reply(r), whole))]
      PROVE  Told(r)'
    <2> DEFINE m == Message(Reply(r), whole)
    <2>1. sent'[r] = Append(sent[r], m)
        BY <1>4 DEF TypeOK, Total
    <2>2. m.code = Reply(r).code
        BY DEF Message
    <2>3. Reports(r, m.code) => Traceable(m)
        BY <1>2, <2>2, MadeTraceable DEF MadeOf
    <2> HIDE DEF m
    <2>4. /\ DOMAIN sent[r] = 1..Len(sent[r]) /\ DOMAIN sent'[r] = 1..(Len(sent[r]) + 1)
          /\ \A i \in 1..Len(sent[r]) : sent'[r][i] = sent[r][i]
          /\ sent'[r][Len(sent[r]) + 1] = m /\ Len(sent[r]) \in Nat
        BY <2>1, Appended DEF ReplyInv, InTime
    <2>5. SUFFICES ASSUME NEW i \in DOMAIN sent'[r], Reports(r, sent'[r][i].code)
                   PROVE  Traceable(sent'[r][i])
        <3>1. \A i \in DOMAIN sent'[r] :
                Reports(r, sent'[r][i].code) => Traceable(sent'[r][i])
            BY <2>5
        <3> QED BY <1>1, <3>1 DEF Told, Reports, Posted, Traceable, Ids
    <2>6. CASE i = Len(sent[r]) + 1
        BY <2>3, <2>4, <2>5, <2>6
    <2>7. CASE i \in 1..Len(sent[r])
        BY <2>4, <2>5, <2>7 DEF TraceInv, Told
    <2> QED BY <2>4, <2>6, <2>7
<1>5. CASE UNCHANGED sent
    <2>1. Told(r)'
        BY <1>1, <1>5 DEF TraceInv, Told, Reports, Posted, Traceable, Ids
    <2> QED BY <1>1, <1>3, <2>1, OthersTraced
<1>6. CASE \E whole : Put(r, whole)
    BY <1>1, <1>3, <1>4, <1>6, OthersTraced DEF Put
<1> QED BY <1>5, <1>6 DEF Finish, WriteServer, Write

LEMMA TracePreserved == TypeOK /\ ReplyInv /\ TraceInv /\ [Next]_vars => TraceInv'
<1> SUFFICES ASSUME TypeOK, ReplyInv, TraceInv, [Next]_vars PROVE TraceInv'
    OBVIOUS
<1>1. CASE UNCHANGED dispatchVars
    BY <1>1
    DEF dispatchVars, TraceInv, Told, MadeOf, Reports, Posted, Reply, Traceable, Ids
<1>2. ASSUME NEW r \in Requests, pc[r] \in BeforeSend, Apart(r),
             UNCHANGED <<site, sent>>, pc'[r] = "sending" => MadeOf(r, Reply(r))'
      PROVE  TraceInv'
    <2>1. DOMAIN sent'[r] = {}
        <3>1. sent'[r] = <<>>
            BY <1>2 DEF ReplyInv, InTime
        <3> QED BY <3>1
    <2>2. Told(r)'
        BY <2>1 DEF Told
    <2> QED BY <1>2, <2>2, OthersTraced
<1>3. ASSUME NEW r \in Requests,
             \/ Arrive(r) \/ Bind(r) \/ CallHandler(r) \/ AskClient(r)
      PROVE  TraceInv'
    <2>1. /\ pc[r] \in BeforeSend /\ pc'[r] # "sending"
          /\ Apart(r) /\ UNCHANGED <<site, sent>>
        BY <1>3
        DEF Arrive, Bind, CallHandler, AskClient, TypeOK, Total, Apart,
            BeforeSend, BeforeBind
    <2> QED BY <1>2, <2>1
<1>4. ASSUME NEW r \in Requests, Moves(r) PROVE TraceInv'
    <2>1. pc[r] \in BeforeSend /\ Apart(r) /\ UNCHANGED <<site, sent>>
        BY <1>4, Moving DEF BeforeSend, BeforeBind
    <2>2. pc'[r] = "sending" => MadeOf(r, Reply(r))'
        BY <1>4, MovesMade
    <2> QED BY <1>2, <2>1, <2>2
<1>5. ASSUME NEW r \in Requests, Finish(r) PROVE TraceInv'
    BY <1>5, FinishTraced
<1> QED
    BY <1>1, <1>3, <1>4, <1>5
    DEF Next, Serve, Enter, Parse, Prepare, Handle, Moves, AskURI, Resolve, Clear, vars

LEMMA TraceImplies == TraceInv => FaultsTraceable
<1> SUFFICES ASSUME TraceInv, NEW r \in Requests, NEW i \in DOMAIN sent[r]
             PROVE  LET f == FaultFromFaultMessage(sent[r][i])
                        ids == {k \in DOMAIN f.detail : f.detail[k] = "request id"} IN
                    f.code = "Server" \/ (f.code = "Client" /\ Posted(call[r])) =>
                        /\ Cardinality(ids) = 1
                        /\ Len(f.detail) + Len(sent[r][i].header) = 2
    BY DEF FaultsTraceable
<1>1. /\ FaultFromFaultMessage(sent[r][i]).code = sent[r][i].code
      /\ FaultFromFaultMessage(sent[r][i]).detail = sent[r][i].detail
    BY DEF FaultFromFaultMessage
<1>2. Reports(r, sent[r][i].code) => Traceable(sent[r][i])
    BY DEF TraceInv, Told
<1> QED BY <1>1, <1>2 DEF Reports, Traceable, Ids

(* Whatever goes wrong on whatever entry point, the fault that is made of  *)
(* it reaches the client with one request id and one report.               *)
THEOREM FaultsTraced == Spec => []FaultsTraceable
<1>1. Init => TypeOK /\ CacheInv /\ ReplyInv
    BY Initial, ReplyInitial
<1>2. Init => TraceInv
    BY DEF Init, TraceInv, Told
<1>3. TypeOK /\ CacheInv /\ [Next]_vars => TypeOK' /\ CacheInv'
    BY TypePreserved
<1>4. TypeOK /\ ReplyInv /\ [Next]_vars => ReplyInv'
    BY ReplyPreserved
<1>5. TypeOK /\ ReplyInv /\ TraceInv /\ [Next]_vars => TraceInv'
    BY TracePreserved
<1> QED
    BY <1>1, <1>2, <1>3, <1>4, <1>5, TraceImplies, PTL DEF Spec
=============================================================================
