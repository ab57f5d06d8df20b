---------------------------- MODULE BindingProofs ----------------------------
(***************************************************************************)
(* Theorems about Binding, for every number of Sends, every set of styles  *)
(* and cookies, with and without addressing, and on both runtimes.         *)
(***************************************************************************)
EXTENDS Binding, TLAPS

------------------------------------------------------------------------------
\* Typing.

\* Finish keeps the types of what it writes.
LEMMA FinishType ==
  ASSUME NEW op \in Ops, NEW d \in Reply, ps \in Reply \cup {None}, Finish(op, d)
  PROVE  /\ pc' \in Ops \cup {"idle"}
         /\ ps' \in Reply \cup {None}
         /\ ret' \in [op : Ops \cup {"none"}, val : Reply \cup {None}]
BY DEF Finish, Returned, Raised, Ops

\* A response is a reply to the request that is pending.
LEMMA ResponseType ==
  ASSUME NEW status \in Status, NEW kind \in Kinds, NEW set \in SUBSET Cookies,
         TypeOK, Response(status, kind, set)
  PROVE  data' \in Reply /\ jar' \in SUBSET Cookies
BY DEF Response, TypeOK, Reply

\* The stages that put something on the wire, among all of them.
LEMMA StageRange ==
  /\ headers \in Stages /\ body \in Stages /\ sent \in Stages
  /\ body >= body /\ sent >= body /\ body # sent
BY DEF headers, body, sent, Stages, serializing

\* The number of the next Send.
LEMMA NextRequest ==
  ASSUME TypeOK, NEW stage \in Stages, NEW own \in BOOLEAN, Send(stage, own)
  PROVE  /\ attempts + 1 \in Request
         /\ attempts + 1 \in 0..MaxSend
         /\ attempts' = attempts + 1
         /\ Write(attempts + 1, attempts + 1, FALSE, stage, jar)
         /\ conn' \in {conn, attempts + 1}
         /\ callback' \in {callback, attempts + 1}
<1>1. attempts \in 0..MaxSend /\ MaxSend \in Nat
  BY BindingAssumption DEF TypeOK
<1>2. attempts + 1 <= MaxSend
  BY DEF Send
<1>3. attempts + 1 \in Request /\ attempts + 1 \in 0..MaxSend
  BY <1>1, <1>2 DEF Request
<1>4. attempts' = attempts + 1 /\ Write(attempts + 1, attempts + 1, FALSE, stage, jar)
  BY DEF Send
<1>5. conn' \in {conn, attempts + 1} /\ callback' \in {callback, attempts + 1}
  BY DEF Send
<1> QED
  BY <1>3, <1>4, <1>5

\* An entry names a request.
LEMMA EntryRequest ==
  ASSUME wire \in Seq(Entry)
  PROVE  \A i \in 1..Len(wire) : wire[i].req \in Nat
<1>1. \A i \in 1..Len(wire) : wire[i] \in Entry
  OBVIOUS
<1>2. \A e \in Entry : e.req \in Request
  BY DEF Entry
<1> QED
  BY <1>1, <1>2 DEF Request

\* Write appends at most one entry.
LEMMA WriteType ==
  ASSUME NEW r \in Request, NEW c \in 0..MaxSend, NEW resend \in BOOLEAN,
         NEW stage \in Stages, NEW cookies \in SUBSET Cookies,
         wire \in Seq(Entry), Write(r, c, resend, stage, cookies)
  PROVE  wire' \in Seq(Entry)
<1> DEFINE e == [req |-> r, conn |-> c, resend |-> resend, whole |-> stage = sent,
                 jar |-> cookies]
<1>1. e \in Entry
  BY DEF Entry
<1>2. wire' = wire \/ wire' = Append(wire, e)
  BY DEF Write
<1> QED
  BY <1>1, <1>2

\* Every step keeps the types.
LEMMA TypePreserved == TypeOK /\ [Next]_vars => TypeOK'
<1> SUFFICES ASSUME TypeOK, [Next]_vars PROVE TypeOK'
  OBVIOUS
<1>1. CASE Modify
  BY <1>1 DEF TypeOK, Modify, SetAuth, ResetCookies
<1>2. ASSUME NEW stage \in Stages, NEW own \in BOOLEAN, Send(stage, own)
      PROVE TypeOK'
  <2>1. attempts' \in 0..MaxSend /\ attempts + 1 \in Request
    BY <1>2, BindingAssumption DEF TypeOK, Send, Forgets, Request
  <2>2. wire' \in Seq(Entry)
    BY <1>2, <2>1, WriteType DEF TypeOK, Send, Forgets, Request
  <2>3. conn' \in 0..MaxSend /\ address' \in Request \cup {None}
    BY <1>2, <2>1 DEF TypeOK, Send, Forgets, Request
  <2>4. pending' \in Request \cup {None} /\ callback' \in Request \cup {None}
    BY <1>2, <2>1 DEF TypeOK, Send, Forgets, Written
  <2>5. /\ data' \in Reply \cup {None} /\ ps' \in Reply \cup {None}
        /\ ret' \in [op : Ops \cup {"none"}, val : Reply \cup {None}]
    BY <1>2 DEF TypeOK, Send, Forgets, NoCall
  <2> QED
    BY <1>2, <2>1, <2>2, <2>3, <2>4, <2>5 DEF TypeOK, Send, Forgets
<1>3. ASSUME NEW op \in Ops, CallHeld(op)
      PROVE TypeOK'
  BY <1>3, FinishType DEF TypeOK, CallHeld, HasData
<1>4. ASSUME NEW op \in Ops, CallReads(op)
      PROVE TypeOK'
  BY <1>4 DEF TypeOK, CallReads
<1>5. CASE ReadFails
  BY <1>5 DEF TypeOK, ReadFails, Fail, Raised
<1>6. ASSUME NEW set \in SUBSET Cookies, Continue(set)
      PROVE TypeOK'
  BY <1>6, ResponseType DEF TypeOK, Continue, Status, Kinds
<1>7. ASSUME NEW set \in SUBSET Cookies, Resend(set)
      PROVE TypeOK'
  <2>1. callback \in Request /\ conn \in 0..MaxSend /\ jar' \in SUBSET Cookies
    BY <1>7 DEF TypeOK, Resend, RemovesCallback, Answers
  <2>2. wire' \in Seq(Entry)
    BY <1>7, <2>1, WriteType, StageRange DEF TypeOK, Resend, RemovesCallback
  <2> QED
    BY <1>7, <2>1, <2>2 DEF TypeOK, Resend, RemovesCallback
<1>8. ASSUME NEW set \in SUBSET Cookies, NEW kind \in Kinds, Final(kind, set)
      PROVE TypeOK'
  <2>1. data' \in Reply /\ jar' \in SUBSET Cookies
    BY <1>8, ResponseType DEF Final, Status
  <2>2. pc \in Ops
    BY <1>8 DEF TypeOK, Final, Response
  <2> QED
    BY <1>8, <2>1, <2>2, FinishType DEF TypeOK, Final
<1>9. ASSUME NEW set \in SUBSET Cookies, NEW kind \in Kinds, NEW challenge \in BOOLEAN,
             Unauthorized(kind, set, challenge)
      PROVE TypeOK'
  <2>1. data' \in Reply /\ jar' \in SUBSET Cookies
    BY <1>9, ResponseType DEF Unauthorized, Status
  <2> QED
    BY <1>9, <2>1 DEF TypeOK, Unauthorized, Response, Fail, Raised
<1>10. ASSUME NEW set \in SUBSET Cookies, NEW kind \in Kinds, NEW stage \in {headers, body},
             ResendFails(kind, set, stage)
      PROVE TypeOK'
  <2>1. data' \in Reply /\ jar' \in SUBSET Cookies
    BY <1>10, ResponseType DEF ResendFails, Status
  <2>2. wire' \in Seq(Entry)
    BY <1>10, <2>1, WriteType, StageRange DEF TypeOK, ResendFails, Answers
  <2> QED
    BY <1>10, <2>1, <2>2 DEF TypeOK, ResendFails, Answers, Response, Fail, Raised, Written
<1>11. ASSUME NEW set \in SUBSET Cookies, NEW kind \in Kinds, NEW status \in Status,
              CookiesFail(status, kind, set)
      PROVE TypeOK'
  <2>1. data' \in Reply /\ jar' \in SUBSET Cookies
    BY <1>11, ResponseType DEF CookiesFail
  <2> QED
    BY <1>11, <2>1 DEF TypeOK, CookiesFail, Response, Fail, Raised
<1>12. CASE UNCHANGED vars
  BY <1>12 DEF TypeOK, vars
<1> QED
  BY <1>1, <1>2, <1>3, <1>4, <1>5, <1>6, <1>7, <1>8, <1>9, <1>10, <1>11, <1>12 DEF Next, Call

\* Every variable keeps its type.
THEOREM TypeCorrect == Spec => []TypeOK
<1>1. Init => TypeOK
  BY BindingAssumption DEF Init, NoCall, TypeOK
<1>2. QED
  BY <1>1, TypePreserved, PTL DEF Spec

------------------------------------------------------------------------------
\* Safety.

\* Nothing with a body is held while a method reads, so what is parsed is
\* always what is held.
HeldInv ==
  /\ ps # None => ps = data /\ HasData(data)
  /\ pc # "idle" => ~HasData(data)

\* A request on the wire belongs to a Send that was made; an installed
\* callback has not resent its request yet.
WireInv ==
  /\ conn <= attempts
  /\ \A i \in 1..Len(wire) : wire[i].req <= attempts
  /\ callback # None =>
       /\ callback <= attempts
       /\ \A i \in 1..Len(wire) : wire[i].resend /\ wire[i].whole => wire[i].req # callback
  /\ AtMostOneResend

\* What is pending was written on the open connection, and what is held
\* answers it, or is older than a Send that failed.
AnswerInv ==
  /\ pending # None => pending = conn \/ ResentHere(pending)
  /\ data # None => data.to = conn \/ ResentHere(data.to) \/ ~Completed(conn)

IInv == TypeOK /\ HeldInv /\ WireInv /\ AnswerInv

\* What Write does to the entries: the old ones stay, at most one is added.
LEMMA WriteEntries ==
  ASSUME NEW r \in Request, NEW c \in 0..MaxSend, NEW resend \in BOOLEAN,
         NEW stage \in Stages, NEW cookies \in SUBSET Cookies,
         wire \in Seq(Entry), Write(r, c, resend, stage, cookies)
  PROVE  /\ \A i \in 1..Len(wire) : i \in 1..Len(wire') /\ wire'[i] = wire[i]
         /\ \A i \in 1..Len(wire') :
              \/ i \in 1..Len(wire) /\ wire'[i] = wire[i]
              \/ /\ stage >= body
                 /\ i = Len(wire')
                 /\ i = Len(wire) + 1
                 /\ wire'[i].req = r
                 /\ wire'[i].conn = c
                 /\ wire'[i].resend = resend
                 /\ (wire'[i].whole => stage = sent)
         /\ stage >= body =>
              /\ Len(wire') = Len(wire) + 1
              /\ wire'[Len(wire')].req = r
              /\ wire'[Len(wire')].conn = c
              /\ wire'[Len(wire')].resend = resend
<1> DEFINE e == [req |-> r, conn |-> c, resend |-> resend, whole |-> stage = sent,
                 jar |-> cookies]
<1>1. CASE stage >= body
  <2>1. wire' = Append(wire, e)
    BY <1>1 DEF Write
  <2>2. e \in Entry
    BY DEF Entry
  <2>3. /\ Len(wire') = Len(wire) + 1
        /\ Len(wire) \in Nat
        /\ \A i \in 1..Len(wire) : wire'[i] = wire[i]
        /\ wire'[Len(wire) + 1] = e
    BY <2>1, <2>2
  <2> HIDE DEF e
  <2>4. e.req = r /\ e.conn = c /\ e.resend = resend /\ (e.whole <=> stage = sent)
    BY DEF e
  <2> QED
    BY <2>3, <2>4, <1>1
<1>2. CASE ~(stage >= body)
  BY <1>2 DEF Write
<1> QED
  BY <1>1, <1>2

\* An entry that Write adds before the body was sent is not whole.
LEMMA WritePart ==
  ASSUME NEW r \in Request, NEW c \in 0..MaxSend, NEW resend \in BOOLEAN,
         NEW stage \in Stages, stage # sent, NEW cookies \in SUBSET Cookies,
         wire \in Seq(Entry), Write(r, c, resend, stage, cookies)
  PROVE  \A i \in 1..Len(wire') :
           \/ i \in 1..Len(wire) /\ wire'[i] = wire[i]
           \/ wire'[i].req = r /\ ~wire'[i].whole
BY WriteEntries

\* HeldInv is inductive.
LEMMA HeldPreserved ==
  ASSUME TypeOK, HeldInv, [Next]_vars
  PROVE  HeldInv'
<1>1. CASE Modify
  BY <1>1 DEF HeldInv, HasData, Modify, SetAuth, ResetCookies
<1>2. ASSUME NEW stage \in Stages, NEW own \in BOOLEAN, Send(stage, own)
      PROVE HeldInv'
  BY <1>2 DEF HeldInv, HasData, Send, Forgets
<1>3. ASSUME NEW op \in Ops, CallHeld(op)
      PROVE HeldInv'
  BY <1>3 DEF HeldInv, HasData, Parses, CallHeld, Finish
<1>4. ASSUME NEW op \in Ops, CallReads(op)
      PROVE HeldInv'
  BY <1>4 DEF HeldInv, HasData, CallReads
<1>5. CASE ReadFails
  BY <1>5 DEF HeldInv, HasData, ReadFails, Fail
<1>6. ASSUME NEW set \in SUBSET Cookies, Continue(set)
      PROVE HeldInv'
  BY <1>6 DEF HeldInv, HasData, Continue, Response
<1>7. ASSUME NEW set \in SUBSET Cookies, Resend(set)
      PROVE HeldInv'
  BY <1>7 DEF HeldInv, HasData, Resend, RemovesCallback
<1>8. ASSUME NEW set \in SUBSET Cookies, NEW kind \in Kinds, Final(kind, set)
      PROVE HeldInv'
  BY <1>8 DEF HeldInv, HasData, Parses, Final, Finish, Response
<1>9. ASSUME NEW set \in SUBSET Cookies, NEW kind \in Kinds, NEW challenge \in BOOLEAN,
             Unauthorized(kind, set, challenge)
      PROVE HeldInv'
  BY <1>9 DEF HeldInv, HasData, Unauthorized, Fail, Response
<1>10. ASSUME NEW set \in SUBSET Cookies, NEW kind \in Kinds, NEW stage \in {headers, body},
              ResendFails(kind, set, stage)
      PROVE HeldInv'
  BY <1>10 DEF HeldInv, HasData, ResendFails, Fail, Response
<1>11. ASSUME NEW set \in SUBSET Cookies, NEW kind \in Kinds, NEW status \in Status,
              CookiesFail(status, kind, set)
      PROVE HeldInv'
  BY <1>11 DEF HeldInv, HasData, CookiesFail, Fail, Response
<1>12. CASE UNCHANGED vars
  BY <1>12 DEF HeldInv, HasData, vars
<1> QED
  BY <1>1, <1>2, <1>3, <1>4, <1>5, <1>6, <1>7, <1>8, <1>9, <1>10, <1>11, <1>12 DEF Next, Call

\* Every step but a Send and the two resends leaves the wire, the connection
\* and the callback alone, and puts nothing new on the connection.
LEMMA QuietSteps ==
  ASSUME TypeOK, [Next]_vars,
         \A stage \in Stages, own \in BOOLEAN : ~Send(stage, own),
         \A set \in SUBSET Cookies : ~Resend(set),
         \A set \in SUBSET Cookies, kind \in Kinds, stage \in {headers, body} :
           ~ResendFails(kind, set, stage)
  PROVE  /\ UNCHANGED <<wire, conn, callback, attempts>>
         /\ pending' \in {pending, None}
         /\ data' = data \/ (pending # None /\ data'.to = pending)
<1>1. CASE Modify
  BY <1>1 DEF Modify, SetAuth, ResetCookies
<1>2. ASSUME NEW op \in Ops, CallHeld(op) \/ CallReads(op)
      PROVE  UNCHANGED <<wire, conn, callback, attempts, pending, data>>
  BY <1>2 DEF CallHeld, CallReads
<1>3. CASE ReadFails
  BY <1>3 DEF ReadFails
<1>4. ASSUME NEW set \in SUBSET Cookies, NEW kind \in Kinds, NEW challenge \in BOOLEAN,
             \/ Continue(set) \/ Final(kind, set) \/ Unauthorized(kind, set, challenge)
             \/ \E status \in Status : CookiesFail(status, kind, set)
      PROVE  /\ UNCHANGED <<wire, conn, callback, attempts>>
             /\ pending' \in {pending, None}
             /\ pending # None /\ data'.to = pending
  BY <1>4 DEF Continue, Final, Unauthorized, CookiesFail, Response
<1>5. CASE UNCHANGED vars
  BY <1>5 DEF vars
<1> QED
  BY <1>1, <1>2, <1>3, <1>4, <1>5 DEF Next, Call, Kinds

\* What the two resends have in common.
LEMMA ResendStep ==
  ASSUME TypeOK, NEW set \in SUBSET Cookies, NEW kind \in Kinds,
         \/ Resend(set)
         \/ \E stage \in {headers, body} : ResendFails(kind, set, stage)
  PROVE  /\ callback \in Request /\ jar' \in SUBSET Cookies
         /\ UNCHANGED <<conn, attempts>>
         /\ \/ /\ Write(callback, conn, TRUE, sent, jar') /\ callback' = None
               /\ pending' = callback /\ data' = None
            \/ /\ Write(callback, conn, TRUE, body, jar') /\ callback' = callback
               /\ pending' = callback /\ pending # None /\ data'.to = pending
            \/ /\ wire' = wire /\ callback' = callback
               /\ pending' = None /\ pending # None /\ data'.to = pending
BY DEF TypeOK, Resend, RemovesCallback, ResendFails, Answers, Response, Written, Write, headers, body, sent

\* WireInv is inductive.
LEMMA WirePreserved ==
  ASSUME TypeOK, WireInv, [Next]_vars
  PROVE  WireInv'
<1>0. /\ attempts \in Nat /\ conn \in 0..MaxSend /\ wire \in Seq(Entry)
      /\ callback \in Request \cup {None} /\ Len(wire) \in Nat
      /\ jar \in SUBSET Cookies
  BY DEF TypeOK
<1>1. ASSUME NEW stage \in Stages, NEW own \in BOOLEAN, Send(stage, own)
      PROVE WireInv'
  <2> DEFINE n == attempts + 1
  <2>1. /\ n \in Request /\ n \in 0..MaxSend /\ attempts' = n
        /\ Write(n, n, FALSE, stage, jar)
        /\ conn' \in {conn, n} /\ callback' \in {callback, n}
    BY <1>1, NextRequest
  <2>2. \A i \in 1..Len(wire') :
          \/ i \in 1..Len(wire) /\ wire'[i] = wire[i]
          \/ wire'[i].req = n /\ wire'[i].resend = FALSE
    BY <1>0, <2>1, WriteEntries
  <2>3. \A i \in 1..Len(wire) : wire[i].req <= attempts /\ wire[i].req # n
    BY <1>0, EntryRequest DEF WireInv
  <2>4. conn' <= attempts' /\ \A i \in 1..Len(wire') : wire'[i].req <= attempts'
    <3>1. conn' <= attempts'
      BY <1>0, <2>1 DEF WireInv
    <3>2. \A i \in 1..Len(wire) : wire[i].req <= n
      BY <1>0, <2>3, EntryRequest
    <3>3. n <= n
      BY <1>0
    <3> QED
      BY <2>1, <2>2, <3>1, <3>2, <3>3
  <2>5. callback' # None =>
          /\ callback' <= attempts'
          /\ \A i \in 1..Len(wire') : wire'[i].resend /\ wire'[i].whole => wire'[i].req # callback'
    <3>1. CASE callback' = n
      <4>1. \A i \in 1..Len(wire') : wire'[i].resend => wire'[i].req # n
        BY <2>2, <2>3
      <4> QED
        BY <1>0, <2>1, <3>1, <4>1
    <3>2. CASE callback' = callback
      <4>1. ASSUME callback # None
            PROVE  /\ callback <= n
                   /\ \A i \in 1..Len(wire') :
                        wire'[i].resend /\ wire'[i].whole => wire'[i].req # callback
        BY <1>0, <2>2, <4>1 DEF WireInv, Request
      <4> QED
        BY <2>1, <3>2, <4>1
    <3> QED
      BY <2>1, <3>1, <3>2
  <2>6. AtMostOneResend'
    BY <2>2 DEF WireInv, AtMostOneResend
  <2> QED
    BY <2>4, <2>5, <2>6 DEF WireInv
<1>2. ASSUME NEW set \in SUBSET Cookies, NEW kind \in Kinds,
             \/ Resend(set)
             \/ \E stage \in {headers, body} : ResendFails(kind, set, stage)
      PROVE WireInv'
  <2>0. /\ callback \in Request /\ jar' \in SUBSET Cookies
        /\ UNCHANGED <<conn, attempts>>
    BY <1>2, ResendStep
  <2>1. /\ callback \in Request /\ callback # None /\ jar' \in SUBSET Cookies
        /\ UNCHANGED <<conn, attempts>>
    BY <2>0, BindingAssumption DEF Request
  <2>2. CASE wire' = wire /\ callback' = callback
    BY <2>1, <2>2 DEF WireInv, AtMostOneResend
  <2>3. CASE Write(callback, conn, TRUE, body, jar') /\ callback' = callback
    <3>1. \A i \in 1..Len(wire') :
            \/ i \in 1..Len(wire) /\ wire'[i] = wire[i]
            \/ wire'[i].req = callback /\ ~wire'[i].whole
      BY <1>0, <2>1, <2>3, WritePart, StageRange
    <3> QED
      BY <2>1, <2>3, <3>1 DEF WireInv, AtMostOneResend
  <2>4. CASE Write(callback, conn, TRUE, sent, jar') /\ callback' = None
    <3>1. \A i \in 1..Len(wire') :
            \/ i \in 1..Len(wire) /\ wire'[i] = wire[i]
            \/ i = Len(wire') /\ wire'[i].req = callback
      BY <1>0, <2>1, <2>4, WriteEntries, StageRange
    <3>2. AtMostOneResend'
      BY <2>1, <3>1 DEF WireInv, AtMostOneResend
    <3> QED
      BY <2>1, <2>4, <3>1, <3>2 DEF WireInv
  <2> QED
    BY <1>2, <2>2, <2>3, <2>4, ResendStep
<1>3. CASE UNCHANGED <<wire, conn, callback, attempts>>
  BY <1>3 DEF WireInv, AtMostOneResend
<1> QED
  BY <1>1, <1>2, <1>3, QuietSteps DEF Kinds

\* AnswerInv is inductive.
LEMMA AnswerPreserved ==
  ASSUME TypeOK, WireInv, AnswerInv, [Next]_vars
  PROVE  AnswerInv'
<1>0. /\ attempts \in Nat /\ conn \in 0..MaxSend /\ wire \in Seq(Entry)
      /\ callback \in Request \cup {None} /\ Len(wire) \in Nat
      /\ jar \in SUBSET Cookies
  BY DEF TypeOK
<1>1. ASSUME NEW stage \in Stages, NEW own \in BOOLEAN, Send(stage, own)
      PROVE AnswerInv'
  <2> DEFINE n == attempts + 1
  <2>1. /\ n \in Request /\ n \in 0..MaxSend /\ attempts' = n
        /\ Write(n, n, FALSE, stage, jar)
    BY <1>1, NextRequest
  <2>2. CASE stage = sent
    BY <1>1, <2>2 DEF Send, Forgets, AnswerInv, Written, connecting, body, sent
  <2>3. CASE stage \in {connecting, headers, body}
    <3>1. conn' = n /\ data' = data /\ pending' \in {None, n}
      BY <1>1, <2>3 DEF Send, Forgets, Written, connecting, headers, body, sent
    <3>2. \A i \in 1..Len(wire') : wire'[i].req = n => ~wire'[i].whole
      <4>1. \A i \in 1..Len(wire') :
              \/ i \in 1..Len(wire) /\ wire'[i] = wire[i]
              \/ (wire'[i].whole => stage = sent)
        BY <1>0, <2>1, WriteEntries
      <4>3. stage # sent
        BY <2>3 DEF connecting, headers, body, sent
      <4>2. \A i \in 1..Len(wire) : wire[i].req # n
        BY <1>0, EntryRequest DEF WireInv
      <4> QED
        BY <4>1, <4>2, <4>3
    <3>3. ~Completed(conn)'
      BY <3>1, <3>2 DEF Completed
    <3> QED
      BY <3>1, <3>3 DEF AnswerInv
  <2>4. CASE stage \in {serializing, addressed}
    <3>1. UNCHANGED <<conn, data, pending, wire>>
      BY <1>1, <2>4 DEF Send, Forgets, Write, serializing, addressed, connecting, headers, body, sent
    <3> QED
      BY <3>1 DEF AnswerInv, Completed, ResentHere
  <2> QED
    BY <2>2, <2>3, <2>4 DEF Stages, serializing, addressed, connecting, headers, body, sent
<1>2. ASSUME NEW set \in SUBSET Cookies, NEW kind \in Kinds,
             \/ Resend(set)
             \/ \E stage \in {headers, body} : ResendFails(kind, set, stage)
      PROVE AnswerInv'
  <2>1. /\ callback \in Request /\ jar' \in SUBSET Cookies /\ conn' = conn
    BY <1>2, ResendStep
  <2>2. CASE wire' = wire /\ pending' = None /\ pending # None /\ data'.to = pending
    BY <2>1, <2>2 DEF AnswerInv, Completed, ResentHere
  <2>3. ASSUME NEW stage \in {body, sent}, Write(callback, conn, TRUE, stage, jar')
        PROVE \A r : r = callback \/ ResentHere(r) => ResentHere(r)'
    <3>1. stage \in Stages /\ stage >= body
      BY <2>3, StageRange DEF body, sent
    <3>2. /\ \A i \in 1..Len(wire) : i \in 1..Len(wire') /\ wire'[i] = wire[i]
          /\ Len(wire') = Len(wire) + 1
          /\ wire'[Len(wire')].req = callback
          /\ wire'[Len(wire')].conn = conn
          /\ wire'[Len(wire')].resend = TRUE
      BY <1>0, <2>1, <2>3, <3>1, WriteEntries
    <3>3. Len(wire') \in 1..Len(wire')
      BY <1>0, <3>2
    <3> QED
      BY <2>1, <3>2, <3>3 DEF ResentHere
  <2>4. CASE Write(callback, conn, TRUE, sent, jar') /\ pending' = callback /\ data' = None
    BY <2>1, <2>3, <2>4 DEF AnswerInv
  <2>5. CASE /\ Write(callback, conn, TRUE, body, jar') /\ pending' = callback
             /\ pending # None /\ data'.to = pending
    BY <2>1, <2>3, <2>5 DEF AnswerInv
  <2> QED
    BY <1>2, <2>2, <2>4, <2>5, ResendStep
<1>3. CASE /\ UNCHANGED <<wire, conn>>
           /\ pending' \in {pending, None}
           /\ data' = data \/ (pending # None /\ data'.to = pending)
  BY <1>3 DEF AnswerInv, Completed, ResentHere
<1> QED
  BY <1>1, <1>2, <1>3, QuietSteps DEF Kinds

\* The strengthening: everything the three invariants need of each other.
THEOREM Inductive == Spec => []IInv
<1>1. Init => IInv
  BY BindingAssumption DEF Init, IInv, TypeOK, NoCall, HeldInv, WireInv, AnswerInv,
     AtMostOneResend
<1>2. IInv /\ [Next]_vars => IInv'
  BY TypePreserved, HeldPreserved, WirePreserved, AnswerPreserved DEF IInv
<1> QED
  BY <1>1, <1>2, PTL DEF Spec

\* The DOM that Receive parses is that of the bytes ReceiveRaw returns.
THEOREM ParsedIsHeldAlways == Spec => []ParsedIsHeld
<1>1. IInv => ParsedIsHeld
  BY DEF IInv, HeldInv, ParsedIsHeld
<1> QED
  BY <1>1, Inductive, PTL

\* A Send is written completely at most twice: once, and once in answer to
\* a challenge.
THEOREM AtMostOneResendAlways == Spec => []AtMostOneResend
<1>1. IInv => AtMostOneResend
  BY DEF IInv, WireInv
<1> QED
  BY <1>1, Inductive, PTL

\* What a Receive method holds after a successful Send answers it.
THEOREM HeldAnswersLastSendAlways == Spec => []HeldAnswersLastSend
<1>1. IInv => HeldAnswersLastSend
  BY DEF IInv, AnswerInv, HeldAnswersLastSend
<1> QED
  BY <1>1, Inductive, PTL

------------------------------------------------------------------------------
\* The binding implements the reply cell.

\* Every step of the binding is a step of the cell or leaves it alone.
LEMMA CellStep ==
  ASSUME TypeOK, HeldInv, [Next]_vars
  PROVE  [Cell!Next]_<<pending, Visible>>
<1> DEFINE CellSame == pending' = pending /\ Visible' = Visible
<1>1. CASE Modify
  BY <1>1 DEF Modify, SetAuth, ResetCookies, Visible, HasData
<1>2. ASSUME NEW stage \in Stages, NEW own \in BOOLEAN, Send(stage, own)
      PROVE  Cell!Next \/ CellSame
  <2> DEFINE n == attempts + 1
  <2>1. n \in Request /\ pc = "idle" /\ pc' = "idle"
    BY <1>2, NextRequest DEF Send
  <2>2. CASE stage = sent
    <3>1. Cell!Send(n)
      BY <1>2, <2>1, <2>2, BindingAssumption
         DEF Send, Forgets, Cell!Send, Visible, Written, connecting, body, sent
    <3> QED
      BY <2>1, <3>1 DEF Cell!Next
  <2>3. CASE stage # sent
    <3>1. Cell!FailedSend(n)
      BY <1>2, <2>1, <2>3 DEF Send, Forgets, Cell!FailedSend, Visible, HasData, Written
    <3> QED
      BY <2>1, <3>1 DEF Cell!Next
  <2> QED
    BY <2>2, <2>3
<1>3. ASSUME NEW op \in Ops, CallHeld(op)
      PROVE  CellSame
  BY <1>3 DEF CallHeld, Finish, Visible, HasData
<1>4. ASSUME NEW op \in Ops, CallReads(op)
      PROVE  CellSame
  BY <1>4 DEF CallReads, Visible, HasData, Ops
<1>5. CASE ReadFails
  <2>1. Visible = None /\ Visible' = None /\ pending' \in {pending, None}
    BY <1>5 DEF ReadFails, Fail, Visible, HeldInv, HasData
  <2> QED
    BY <2>1 DEF Cell!Next, Cell!Lose
<1>6. ASSUME NEW set \in SUBSET Cookies, Continue(set)
      PROVE  CellSame
  BY <1>6 DEF Continue, Response, Visible, HasData
<1>7. ASSUME NEW set \in SUBSET Cookies, Resend(set)
      PROVE  Cell!Next
  <2>1. /\ Visible = None /\ Visible' = None /\ pending # None
        /\ pending' = callback /\ callback \in Request
    BY <1>7 DEF Resend, RemovesCallback, Answers, Visible, TypeOK
  <2>2. Cell!Redirect(callback)
    BY <2>1 DEF Cell!Redirect
  <2> QED
    BY <2>1, <2>2 DEF Cell!Next
<1>8. ASSUME NEW set \in SUBSET Cookies, NEW kind \in Kinds, NEW status \in Status,
             Response(status, kind, set), pc' = "idle", pending' \in Request \cup {None},
             pending' # None => pending' \in Request
      PROVE  Cell!Next
  <2>1. Visible = None /\ pending # None /\ data' \in Reply /\ data'.to = pending
    BY <1>8, ResponseType DEF Response, Visible
  <2>2. CASE HasData(data')
    <3>1. Visible' = data'
      BY <1>8, <2>2 DEF Visible, HasData
    <3>2. Cell!Fill(data')
      BY <1>8, <2>1, <3>1 DEF Cell!Fill
    <3> QED
      BY <2>1, <3>2 DEF Cell!Next
  <2>3. CASE ~HasData(data')
    <3>1. Visible' = None
      BY <1>8, <2>3 DEF Visible, HasData
    <3>2. CASE pending' = None
      BY <2>1, <3>1, <3>2 DEF Cell!Next, Cell!Lose
    <3>3. CASE pending' # None
      <4>1. Cell!Redirect(pending')
        BY <2>1, <3>1 DEF Cell!Redirect
      <4> QED
        BY <1>8, <3>3, <4>1 DEF Cell!Next
    <3> QED
      BY <3>2, <3>3
  <2> QED
    BY <2>2, <2>3
<1>9. ASSUME NEW set \in SUBSET Cookies, NEW kind \in Kinds, Final(kind, set)
      PROVE  Cell!Next
  <2>1. Response("ok", kind, set) /\ pc' = "idle" /\ pending' = None
    BY <1>9 DEF Final, Finish
  <2> QED
    BY <2>1, <1>8 DEF Status
<1>10. ASSUME NEW set \in SUBSET Cookies, NEW kind \in Kinds, NEW challenge \in BOOLEAN,
             Unauthorized(kind, set, challenge)
      PROVE  Cell!Next
  <2>1. Response("401", kind, set) /\ pc' = "idle" /\ pending' = None
    BY <1>10 DEF Unauthorized, Fail
  <2> QED
    BY <2>1, <1>8 DEF Status
<1>11. ASSUME NEW set \in SUBSET Cookies, NEW kind \in Kinds, NEW stage \in {headers, body},
              ResendFails(kind, set, stage)
      PROVE  Cell!Next
  <2>1. /\ Response("401", kind, set) /\ pc' = "idle"
        /\ callback \in Request /\ pending' \in {None, callback}
    BY <1>11 DEF ResendFails, Answers, Fail, Written, TypeOK
  <2> QED
    BY <2>1, <1>8 DEF Status
<1>12. ASSUME NEW set \in SUBSET Cookies, NEW kind \in Kinds, NEW status \in Status,
              CookiesFail(status, kind, set)
      PROVE  Cell!Next
  <2>1. Response(status, kind, set) /\ pc' = "idle" /\ pending' = None
    BY <1>12 DEF CookiesFail, Fail
  <2> QED
    BY <2>1, <1>8
<1>13. CASE UNCHANGED vars
  BY <1>13 DEF vars, Visible, HasData
<1> QED
  BY <1>1, <1>2, <1>3, <1>4, <1>5, <1>6, <1>7, <1>9, <1>10, <1>11, <1>12, <1>13 DEF Next, Call

\* Through the whole life of a binding, the caller sees a reply cell.
THEOREM BindingImplementsCell == Spec => ImplementsCell
<1>1. Init => Cell!Init
  BY DEF Init, Cell!Init, Visible, HasData
<1>2. IInv /\ [Next]_vars => [Cell!Next]_<<pending, Visible>>
  BY CellStep DEF IInv
<1> QED
  BY <1>1, <1>2, Inductive, PTL DEF Spec, Cell!Spec, ImplementsCell
------------------------------------------------------------------------------
\* Repeatability.

\* What the last call returned is still held, and the call would accept it
\* again; only Receive also asks the address.
ReturnedInv ==
  HasData(ret.val) =>
    /\ ret.val = data
    /\ ret.op \in Ops
    /\ ret.op # "ReceiveRaw" => Parses(data) /\ ps = data
    /\ ret.op = "ReceiveFault" => data.kind = "fault"
    /\ ret.op = "Receive" => data.kind = "soap"

\* A call that returned what is held accepts it again, and verifies nothing.
LEMMA AcceptsAgain ==
  ASSUME ReturnedInv, HasData(ret.val), NEW op, op = ret.op,
         op = "Receive" => AddressMatches(data)
  PROVE  Succeeds(op, data) /\ ~Verifies(op, data)
BY DEF ReturnedInv, Succeeds, Verifies, HasData, Ops

\* What Finish returns.
LEMMA FinishReturns ==
  ASSUME NEW op \in Ops, NEW d, Finish(op, d), HasData(ret'.val)
  PROVE  /\ ret'.val = d
         /\ ret'.op = op
         /\ op # "ReceiveRaw" => Parses(d) /\ ps' = d
         /\ op = "ReceiveFault" => d.kind = "fault"
         /\ op = "Receive" => d.kind = "soap"
<1>1. Succeeds(op, d)
  BY DEF Finish, Raised, HasData
<1>2. ret' = [op |-> op, val |-> d]
  BY <1>1 DEF Finish, Returned, Raised, HasData
<1>3. op # "ReceiveRaw" => Parses(d)
  BY <1>1 DEF Succeeds, Ops
<1>4. op # "ReceiveRaw" => ps' = d
  BY <1>3 DEF Finish
<1> QED
  BY <1>1, <1>2, <1>3, <1>4 DEF Succeeds, Ops

\* A method that raises returns nothing.
LEMMA FailReturns ==
  ASSUME NEW op, Fail(op)
  PROVE  ~HasData(ret'.val)
BY DEF Fail, Raised, HasData

\* While a method reads, nothing was returned by the call before it.
LEMMA ReadingReturnedNothing ==
  ASSUME HeldInv, ReturnedInv, pc # "idle"
  PROVE  ~HasData(ret.val)
BY DEF HeldInv, ReturnedInv

\* ReturnedInv is inductive.
LEMMA ReturnedPreserved ==
  ASSUME TypeOK, HeldInv, ReturnedInv, [Next]_vars
  PROVE  ReturnedInv'
<1>1. ASSUME UNCHANGED <<data, ps, ret>>
      PROVE  ReturnedInv'
  BY <1>1 DEF ReturnedInv, Parses, HasData
<1>2. ASSUME ~HasData(ret'.val)
      PROVE  ReturnedInv'
  BY <1>2 DEF ReturnedInv, HasData
<1>3. ASSUME NEW op \in Ops, Finish(op, data')
      PROVE  ReturnedInv'
  BY <1>3, FinishReturns DEF ReturnedInv, Parses, HasData
<1>4. CASE Modify
  BY <1>1, <1>4 DEF Modify, SetAuth, ResetCookies
<1>5. ASSUME NEW stage \in Stages, NEW own \in BOOLEAN, Send(stage, own)
      PROVE  ReturnedInv'
  BY <1>1, <1>2, <1>5 DEF Send, Forgets, NoCall, HasData
<1>6. ASSUME NEW op \in Ops, CallHeld(op) \/ CallReads(op)
      PROVE  ReturnedInv'
  <2>1. CASE CallHeld(op)
    <3>1. data' = data /\ Finish(op, data)
      BY <2>1 DEF CallHeld
    <3> QED
      BY <1>3, <3>1
  <2>2. CASE CallReads(op)
    BY <1>1, <2>2 DEF CallReads
  <2> QED
    BY <1>6, <2>1, <2>2
<1>7. CASE ReadFails
  BY <1>2, <1>7, FailReturns DEF ReadFails
<1>8. ASSUME NEW set \in SUBSET Cookies, Continue(set) \/ Resend(set)
      PROVE  ReturnedInv'
  <2>1. pc # "idle" /\ ret' = ret
    BY <1>8 DEF Continue, Response, Resend
  <2> QED
    BY <1>2, <2>1, ReadingReturnedNothing
<1>9. ASSUME NEW set \in SUBSET Cookies, NEW kind \in Kinds, Final(kind, set)
      PROVE  ReturnedInv'
  <2>1. pc \in Ops /\ Finish(pc, data')
    BY <1>9 DEF Final, Response, TypeOK
  <2> QED
    BY <1>3, <2>1
<1>10. ASSUME NEW set \in SUBSET Cookies, NEW kind \in Kinds,
              \/ \E challenge \in BOOLEAN : Unauthorized(kind, set, challenge)
              \/ \E stage \in {headers, body} : ResendFails(kind, set, stage)
              \/ \E status \in Status : CookiesFail(status, kind, set)
       PROVE  ReturnedInv'
  BY <1>2, <1>10, FailReturns DEF Unauthorized, ResendFails, CookiesFail
<1>11. CASE UNCHANGED vars
  BY <1>1, <1>11 DEF vars
<1> QED
  BY <1>4, <1>5, <1>6, <1>7, <1>8, <1>9, <1>10, <1>11 DEF Next, Call

\* No step makes the same method return anything else.
LEMMA RepeatStep ==
  ASSUME TypeOK, HeldInv, ReturnedInv, [Next]_vars,
         ret'.op = ret.op, HasData(ret.val),
         ret.op = "Receive" => AddressMatches(ret.val)
  PROVE  ret' = ret
<1>1. pc = "idle" /\ ret.val = data /\ ret.op \in Ops
  BY ReadingReturnedNothing DEF ReturnedInv
<1>2. CASE Modify
  BY <1>2 DEF Modify, SetAuth, ResetCookies
<1>3. ASSUME NEW stage \in Stages, NEW own \in BOOLEAN, Send(stage, own)
      PROVE  ret' = ret
  BY <1>1, <1>3 DEF Send, Forgets, NoCall, Ops
<1>4. ASSUME NEW op \in Ops, CallHeld(op)
      PROVE  ret' = ret
  <2>1. op = ret.op
    BY <1>4 DEF CallHeld, Finish, Returned, Raised
  <2>2. Succeeds(op, data) /\ ~Verifies(op, data)
    BY <1>1, <2>1, AcceptsAgain
  <2>3. ret' = [op |-> op, val |-> data]
    BY <1>4, <2>2 DEF CallHeld, Finish, Returned
  <2> QED
    BY <1>1, <2>1, <2>3 DEF TypeOK
<1>5. ASSUME NEW op \in Ops, CallReads(op)
      PROVE  ret' = ret
  BY <1>5 DEF CallReads
<1>6. ~ReadFails
  BY <1>1 DEF ReadFails
<1>7. ASSUME NEW set \in SUBSET Cookies
      PROVE  ~Continue(set) /\ ~Resend(set)
  BY <1>1 DEF Continue, Resend, Response
<1>8. ASSUME NEW set \in SUBSET Cookies, NEW kind \in Kinds
      PROVE  /\ ~Final(kind, set)
             /\ \A challenge \in BOOLEAN : ~Unauthorized(kind, set, challenge)
             /\ \A stage \in {headers, body} : ~ResendFails(kind, set, stage)
             /\ \A status \in Status : ~CookiesFail(status, kind, set)
  BY <1>1 DEF Final, Unauthorized, ResendFails, CookiesFail, Response
<1>9. CASE UNCHANGED vars
  BY <1>9 DEF vars
<1> QED
  BY <1>2, <1>3, <1>4, <1>5, <1>6, <1>7, <1>8, <1>9 DEF Next, Call

\* A Receive method that returned a body returns it again until the next
\* Send succeeds, whatever the Sends, challenges and reads in between did.
THEOREM ReceiveRepeats == Spec => RepeatsReply
<1>1. Init => ReturnedInv
  BY DEF Init, NoCall, ReturnedInv, HasData
<1>2. IInv /\ ReturnedInv /\ [Next]_vars => ReturnedInv'
  BY ReturnedPreserved DEF IInv
<1>3. IInv /\ ReturnedInv /\ [Next]_vars =>
        [/\ ret'.op = ret.op
         /\ HasData(ret.val)
         /\ ret.op = "Receive" => AddressMatches(ret.val)
         => ret' = ret]_vars
  BY RepeatStep DEF IInv
<1> QED
  BY <1>1, <1>2, <1>3, Inductive, PTL DEF Spec, RepeatsReply
==============================================================================
