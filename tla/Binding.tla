------------------------------- MODULE Binding -------------------------------
(***************************************************************************)
(* The client side of ZSI: one ZSI.client._Binding used by one caller.     *)
(*                                                                         *)
(* A binding is a connection object and a little state around it: the raw  *)
(* body of the last reply (data), its parsed form (ps), the WS-Address of  *)
(* the last Send (address), the cookies, the authorization style and one   *)
(* callback per HTTP status, of which 401 is the only one ever installed.  *)
(* Send may raise at any of its stages, and each stage has already changed *)
(* some of that state.  The Receive methods share one loop that reads      *)
(* responses until one is final, answering a digest challenge on the way.  *)
(*                                                                         *)
(* The transport (an http.client.HTTPConnection subclass) and the server   *)
(* are the environment: a response, a timeout or a lost connection is a    *)
(* choice made where the code calls getresponse.                           *)
(***************************************************************************)
EXTENDS Naturals, Sequences

(* A definition Mut... is the one that follows it with a fault seeded in; no *)
(* specification uses it, a property is checked to reject it.                *)

CONSTANTS
  MaxSend,         \* bound: calls of Send
  MaxWire,         \* bound: requests written, resends included
  Styles,          \* the authorization styles a caller sets, sets of AUTH flags
  Cookies,         \* cookies a server may set
  UsesAddressing,  \* wsAddressURI is given
  TextAsBytes,     \* md5 and base64 accept str; FALSE on Python 3
  None             \* Python's None

ASSUME BindingAssumption ==
  /\ MaxSend \in Nat
  /\ MaxWire \in Nat
  /\ Styles \subseteq SUBSET {"httpbasic", "zsibasic", "httpdigest"}
  /\ UsesAddressing \in BOOLEAN
  /\ TextAsBytes \in BOOLEAN
  /\ None \notin Nat
  /\ None \notin [to : Nat, status : STRING, kind : STRING]

\* A request is named by the number of the Send call that made it; with
\* addressing this is also its MessageID.
Request == 1..MaxSend

\* The stages of Send, in the order of the code; an exception is raised in
\* one of them, or none is and the request is sent.
serializing == 0   \* SoapWriter, auth element, WS-Action comparison
addressed   == 1   \* signing, url and transport checks, after self.address
connecting  == 2   \* self.h is the new connection, connect() raises
headers     == 3   \* putrequest, putheader, the httpbasic header
body        == 4   \* endheaders or send, after the digest callback
sent        == 5
Stages == serializing..sent

Kinds   == {"empty", "soap", "fault", "other"}
Status  == {"ok", "100", "401"}
Reply   == [to : Request, status : Status, kind : Kinds]
Entry   == [req : Request, conn : 0..MaxSend, resend : BOOLEAN, whole : BOOLEAN,
            jar : SUBSET Cookies]
\* IsSOAP reads as ReceiveRaw does, IsAFault as ReceiveSOAP does.
Ops     == {"ReceiveRaw", "ReceiveSOAP", "ReceiveFault", "Receive"}

VARIABLES
  style,     \* self.auth_style
  jar,       \* self.cookies
  attempts,  \* calls of Send so far
  conn,      \* the Send that made self.h, 0 before the first
  pending,   \* the request self.h has to answer, or None
  wire,      \* the requests written, in order; whole: headers and body
  callback,  \* http_callbacks[401]: the request its closure holds, or None
  address,   \* self.address._messageID, or None
  data, ps,  \* self.data and self.ps: the reply they come from, or None
  pc,        \* "idle", or the Receive method that is reading
  ret        \* what the last call of a Receive method did

vars == <<style, jar, attempts, conn, pending, wire, callback, address,
          data, ps, pc, ret>>

NoCall == [op |-> "none", val |-> None]
Returned(op, d) == [op |-> op, val |-> d]
Raised(op) == [op |-> op, val |-> None]

\* Python's truth of self.data: b'' is false.
HasData(d) == d # None /\ d.kind # "empty"
Parses(d) == HasData(d) /\ d.kind \in {"soap", "fault"}

Init ==
  /\ style \in Styles
  /\ jar = {}
  /\ attempts = 0
  /\ conn = 0
  /\ pending = None
  /\ wire = <<>>
  /\ callback = None
  /\ address = None
  /\ data = None
  /\ ps = None
  /\ pc = "idle"
  /\ ret = NoCall

------------------------------------------------------------------------------
\* Modifiers, used between calls.

SetAuth(s) ==
  /\ pc = "idle"
  /\ style' = s
  /\ UNCHANGED <<jar, attempts, conn, pending, wire, callback, address, data, ps, pc, ret>>

ResetCookies ==
  /\ pc = "idle"
  /\ jar' = {}
  /\ UNCHANGED <<style, attempts, conn, pending, wire, callback, address, data, ps, pc, ret>>

------------------------------------------------------------------------------
\* Send and SendSOAPData.

\* The httpbasic header is base64 of a str.
BasicFails == "httpbasic" \in style /\ ~TextAsBytes

\* SendSOAPData installs the callback for its own request unless the caller
\* passed an Authorization or Expect header.
InstallsCallback(own) == style = {"httpdigest"} /\ ~own

\* What a request leaves on the connection when it stops at a stage: from
\* endheaders on the server has the headers and may answer.
MutWrittenBefore(stage, r) == IF stage >= body THEN r - 1 ELSE None
Written(stage, r) == IF stage >= body THEN r ELSE None

\* SendSOAPData writes request r on connection c, up to a stage.
Write(r, c, resend, stage, cookies) ==
  wire' = IF stage >= body
          THEN Append(wire, [req |-> r, conn |-> c, resend |-> resend,
                             whole |-> stage = sent, jar |-> cookies])
          ELSE wire

\* What was held is dropped by the last statement of a Send, not before.
MutNeverForgets(stage) == UNCHANGED <<data, ps, ret>>
MutForgetsFirst(stage) == data' = None /\ ps' = None /\ UNCHANGED ret
Forgets(stage) ==
  IF stage = sent
  THEN data' = None /\ ps' = None /\ ret' = NoCall
  ELSE UNCHANGED <<data, ps, ret>>

Send(stage, own) ==
  LET n == attempts + 1 IN
  /\ pc = "idle"
  /\ n <= MaxSend
  /\ BasicFails => stage <= headers
  /\ attempts' = n
  /\ address' = IF UsesAddressing /\ stage >= addressed THEN n ELSE address
  /\ conn' = IF stage >= connecting THEN n ELSE conn
  /\ pending' = IF stage >= connecting THEN Written(stage, n) ELSE pending
  /\ callback' = IF stage >= body /\ InstallsCallback(own) THEN n ELSE callback
  /\ Write(n, n, FALSE, stage, jar)
  /\ Forgets(stage)
  /\ UNCHANGED <<style, jar, pc>>

------------------------------------------------------------------------------
\* The Receive methods.

\* address.checkResponse compares RelatesTo with the MessageID of the last
\* Send that got as far as making one.
AddressMatches(d) == address = None \/ address = d.to

Succeeds(op, d) ==
  CASE op = "ReceiveRaw"   -> TRUE
    [] op = "ReceiveSOAP"  -> Parses(d)
    [] op = "ReceiveFault" -> Parses(d) /\ d.kind = "fault"
    [] op = "Receive"      -> Parses(d) /\ d.kind = "soap" /\ AddressMatches(d)

\* ReceiveSOAP parses d and only then asks sig_handler.verify, which may
\* raise: the parsed form is kept, and the next call returns it unasked.
Verifies(op, d) == op # "ReceiveRaw" /\ ps = None /\ Parses(d)

\* The part of a method after ReceiveRaw returned d.
Finish(op, d) ==
  /\ pc' = "idle"
  /\ \/ Succeeds(op, d) /\ ret' = Returned(op, d)
     \/ ~Succeeds(op, d) /\ ret' = Raised(op)
     \/ Verifies(op, d) /\ ret' = Raised(op)
  /\ ps' = IF op # "ReceiveRaw" /\ Parses(d) THEN d ELSE ps

\* A method raises out of ReceiveRaw.
Fail(op) == pc' = "idle" /\ ret' = Raised(op) /\ UNCHANGED ps

\* A body is held already: no response is read.
CallHeld(op) ==
  /\ pc = "idle"
  /\ HasData(data)
  /\ Finish(op, data)
  /\ UNCHANGED <<style, jar, attempts, conn, pending, wire, callback, address, data>>

\* Nothing is held: the loop of ReceiveRaw begins.
MutReadsAgain(op) ==
  /\ pc = "idle"
  /\ pc' = op
  /\ UNCHANGED <<style, jar, attempts, conn, pending, wire, callback, address, data, ps, ret>>
CallReads(op) ==
  /\ pc = "idle"
  /\ ~HasData(data)
  /\ pc' = op
  /\ UNCHANGED <<style, jar, attempts, conn, pending, wire, callback, address, data, ps, ret>>

\* getresponse or read raises: nothing was asked, the connection is lost, or
\* a timeout, after which the answer may still come.
ReadFails ==
  /\ pc # "idle"
  /\ pending' \in {pending, None}
  /\ Fail(pc)
  /\ UNCHANGED <<style, jar, attempts, conn, wire, callback, address, data>>

\* A response to the pending request, with the cookies it sets.
Response(status, kind, set) ==
  /\ pc # "idle"
  /\ pending # None
  /\ data' = [to |-> pending, status |-> status, kind |-> kind]
  /\ jar' = jar \cup set

Continue(set) ==
  /\ Response("100", "empty", set)
  /\ UNCHANGED <<style, attempts, conn, pending, wire, callback, address, ps, pc, ret>>

Final(kind, set) ==
  /\ Response("ok", kind, set)
  /\ pending' = None
  /\ Finish(pc, data')
  /\ UNCHANGED <<style, attempts, conn, wire, callback, address>>

\* A cookie of the response does not load: what was read is held, as after
\* any other exception, and nothing more can be read of the connection.
CookiesFail(status, kind, set) ==
  /\ status = "100" => kind = "empty"
  /\ Response(status, kind, set)
  /\ pending' = None
  /\ Fail(pc)
  /\ UNCHANGED <<style, attempts, conn, wire, callback, address>>

\* The callback can answer: the style is still digest, the challenge is a
\* complete digest challenge, and H accepts the text it hashes.
Answers(challenge) ==
  /\ callback # None
  /\ style = {"httpdigest"}
  /\ challenge
  /\ TextAsBytes

\* 401 without a callback, or the callback raises before it resends.
Unauthorized(kind, set, challenge) ==
  /\ ~Answers(challenge)
  /\ Response("401", kind, set)
  /\ pending' = None
  /\ Fail(pc)
  /\ UNCHANGED <<style, attempts, conn, wire, callback, address>>

\* The callback removes itself once its resend is through.
MutKeepsCallback == UNCHANGED callback
RemovesCallback == callback' = None

\* 401 and the callback resends the request its closure holds.
Resend(set) ==
  /\ Answers(TRUE)
  /\ Len(wire) < MaxWire
  /\ pc # "idle"
  /\ pending # None
  /\ jar' = jar \cup set
  /\ Write(callback, conn, TRUE, sent, jar')
  /\ pending' = callback
  /\ data' = None
  /\ ps' = None
  /\ RemovesCallback
  /\ UNCHANGED <<style, attempts, conn, address, pc, ret>>

\* The resend raises part way: the callback stays installed.
ResendFails(kind, set, stage) ==
  /\ Answers(TRUE)
  /\ Len(wire) < MaxWire
  /\ stage \in {headers, body}
  /\ Response("401", kind, set)
  /\ pending' = Written(stage, callback)
  /\ Write(callback, conn, TRUE, stage, jar')
  /\ Fail(pc)
  /\ UNCHANGED <<style, attempts, conn, callback, address>>

------------------------------------------------------------------------------
Modify == ResetCookies \/ \E s \in Styles : SetAuth(s)

Call == \E op \in Ops : CallHeld(op) \/ CallReads(op)

Next ==
  \/ Modify
  \/ \E stage \in Stages, own \in BOOLEAN : Send(stage, own)
  \/ Call
  \/ ReadFails
  \/ \E set \in SUBSET Cookies :
       \/ Continue(set)
       \/ Resend(set)
       \/ \E kind \in Kinds :
            \/ Final(kind, set)
            \/ \E status \in Status : CookiesFail(status, kind, set)
            \/ \E challenge \in BOOLEAN : Unauthorized(kind, set, challenge)
            \/ \E stage \in {headers, body} : ResendFails(kind, set, stage)

Spec == Init /\ [][Next]_vars

------------------------------------------------------------------------------
TypeOK ==
  /\ style \in Styles
  /\ jar \in SUBSET Cookies
  /\ attempts \in 0..MaxSend
  /\ conn \in 0..MaxSend
  /\ pending \in Request \cup {None}
  /\ wire \in Seq(Entry)
  /\ callback \in Request \cup {None}
  /\ address \in Request \cup {None}
  /\ data \in Reply \cup {None}
  /\ ps \in Reply \cup {None}
  /\ pc \in Ops \cup {"idle"}
  /\ ret \in [op : Ops \cup {"none"}, val : Reply \cup {None}]

\* The parsed message is always the parse of the body that is held: no
\* sequence of failed Sends, challenges and rereads leaves the DOM of one
\* reply beside the bytes of another (ps and data are cleared together and
\* ps is only made from data).
ParsedIsHeld == ps # None => ps = data

\* A challenge is answered at most once per Send: the callback removes
\* itself, so a server that keeps answering 401 cannot make the client
\* write the same request a third time.
AtMostOneResend ==
  \A i, j \in 1..Len(wire) :
    /\ wire[i].resend /\ wire[i].whole
    /\ wire[j].resend /\ wire[j].whole
    /\ wire[i].req = wire[j].req
    => i = j

\* The request of Send n was written completely by that Send.
Completed(n) ==
  \E i \in 1..Len(wire) : wire[i].req = n /\ ~wire[i].resend /\ wire[i].whole

\* Request n was written again on the connection that is open now.
ResentHere(n) ==
  \E i \in 1..Len(wire) : wire[i].resend /\ wire[i].req = n /\ wire[i].conn = conn

\* After a Send that succeeded, what the Receive methods hold answers that
\* Send and no earlier one; the only exception is a request that a digest
\* callback left behind by an earlier Send wrote again on this connection.
HeldAnswersLastSend ==
  data # None /\ conn # 0 /\ Completed(conn) =>
    data.to = conn \/ ResentHere(data.to)
\* The documented repeatability of the Receive methods, in the form the code
\* keeps: a method that returned a reply with a body returns that reply
\* again, whatever failed in between, unless Receive compares it with the
\* MessageID of a Send that failed later.
RepeatsReply ==
  [][/\ ret'.op = ret.op
     /\ HasData(ret.val)
     /\ ret.op = "Receive" => AddressMatches(ret.val)
     => ret' = ret]_vars

\* The reply the caller can see: nothing while a method is still reading.
Visible == IF pc = "idle" /\ HasData(data) THEN data ELSE None
Cell == INSTANCE ReplyCell WITH
          Requests <- Request, Replies <- Reply, out <- pending, cell <- Visible
\* The binding implements the reply cell.
ImplementsCell == Cell!Spec
==============================================================================
