-------------------------- MODULE MCServiceContainer --------------------------
(* Instance of ServiceContainer for TLC: two handlers on two identities, a   *)
(* plain service and a WSAResource, two urls of one path, and one POST for   *)
(* each way _Dispatch treats an address and an action.                       *)
EXTENDS ServiceContainer

CONSTANTS t1, t2, plain, resource, stranger, a, b, here, hereQuery, p

MCThreads   == {t1, t2}
MCUrls      == {here, hereQuery}
MCPaths     == {p}
MCPathOf    == [u \in MCUrls |-> p]
MCServices  == {plain, resource}
MCResources == {resource}
MCForeign   == {stranger}
MCActions   == {a, b}
MCSoapAction == [s \in MCServices |-> {a}]

Posted(post, action, wsa, rooted) ==
  [post |-> post, action |-> action, wsa |-> wsa, rooted |-> rooted]
MCRequests ==
  {Posted(here, a, a, FALSE),           \* SOAPAction and WS-Action agree
   Posted(hereQuery, a, b, TRUE),       \* they differ
   Posted(here, None, b, FALSE)}       \* no SOAPAction, an unknown operation

MCSymmetry == {[x \in MCThreads |-> x],
               [x \in MCThreads |-> IF x = t1 THEN t2 ELSE t1]}
==============================================================================
