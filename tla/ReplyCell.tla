------------------------------ MODULE ReplyCell ------------------------------
(***************************************************************************)
(* What a client binding promises to its caller, apart from HTTP: a cell   *)
(* that holds at most one reply.  A successful Send empties the cell, the  *)
(* first reply to the request that is out fills it, and a filled cell is   *)
(* never overwritten: only the next successful Send empties it again.      *)
(* A Send that fails part way leaves the cell alone, whatever it did to    *)
(* the connection.                                                         *)
(***************************************************************************)
EXTENDS Naturals

CONSTANTS Requests,  \* the requests of a caller
          Replies,   \* records with a field "to", the request they answer
          None       \* no request, no reply

VARIABLES out,       \* the request on the connection, or None
          cell       \* the reply held for the caller, or None

Init == out = None /\ cell = None

\* Request r is out, and nothing that answers another request is held.
Send(r) == out' = r /\ cell' = None

\* Send raised: the connection may be gone or may carry part of r.
FailedSend(r) == out' \in {out, None, r} /\ UNCHANGED cell

\* A reply to the request that is out is held for the caller.  An answer to
\* a challenge that failed half way may have left another request out.
Fill(d) ==
  /\ cell = None
  /\ d.to = out
  /\ cell' = d
  /\ out' \in Requests \cup {None}

\* The connection fails; the reply held, if any, stays.
Lose == out' = None /\ UNCHANGED cell

\* Another request takes the place of the one that is out, before any
\* reply was handed over (an authorization challenge was answered).
Redirect(r) ==
  /\ cell = None
  /\ out # None
  /\ out' = r
  /\ UNCHANGED cell

Next ==
  \/ \E r \in Requests : Send(r) \/ FailedSend(r) \/ Redirect(r)
  \/ \E d \in Replies : Fill(d)
  \/ Lose

Spec == Init /\ [][Next]_<<out, cell>>
==============================================================================
