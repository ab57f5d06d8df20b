---------------------------- MODULE TimeoutSocket ----------------------------
(***************************************************************************)
(* The socket with timeouts that the HTTP transports of ZSI may run on     *)
(* (ZSI/wstools/TimeoutSocket.py), connected and used by one thread.       *)
(*                                                                         *)
(* It is its own file object.  The read methods share _rbuf, where they    *)
(* leave what they received too much.  Each waits in select for every      *)
(* piece, and raises TimeoutError when a wait lasts too long; what it had  *)
(* collected by then is in its locals and goes with them.                  *)
(*                                                                         *)
(* The peer and the kernel are the environment: bytes arrive in pieces of  *)
(* any size until the peer closes, and the kernel accepts writes likewise. *)
(***************************************************************************)
EXTENDS Integers, Sequences

(* A definition Mut... is the one that follows it with a fault seeded in; no *)
(* specification uses it, a property is checked to reject it.                *)

CONSTANTS
  Length,    \* bound: bytes the peer sends, numbered in order
  Newlines,  \* those that are line feeds
  BuffSize,  \* bytes asked of the real socket at least (4096)
  Amounts,   \* arguments of read, where one is given
  Limits,    \* limits of readline; -1 is none
  Hints,     \* size hints of readlines; 0 is none
  Payloads,  \* lengths of what is sent
  ChunkSize  \* bytes offered to the real socket at most (8192)

ASSUME SocketAssumption ==
  /\ Length \in Nat
  /\ Newlines \subseteq 1..Length
  /\ BuffSize \in Nat \ {0} /\ ChunkSize \in Nat \ {0}
  /\ Amounts \subseteq Nat /\ Hints \subseteq Nat /\ Payloads \subseteq Nat
  /\ Limits \subseteq Nat \cup {-1}

Bytes == Seq(1..Length)
Lines == {"readline", "readlines"}
Calls == {"idle", "read", "readall", "send"} \cup Lines

VARIABLES
  arrived,  \* bytes that have reached this end
  ended,    \* the peer has closed its side
  taken,    \* bytes the real socket has given to recv
  rbuf,     \* _rbuf
  call,     \* the method that runs: its argument, what it still has to read
            \* or send, and what it holds in its locals
  out,      \* everything the read methods returned, in order
  lost,     \* bytes that went with the locals of a method that raised
  ret       \* how the last method ended, while none runs

vars == <<arrived, ended, taken, rbuf, call, out, lost, ret>>

Idle    == [op |-> "idle", arg |-> 0, todo |-> 0, held |-> <<>>]
Nothing == [op |-> "idle", raised |-> FALSE, arg |-> 0, bytes |-> <<>>]

Init ==
  /\ arrived = 0 /\ ended = FALSE /\ taken = 0
  /\ rbuf = <<>> /\ call = Idle
  /\ out = <<>> /\ lost = {} /\ ret = Nothing

Arrive == ~ended /\ arrived < Length /\ arrived' = arrived + 1
          /\ UNCHANGED <<ended, taken, rbuf, call, out, lost, ret>>

PeerCloses == ~ended /\ ended' = TRUE
              /\ UNCHANGED <<arrived, taken, rbuf, call, out, lost, ret>>

------------------------------------------------------------------------------
Elements(s) == {s[i] : i \in 1..Len(s)}
Larger(m, n) == IF m > n THEN m ELSE n
Smaller(m, n) == IF m < n THEN m ELSE n

\* The first n elements of a sequence, and the others.
Take(s, n) == SubSeq(s, 1, n)
Drop(s, n) == SubSeq(s, n + 1, Len(s))

\* A method begins, goes on, or returns.
Begins(op, a, left, collected) ==
  /\ call' = [op |-> op, arg |-> a, todo |-> left, held |-> collected]
  /\ ret' = Nothing
  /\ UNCHANGED <<arrived, ended, taken, out, lost>>

Continues(left, collected) ==
  /\ call' = [call EXCEPT !.todo = left, !.held = collected]
  /\ UNCHANGED <<arrived, ended, out, lost, ret>>

Returns(op, a, bytes) ==
  /\ call' = Idle
  /\ ret' = [op |-> op, raised |-> FALSE, arg |-> a, bytes |-> bytes]
  /\ out' = out \o bytes
  /\ UNCHANGED <<arrived, ended, lost>>

\* recv(amt): a piece of what has arrived, of a size the kernel chooses.
Piece(amt) == {[i \in 1..k |-> taken + i] : k \in 1..Smaller(amt, arrived - taken)}

\* recv returns nothing: the peer has closed and everything was received.
AtEnd == ended /\ taken = arrived

------------------------------------------------------------------------------
\* read(n) and read().

Read(n) ==
  /\ call.op = "idle"
  /\ IF n <= Len(rbuf)
     THEN Returns("read", n, Take(rbuf, n)) /\ rbuf' = Drop(rbuf, n) /\ UNCHANGED taken
     ELSE Begins("read", n, n - Len(rbuf), rbuf) /\ rbuf' = <<>>

ReadAll ==
  /\ call.op = "idle"
  /\ Begins("readall", 0, 0, rbuf)
  /\ rbuf' = <<>>

\* A piece of k bytes completes the read; what is beyond it stays in _rbuf.
MutEnoughAny(k) == TRUE
Enough(k) == k >= call.todo

MutRest(new) == <<>>
Rest(new) == Drop(new, call.todo)

ReadMore ==
  /\ call.op = "read"
  /\ \E new \in Piece(Larger(call.todo, BuffSize)) :
       LET k == Len(new) IN
       /\ taken' = taken + k
       /\ IF Enough(k)
          THEN /\ Returns("read", call.arg, call.held \o Take(new, Smaller(call.todo, k)))
               /\ rbuf' = Rest(new)
          ELSE Continues(call.todo - k, call.held \o new) /\ UNCHANGED rbuf

ReadAllMore ==
  /\ call.op = "readall"
  /\ \E new \in Piece(Length) :
       taken' = taken + Len(new) /\ Continues(0, call.held \o new)
  /\ UNCHANGED rbuf

\* Both end with what there is when the peer has closed.
ReadEnds ==
  /\ call.op \in {"read", "readall"}
  /\ AtEnd
  /\ Returns(call.op, call.arg, call.held)
  /\ UNCHANGED <<taken, rbuf>>

------------------------------------------------------------------------------
\* readline and readlines.

HasNewline(s) == \E i \in 1..Len(s) : s[i] \in Newlines

\* readline asks for no more: a line feed or the limit is in the buffer.
HasLine(limit) == HasNewline(rbuf) \/ (0 < limit /\ limit <= Len(rbuf))

\* How much of the buffer it returns.  A limit below the length of the buffer
\* is returned even if the line ends before it.
LineLength(limit) ==
  IF 0 <= limit /\ limit < Len(rbuf) THEN limit
  ELSE IF HasNewline(rbuf)
       THEN CHOOSE i \in 1..Len(rbuf) :
              rbuf[i] \in Newlines /\ \A j \in 1..(i - 1) : rbuf[j] \notin Newlines
       ELSE Len(rbuf)

ReadLine(limit) ==
  /\ call.op = "idle"
  /\ Begins("readline", limit, 0, <<>>)
  /\ UNCHANGED rbuf

ReadLines(hint) ==
  /\ call.op = "idle"
  /\ Begins("readlines", hint, 0, <<>>)
  /\ UNCHANGED rbuf

\* The limit of the readline that runs, in readlines without one.
Limit == IF call.op = "readline" THEN call.arg ELSE -1
NeedsMore == call.op \in Lines /\ ~HasLine(Limit)

MutCollects(new) == rbuf' = <<>> /\ Continues(0, call.held \o rbuf \o new)
Collects(new) == rbuf' = rbuf \o new /\ Continues(0, call.held)

LineMore ==
  /\ NeedsMore
  /\ \E new \in Piece(BuffSize) : taken' = taken + Len(new) /\ Collects(new)

\* The line is there, or the peer has closed and the rest is the line.
LineEnds ==
  /\ call.op \in Lines
  /\ ~NeedsMore \/ AtEnd
  /\ LET n   == LineLength(Limit)
         all == call.held \o Take(rbuf, n)
     IN /\ rbuf' = Drop(rbuf, n)
        /\ IF call.op = "readline" \/ n = 0 \/ (call.arg # 0 /\ Len(all) >= call.arg)
           THEN Returns(call.op, call.arg, all)
           ELSE Continues(0, all)
  /\ UNCHANGED taken

------------------------------------------------------------------------------
\* send, which write and writelines call.

Send(total) ==
  /\ call.op = "idle"
  /\ Begins("send", total, total, <<>>)
  /\ UNCHANGED rbuf

\* The kernel accepts k bytes of the next chunk; of an empty payload, none.
SendMore(k) ==
  /\ call.op = "send"
  /\ k <= Smaller(call.todo, ChunkSize)
  /\ call.todo > 0 => k > 0
  /\ IF k = call.todo
     THEN Returns("send", call.arg, <<>>)
     ELSE Continues(call.todo - k, <<>>)
  /\ UNCHANGED <<taken, rbuf>>

------------------------------------------------------------------------------
\* select finds nothing to read; it may always find no room to write.
MutWaits ==
  /\ call.op \in Lines => NeedsMore
  /\ call.op # "readline"
  /\ call.op # "send" => taken = arrived /\ ~ended
Waits ==
  /\ call.op \in Lines => NeedsMore
  /\ call.op # "send" => taken = arrived /\ ~ended

\* A wait of the running method is over: TimeoutError, out of the method.
Expires ==
  /\ call.op # "idle"
  /\ Waits
  /\ call' = Idle
  /\ ret' = [op |-> call.op, raised |-> TRUE, arg |-> call.arg, bytes |-> <<>>]
  /\ lost' = lost \cup Elements(call.held)
  /\ UNCHANGED <<arrived, ended, taken, rbuf, out>>

Starts ==
  \/ \E n \in Amounts : Read(n)
  \/ ReadAll
  \/ \E limit \in Limits : ReadLine(limit)
  \/ \E hint \in Hints : ReadLines(hint)
  \/ \E total \in Payloads : Send(total)

\* The steps of a running method.
Runs ==
  \/ ReadMore \/ ReadAllMore \/ ReadEnds
  \/ LineMore \/ LineEnds
  \/ \E k \in 0..ChunkSize : SendMore(k)
  \/ Expires

Next == Arrive \/ PeerCloses \/ Starts \/ Runs

\* select returns after the timeout at the latest, so a method that runs goes on.
Spec == Init /\ [][Next]_vars /\ WF_vars(Runs)

------------------------------------------------------------------------------
TypeOK ==
  /\ arrived \in 0..Length /\ taken \in 0..arrived /\ ended \in BOOLEAN
  /\ rbuf \in Bytes /\ out \in Bytes /\ lost \subseteq 1..Length
  /\ call \in [op : Calls, arg : Int, todo : Nat, held : Bytes]
  /\ ret \in [op : Calls, raised : BOOLEAN, arg : Int, bytes : Bytes]

\* The bytes at this end, in the order a caller meets them.
Stream == out \o call.held \o rbuf

\* No byte is returned twice or out of order, and every byte received is
\* returned, still held, or was held by a method that raised: the buffer that
\* read and readline share is taken, refilled and cut without a slip.
Accounted ==
  /\ \A i, j \in 1..Len(Stream) : i < j => Stream[i] < Stream[j]
  /\ Elements(Stream) \cup lost = 1..taken

\* A readline that times out loses nothing: it can be called again.
LineKeptOnTimeout == [][call.op = "readline" => lost' = lost]_vars

\* A read(n) that returns fewer bytes, or a readline that returns a line
\* without its end, has met the end of the stream; a limit is an upper bound.
WholeOrEnd ==
  ~ret.raised =>
    /\ ret.op = "read" => Len(ret.bytes) = ret.arg \/ (AtEnd /\ rbuf = <<>>)
    /\ ret.op = "readline" /\ ret.arg = -1 =>
         \/ AtEnd
         \/ /\ HasNewline(ret.bytes)
            /\ ~HasNewline(Take(ret.bytes, Len(ret.bytes) - 1))
    /\ ret.op = "readline" /\ ret.arg >= 0 => Len(ret.bytes) <= ret.arg

\* Every call ends: no loop of the read methods or of send runs for ever, even
\* against a peer that stalls.
CallEnds == (call.op # "idle") ~> (call.op = "idle")
==============================================================================
