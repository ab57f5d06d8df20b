------------------------ MODULE TimeoutSocketProofs ------------------------
(***************************************************************************)
(* Theorems about TimeoutSocket, for any stream, any line ends, buffer     *)
(* sizes and arguments.  What makes them inductive is what the locals of   *)
(* the method that runs hold (Locals): a method that collects in its       *)
(* locals has emptied _rbuf, and a readline collects nothing there.        *)
(***************************************************************************)
EXTENDS TimeoutSocket, SequenceTheorems, WellFoundedInduction, TLAPS

\* What is in the locals of the running method, and that only an idle socket
\* has the result of a method.
Locals ==
  /\ call.op = "idle" => call = Idle
  /\ call.op # "idle" => ret = Nothing
  /\ call.op = "read" =>
       rbuf = <<>> /\ call.todo > 0 /\ call.todo = call.arg - Len(call.held)
  /\ call.op = "readall" => rbuf = <<>>
  /\ call.op \in {"readline", "send"} => call.held = <<>>

IInv == TypeOK /\ Locals /\ Accounted /\ WholeOrEnd

------------------------------------------------------------------------------
\* Sequences.

\* A sequence is cut into its first n elements and the others.
LEMMA Cut ==
  ASSUME NEW s \in Bytes, NEW n \in 0..Len(s)
  PROVE  /\ Take(s, n) \in Bytes /\ Len(Take(s, n)) = n
         /\ \A i \in 1..n : Take(s, n)[i] = s[i]
         /\ Drop(s, n) \in Bytes /\ Len(Drop(s, n)) = Len(s) - n
         /\ Take(s, n) \o Drop(s, n) = s
<1>1. n \in Int /\ n \in Nat /\ Len(s) \in Nat /\ n <= Len(s) /\ s \in Seq(1..Length)
  BY LenProperties DEF Bytes
<1>2. \A i \in 1..Len(s) : s[i] \in 1..Length
  BY <1>1, ElementOfSeq
<1>3. Take(s, n) \in Bytes /\ Len(Take(s, n)) = n /\ \A i \in 1..n : Take(s, n)[i] = s[i]
  <2>1. \A i \in 1..n : s[i] \in 1..Length
    BY <1>1, <1>2
  <2>2. /\ SubSeq(s, 1, n) \in Seq(1..Length)
        /\ Len(SubSeq(s, 1, n)) = IF 1 <= n THEN n - 1 + 1 ELSE 0
        /\ \A i \in 1..(n - 1 + 1) : SubSeq(s, 1, n)[i] = s[1 + i - 1]
    BY <1>1, <2>1, SubSeqProperties
  <2>. QED BY <1>1, <2>2 DEF Take, Bytes
<1>4. Drop(s, n) \in Bytes /\ Len(Drop(s, n)) = Len(s) - n
  <2>1. \A i \in (n + 1)..Len(s) : s[i] \in 1..Length
    BY <1>1, <1>2
  <2>2. n + 1 \in Int /\ Len(s) \in Int
    BY <1>1
  <2>3. /\ SubSeq(s, n + 1, Len(s)) \in Seq(1..Length)
        /\ Len(SubSeq(s, n + 1, Len(s))) = IF n + 1 <= Len(s) THEN Len(s) - (n + 1) + 1 ELSE 0
    BY <2>1, <2>2, SubSeqProperties
  <2>. QED BY <1>1, <2>3 DEF Drop, Bytes
<1>5. Take(s, n) \o Drop(s, n) = s
  <2>1. SubSeq(s, 1, n) \o SubSeq(s, n + 1, Len(s)) = SubSeq(s, 1, Len(s))
    <3>1. 1 \in 1..(Len(s) + 1) /\ n \in (1 - 1)..Len(s) /\ Len(s) \in n..Len(s)
      BY <1>1
    <3>. QED BY <1>1, <3>1, ConcatAdjacentSubSeq
  <2>. QED BY <1>1, <2>1, SubSeqFull DEF Take, Drop
<1>. QED BY <1>3, <1>4, <1>5

\* The elements of a concatenation are those of its parts.
LEMMA ElementsConcat ==
  ASSUME NEW S, NEW s \in Seq(S), NEW t \in Seq(S)
  PROVE  Elements(s \o t) = Elements(s) \cup Elements(t)
<1>1. Elements(s) = Range(s) /\ Elements(t) = Range(t)
  BY RangeEquality DEF Elements
<1>2. s \o t \in Seq(S)
  BY ConcatProperties
<1>3. Elements(s \o t) = Range(s \o t)
  BY <1>2, RangeEquality DEF Elements
<1>. QED BY <1>1, <1>3, RangeConcatenation

\* What recv gives are the next bytes of the stream, in order.
LEMMA PieceIs ==
  ASSUME TypeOK, SocketAssumption, NEW amt \in Nat, NEW new \in Piece(amt)
  PROVE  /\ new \in Bytes /\ Len(new) \in 1..Smaller(amt, arrived - taken)
         /\ \A i \in 1..Len(new) : new[i] = taken + i
         /\ Elements(new) = (taken + 1)..(taken + Len(new))
         /\ taken + Len(new) \in 0..arrived
<1>1. PICK k \in 1..Smaller(amt, arrived - taken) : new = [i \in 1..k |-> taken + i]
  BY DEF Piece
<1>2. k \in Nat /\ taken \in Nat /\ arrived \in Nat /\ taken + k <= arrived /\ arrived <= Length /\ Length \in Nat
  BY <1>1 DEF TypeOK, SocketAssumption, Smaller
<1>3. \A i \in 1..k : taken + i \in 1..Length
  BY <1>2
<1>4. new \in Seq(1..Length) /\ Len(new) = k
  BY <1>1, <1>2, <1>3
<1>5. Elements(new) = (taken + 1)..(taken + k)
  <2>1. Elements(new) = {taken + i : i \in 1..k}
    BY <1>1, <1>4 DEF Elements
  <2>2. \A x \in (taken + 1)..(taken + k) : x - taken \in 1..k /\ x = taken + (x - taken)
    BY <1>2
  <2>3. \A i \in 1..k : taken + i \in (taken + 1)..(taken + k)
    BY <1>2
  <2>. QED BY <2>1, <2>2, <2>3
<1>. QED BY <1>1, <1>2, <1>4, <1>5 DEF Bytes

------------------------------------------------------------------------------
\* The stream.

\* Its parts, and what it is made of.
LEMMA StreamIs ==
  ASSUME TypeOK
  PROVE  /\ Stream \in Bytes /\ out \in Bytes /\ call.held \in Bytes /\ rbuf \in Bytes
         /\ Elements(Stream) = Elements(out) \cup Elements(call.held) \cup Elements(rbuf)
<1>1. out \in Bytes /\ call.held \in Bytes /\ rbuf \in Bytes
  BY DEF TypeOK
<1>2. out \o call.held \in Bytes /\ Elements(out \o call.held) = Elements(out) \cup Elements(call.held)
  BY <1>1, ConcatProperties, ElementsConcat DEF Bytes
<1>3. Stream \in Bytes /\ Elements(Stream) = Elements(out \o call.held) \cup Elements(rbuf)
  <2>. DEFINE first == out \o call.held
  <2>1. Stream = first \o rbuf /\ first \in Seq(1..Length) /\ rbuf \in Seq(1..Length)
    BY <1>1, <1>2 DEF Stream, Bytes
  <2>. HIDE DEF first
  <2>2. first \o rbuf \in Seq(1..Length) /\ Elements(first \o rbuf) = Elements(first) \cup Elements(rbuf)
    BY <2>1, ConcatProperties, ElementsConcat
  <2>. QED BY <2>1, <2>2 DEF Bytes, first
<1>. QED BY <1>1, <1>2, <1>3

\* Received bytes are accounted for when they follow what is there.
LEMMA Grown ==
  ASSUME TypeOK, SocketAssumption, Accounted, NEW amt \in Nat, NEW new \in Piece(amt),
         Stream' = Stream \o new, taken' = taken + Len(new), lost' = lost
  PROVE  Accounted'
<1>1. Stream \in Bytes /\ new \in Bytes /\ Len(Stream) \in Nat /\ Len(new) \in Nat /\ taken \in Nat
  <2>1. Stream \in Bytes /\ new \in Bytes
    BY StreamIs, PieceIs
  <2>. QED BY <2>1, LenProperties DEF Bytes, TypeOK
<1>2. /\ Len(Stream') = Len(Stream) + Len(new)
      /\ \A i \in 1..Len(Stream') : Stream'[i] = IF i <= Len(Stream) THEN Stream[i] ELSE new[i - Len(Stream)]
  BY <1>1, ConcatProperties DEF Bytes
<1>3. \A i \in 1..Len(Stream) : Stream[i] \in 1..taken
  <2>1. \A i \in 1..Len(Stream) : Stream[i] \in Elements(Stream)
    BY DEF Elements
  <2>. QED BY <2>1 DEF Accounted
<1>4. \A i \in 1..Len(new) : new[i] = taken + i
  BY PieceIs
<1>5. ASSUME NEW i \in 1..Len(Stream'), NEW j \in 1..Len(Stream'), i < j
      PROVE  Stream'[i] < Stream'[j]
  <2>1. CASE j <= Len(Stream)
    BY <1>1, <1>2, <1>5, <2>1 DEF Accounted
  <2>2. CASE i <= Len(Stream) /\ Len(Stream) < j
    <3>1. Stream'[i] = Stream[i] /\ Stream'[j] = new[j - Len(Stream)]
      BY <1>1, <1>2, <2>2
    <3>2. j - Len(Stream) \in 1..Len(new) /\ i \in 1..Len(Stream)
      BY <1>1, <1>2, <2>2
    <3>3. Stream[i] \in 1..taken /\ new[j - Len(Stream)] = taken + (j - Len(Stream))
      BY <1>3, <1>4, <3>2
    <3>. QED BY <3>1, <3>2, <3>3, <1>1
  <2>3. CASE Len(Stream) < i
    <3>1. Stream'[i] = new[i - Len(Stream)] /\ Stream'[j] = new[j - Len(Stream)]
      BY <1>1, <1>2, <1>5, <2>3
    <3>2. i - Len(Stream) \in 1..Len(new) /\ j - Len(Stream) \in 1..Len(new)
      BY <1>1, <1>2, <1>5, <2>3
    <3>3. Stream'[i] = taken + (i - Len(Stream)) /\ Stream'[j] = taken + (j - Len(Stream))
      BY <1>4, <3>1, <3>2
    <3>4. i \in Nat /\ j \in Nat
      BY <1>1, <1>2
    <3>. QED BY <1>1, <1>5, <3>3, <3>4
  <2>. QED BY <1>1, <1>2, <1>5, <2>1, <2>2, <2>3
<1>6. Elements(Stream') \cup lost' = 1..taken'
  <2>1. Elements(Stream') = Elements(Stream) \cup Elements(new)
    BY <1>1, ElementsConcat DEF Bytes
  <2>2. Elements(new) = (taken + 1)..(taken + Len(new))
    BY PieceIs
  <2>3. Elements(Stream) \cup lost = 1..taken
    BY DEF Accounted
  <2>4. (1..taken) \cup ((taken + 1)..(taken + Len(new))) = 1..(taken + Len(new))
    BY <1>1
  <2>. QED BY <2>1, <2>2, <2>3, <2>4
<1>. QED BY <1>5, <1>6 DEF Accounted

\* A method that raises drops what it held, and what is left stays in order.
LEMMA Dropped ==
  ASSUME TypeOK, Accounted, Expires
  PROVE  Accounted'
<1>1. out' = out /\ rbuf' = rbuf /\ call'.held = <<>> /\ taken' = taken
      /\ lost' = lost \cup Elements(call.held)
  BY DEF Expires, Idle
<1>. DEFINE a == out
            b == call.held
            c == rbuf
<1>2. a \in Bytes /\ b \in Bytes /\ c \in Bytes /\ Len(a) \in Nat /\ Len(b) \in Nat /\ Len(c) \in Nat
  <2>1. a \in Bytes /\ b \in Bytes /\ c \in Bytes
    BY StreamIs
  <2>. QED BY <2>1, LenProperties DEF Bytes
<1>3. Stream = (a \o b) \o c /\ Stream' = a \o c
  <2>1. Stream' = (a \o <<>>) \o c
    BY <1>1 DEF Stream
  <2>2. a \o <<>> = a
    BY <1>2, ConcatEmptySeq DEF Bytes
  <2>. QED BY <2>1, <2>2 DEF Stream
<1>. HIDE DEF a, b, c
<1>4. /\ Len(Stream) = Len(a) + Len(b) + Len(c)
      /\ \A i \in 1..Len(a) : Stream[i] = a[i]
      /\ \A i \in 1..Len(c) : Stream[Len(a) + Len(b) + i] = c[i]
  <2>1. /\ a \o b \in Bytes /\ Len(a \o b) = Len(a) + Len(b)
        /\ \A i \in 1..Len(a) : (a \o b)[i] = a[i]
    BY <1>2, ConcatProperties DEF Bytes
  <2>2. /\ Len(Stream) = Len(a \o b) + Len(c)
        /\ \A i \in 1..(Len(a \o b) + Len(c)) :
              Stream[i] = IF i <= Len(a \o b) THEN (a \o b)[i] ELSE c[i - Len(a \o b)]
    BY <1>2, <1>3, <2>1, ConcatProperties DEF Bytes
  <2>3. \A i \in 1..Len(a) : Stream[i] = a[i]
    BY <1>2, <2>1, <2>2
  <2>4. ASSUME NEW i \in 1..Len(c) PROVE Stream[Len(a) + Len(b) + i] = c[i]
    <3>1. Len(a) + Len(b) + i \in 1..(Len(a \o b) + Len(c)) /\ ~(Len(a) + Len(b) + i <= Len(a \o b))
          /\ Len(a) + Len(b) + i - Len(a \o b) = i
      BY <1>2, <2>1
    <3>. QED BY <2>2, <3>1
  <2>. QED BY <1>2, <2>1, <2>2, <2>3, <2>4
<1>5. /\ Len(Stream') = Len(a) + Len(c)
      /\ \A i \in 1..(Len(a) + Len(c)) : Stream'[i] = IF i <= Len(a) THEN a[i] ELSE c[i - Len(a)]
  BY <1>2, <1>3, ConcatProperties DEF Bytes
<1>. DEFINE from(i) == IF i <= Len(a) THEN i ELSE Len(b) + i
<1>6. \A i \in 1..Len(Stream') : from(i) \in 1..Len(Stream) /\ Stream'[i] = Stream[from(i)]
  <2>1. ASSUME NEW i \in 1..Len(Stream'), i <= Len(a)
        PROVE  i \in 1..Len(Stream) /\ Stream'[i] = Stream[i]
    BY <1>2, <1>4, <1>5, <2>1
  <2>2. ASSUME NEW i \in 1..Len(Stream'), ~(i <= Len(a))
        PROVE  Len(b) + i \in 1..Len(Stream) /\ Stream'[i] = Stream[Len(b) + i]
    <3>1. i - Len(a) \in 1..Len(c) /\ Len(a) + Len(b) + (i - Len(a)) = Len(b) + i
      BY <1>2, <1>5, <2>2
    <3>2. Stream[Len(a) + Len(b) + (i - Len(a))] = c[i - Len(a)]
      BY <1>4, <3>1
    <3>. QED BY <1>2, <1>4, <1>5, <2>2, <3>1, <3>2
  <2>. QED BY <2>1, <2>2
<1>7. \A i, j \in 1..Len(Stream') : i < j => from(i) < from(j)
  BY <1>2, <1>5
<1>. HIDE DEF from
<1>8. \A i, j \in 1..Len(Stream') : i < j => Stream'[i] < Stream'[j]
  BY <1>6, <1>7 DEF Accounted
<1>9. Elements(Stream') \cup lost' = 1..taken'
  <2>1. Elements(Stream) = Elements(a) \cup Elements(b) \cup Elements(c)
    BY StreamIs DEF a, b, c
  <2>2. Elements(Stream') = Elements(a) \cup Elements(c)
    BY <1>2, <1>3, ElementsConcat DEF Bytes
  <2>3. lost' = lost \cup Elements(b)
    BY <1>1 DEF b
  <2>. QED BY <1>1, <2>1, <2>2, <2>3 DEF Accounted
<1>. QED BY <1>8, <1>9 DEF Accounted

\* Elements move between the result, the locals and _rbuf in order.
LEMMA Regroup ==
  \A a, b \in Bytes :
    a \o <<>> = a /\ <<>> \o a = a /\ a \o b \in Bytes /\ Len(a \o b) = Len(a) + Len(b)
BY ConcatProperties, ConcatEmptySeq DEF Bytes

\* Concatenation by a name of its own, which keeps the provers from taking
\* sequences apart where only their order matters.
Join(s, t) == s \o t

LEMMA Associative == \A a, b, c \in Bytes : Join(Join(a, b), c) = Join(a, Join(b, c))
BY ConcatAssociative DEF Bytes, Join

LEMMA RegroupFour ==
  ASSUME NEW a \in Bytes, NEW b \in Bytes, NEW c \in Bytes, NEW d \in Bytes
  PROVE  Join(Join(a, Join(b, c)), d) = Join(Join(a, b), Join(c, d))
<1>1. Join(b, c) \in Bytes /\ Join(c, d) \in Bytes
  BY Regroup DEF Join
<1>2. Join(Join(a, Join(b, c)), d) = Join(a, Join(Join(b, c), d))
  BY <1>1, Associative
<1>3. Join(Join(b, c), d) = Join(b, Join(c, d))
  BY Associative
<1>4. Join(Join(a, b), Join(c, d)) = Join(a, Join(b, Join(c, d)))
  BY <1>1, Associative
<1>. QED BY <1>2, <1>3, <1>4

LEMMA SameStream ==
  ASSUME Accounted, Stream' = Stream, UNCHANGED <<taken, lost>>
  PROVE  Accounted'
BY DEF Accounted, Elements

------------------------------------------------------------------------------
\* The steps, one by one: types, locals, and the bytes they move.

LEMMA EmptyTyped == <<>> \in Bytes /\ Len(<<>>) = 0
BY DEF Bytes

LEMMA ReadStep ==
  ASSUME TypeOK, SocketAssumption, Locals, Accounted, NEW n \in Amounts, Read(n)
  PROVE  TypeOK' /\ Locals' /\ Accounted' /\ WholeOrEnd'
<1>1. call = Idle /\ call.held = <<>> /\ n \in Nat /\ Len(rbuf) \in Nat /\ rbuf \in Bytes /\ out \in Bytes
  BY DEF Read, Locals, Idle, TypeOK, SocketAssumption, Bytes
<1>2. CASE n <= Len(rbuf)
  <2>1. /\ call' = Idle /\ ret' = [op |-> "read", raised |-> FALSE, arg |-> n, bytes |-> Take(rbuf, n)]
        /\ out' = out \o Take(rbuf, n) /\ rbuf' = Drop(rbuf, n)
        /\ UNCHANGED <<arrived, ended, taken, lost>>
    BY <1>2 DEF Read, Returns
  <2>2. /\ Take(rbuf, n) \in Bytes /\ Drop(rbuf, n) \in Bytes /\ Len(Take(rbuf, n)) = n
        /\ Take(rbuf, n) \o Drop(rbuf, n) = rbuf
    BY <1>1, <1>2, Cut, n \in 0..Len(rbuf) DEF Bytes
  <2>3. TypeOK'
    <3>1. out \o Take(rbuf, n) \in Bytes
      BY <1>1, <2>2, Regroup
    <3>. QED BY <1>1, <2>1, <2>2, <3>1, EmptyTyped DEF TypeOK, Idle, Calls
  <2>4. Locals'
    BY <2>1 DEF Locals, Idle
  <2>5. Stream' = Stream
    <3>1. Stream' = ((out \o Take(rbuf, n)) \o <<>>) \o Drop(rbuf, n)
      BY <2>1 DEF Stream, Idle
    <3>2. Stream = (out \o <<>>) \o rbuf
      BY <1>1 DEF Stream
    <3>4. (out \o Take(rbuf, n)) \o <<>> = out \o Take(rbuf, n) /\ out \o <<>> = out
      BY <1>1, <2>2, Regroup
    <3>5. (out \o Take(rbuf, n)) \o Drop(rbuf, n) = out \o (Take(rbuf, n) \o Drop(rbuf, n))
      <4>1. Join(Join(out, Take(rbuf, n)), Drop(rbuf, n)) = Join(out, Join(Take(rbuf, n), Drop(rbuf, n)))
        BY <1>1, <2>2, Associative
      <4>. QED BY <4>1 DEF Join
    <3>. QED BY <2>2, <3>1, <3>2, <3>4, <3>5
  <2>6. WholeOrEnd'
    BY <2>1, <2>2 DEF WholeOrEnd
  <2>. QED BY <2>1, <2>3, <2>4, <2>5, <2>6, SameStream
<1>3. CASE ~(n <= Len(rbuf))
  <2>1. /\ call' = [op |-> "read", arg |-> n, todo |-> n - Len(rbuf), held |-> rbuf]
        /\ ret' = Nothing /\ rbuf' = <<>>
        /\ UNCHANGED <<arrived, ended, taken, out, lost>>
    BY <1>3 DEF Read, Begins
  <2>2. n - Len(rbuf) \in Nat /\ n - Len(rbuf) > 0
    BY <1>1, <1>3
  <2>3. TypeOK'
    BY <1>1, <2>1, <2>2, EmptyTyped DEF TypeOK, Nothing, Calls
  <2>4. Locals'
    BY <1>1, <2>1, <2>2 DEF Locals
  <2>5. Stream' = Stream
    <3>1. Stream' = (out \o rbuf) \o <<>> /\ Stream = (out \o <<>>) \o rbuf
      BY <1>1, <2>1 DEF Stream
    <3>. QED BY <1>1, <3>1, Regroup, EmptyTyped
  <2>6. WholeOrEnd'
    BY <2>1 DEF WholeOrEnd, Nothing
  <2>. QED BY <2>1, <2>3, <2>4, <2>5, <2>6, SameStream
<1>. QED BY <1>2, <1>3

LEMMA ReadAllStep ==
  ASSUME TypeOK, SocketAssumption, Locals, Accounted, ReadAll
  PROVE  TypeOK' /\ Locals' /\ Accounted' /\ WholeOrEnd'
<1>1. call.held = <<>> /\ rbuf \in Bytes /\ out \in Bytes
  BY DEF ReadAll, Locals, Idle, TypeOK
<1>2. /\ call' = [op |-> "readall", arg |-> 0, todo |-> 0, held |-> rbuf]
      /\ ret' = Nothing /\ rbuf' = <<>>
      /\ UNCHANGED <<arrived, ended, taken, out, lost>>
  BY DEF ReadAll, Begins
<1>3. TypeOK'
  BY <1>1, <1>2, EmptyTyped DEF TypeOK, Nothing, Calls
<1>4. Locals' /\ WholeOrEnd'
  BY <1>2 DEF Locals, WholeOrEnd, Nothing
<1>5. Stream' = Stream
  <2>1. Stream' = (out \o rbuf) \o <<>> /\ Stream = (out \o <<>>) \o rbuf
    BY <1>1, <1>2 DEF Stream
  <2>. QED BY <1>1, <2>1, Regroup, EmptyTyped
<1>. QED BY <1>2, <1>3, <1>4, <1>5, SameStream

\* readline, readlines and send begin with nothing in their locals.
LEMMA BeginsEmpty ==
  ASSUME TypeOK, SocketAssumption, Locals, Accounted, call.op = "idle",
         NEW op \in Lines \cup {"send"}, NEW a \in Int, NEW left \in Nat,
         Begins(op, a, left, <<>>), rbuf' = rbuf
  PROVE  TypeOK' /\ Locals' /\ Accounted' /\ WholeOrEnd'
<1>1. call.held = <<>>
  BY DEF Locals, Idle
<1>2. /\ call' = [op |-> op, arg |-> a, todo |-> left, held |-> <<>>]
      /\ ret' = Nothing
      /\ UNCHANGED <<arrived, ended, taken, out, lost>>
  BY DEF Begins
<1>3. TypeOK'
  BY <1>2, EmptyTyped DEF TypeOK, Nothing, Calls, Lines
<1>4. Locals' /\ WholeOrEnd'
  BY <1>2 DEF Locals, WholeOrEnd, Nothing, Lines
<1>5. Stream' = Stream
  BY <1>1, <1>2 DEF Stream
<1>. QED BY <1>2, <1>3, <1>4, <1>5, SameStream

\* A piece completes the read, or it goes on with what it collected.
LEMMA ReadMoreStep ==
  ASSUME TypeOK, SocketAssumption, Locals, Accounted, ReadMore
  PROVE  TypeOK' /\ Locals' /\ Accounted' /\ WholeOrEnd'
<1>. DEFINE amt == Larger(call.todo, BuffSize)
            held == call.held
            todo == call.todo
<1>1. /\ rbuf = <<>> /\ todo \in Nat /\ todo > 0 /\ todo = call.arg - Len(held) /\ ret = Nothing
      /\ held \in Bytes /\ out \in Bytes /\ amt \in Nat /\ Len(held) \in Nat /\ call.arg \in Int
      /\ call.op = "read" /\ call \in [op : Calls, arg : Int, todo : Nat, held : Bytes]
  BY DEF ReadMore, Locals, TypeOK, SocketAssumption, Larger, Bytes
<1>2. PICK new \in Piece(amt) :
        /\ taken' = taken + Len(new)
        /\ IF Len(new) >= todo
           THEN /\ Returns("read", call.arg, held \o Take(new, Smaller(todo, Len(new))))
                /\ rbuf' = Drop(new, todo)
           ELSE Continues(todo - Len(new), held \o new) /\ UNCHANGED rbuf
  BY DEF ReadMore, Enough, Rest
<1>3. /\ new \in Bytes /\ Len(new) \in Nat /\ taken + Len(new) \in 0..arrived
      /\ held \o new \in Bytes /\ Len(held \o new) = Len(held) + Len(new)
  <2>1. new \in Bytes /\ taken + Len(new) \in 0..arrived
    BY <1>1, <1>2, PieceIs
  <2>. QED BY <1>1, <2>1, ConcatProperties, LenProperties DEF Bytes
<1>4. Stream = out \o held
  <2>1. Stream = (out \o held) \o <<>>
    BY <1>1 DEF Stream
  <2>2. out \o held \in Bytes
    BY <1>1, Regroup
  <2>. QED BY <2>1, <2>2, Regroup
<1>. HIDE DEF amt, held, todo
<1>5. CASE Len(new) >= todo
  <2>. DEFINE first == Take(new, todo)
              rest == Drop(new, todo)
  <2>1. Smaller(todo, Len(new)) = todo /\ todo \in 0..Len(new)
    BY <1>1, <1>3, <1>5 DEF Smaller
  <2>2. /\ first \in Bytes /\ rest \in Bytes /\ Len(first) = todo /\ first \o rest = new
    BY <1>3, <2>1, Cut
  <2>. HIDE DEF first, rest
  <2>3. /\ call' = Idle /\ out' = out \o (held \o first) /\ rbuf' = rest
        /\ ret' = [op |-> "read", raised |-> FALSE, arg |-> call.arg, bytes |-> held \o first]
        /\ UNCHANGED <<arrived, ended, lost>>
    BY <1>2, <1>5, <2>1 DEF Returns, first, rest
  <2>4. held \o first \in Bytes /\ Len(held \o first) = call.arg
    <3>1. held \o first \in Bytes /\ Len(held \o first) = Len(held) + Len(first)
      BY <1>1, <2>2, Regroup
    <3>. QED BY <1>1, <2>2, <3>1
  <2>5. out \o (held \o first) \in Bytes
    BY <1>1, <2>4, Regroup
  <2>6. TypeOK'
    BY <1>1, <1>2, <1>3, <2>2, <2>3, <2>4, <2>5, EmptyTyped DEF TypeOK, Idle, Calls
  <2>7. Locals' /\ WholeOrEnd'
    BY <2>3, <2>4 DEF Locals, Idle, WholeOrEnd
  <2>8. Stream' = Stream \o new
    <3>1. Stream' = ((out \o (held \o first)) \o <<>>) \o rest
      BY <2>3 DEF Stream, Idle
    <3>2. (out \o (held \o first)) \o <<>> = out \o (held \o first)
      BY <2>5, Regroup
    <3>3. (out \o (held \o first)) \o rest = (out \o held) \o (first \o rest)
      <4>1. out \in Bytes /\ held \in Bytes /\ first \in Bytes /\ rest \in Bytes
        BY <1>1, <2>2
      <4>2. Join(Join(out, Join(held, first)), rest) = Join(Join(out, held), Join(first, rest))
        BY <4>1, RegroupFour
      <4>. QED BY <4>2 DEF Join
    <3>. QED BY <1>4, <2>2, <3>1, <3>2, <3>3
  <2>. QED BY <1>1, <1>2, <2>3, <2>6, <2>7, <2>8, Grown
<1>6. CASE ~(Len(new) >= todo)
  <2>1. /\ call' = [call EXCEPT !.todo = todo - Len(new), !.held = held \o new]
        /\ rbuf' = <<>> /\ UNCHANGED <<arrived, ended, out, lost, ret>>
    BY <1>1, <1>2, <1>6 DEF Continues
  <2>2. /\ call'.op = "read" /\ call'.arg = call.arg /\ call'.todo = todo - Len(new)
        /\ call'.held = held \o new
    BY <1>1, <2>1
  <2>3. todo - Len(new) \in Nat /\ todo - Len(new) > 0
    BY <1>1, <1>3, <1>6
  <2>4. call' \in [op : Calls, arg : Int, todo : Nat, held : Bytes]
    BY <1>1, <1>3, <2>1, <2>3
  <2>5. TypeOK'
    BY <1>1, <1>2, <1>3, <2>1, <2>4, EmptyTyped DEF TypeOK
  <2>6. Locals'
    BY <1>1, <1>3, <2>1, <2>2, <2>3 DEF Locals
  <2>7. WholeOrEnd'
    BY <1>1, <2>1 DEF WholeOrEnd, Nothing
  <2>8. Stream' = Stream \o new
    <3>1. Stream' = (out \o (held \o new)) \o <<>>
      BY <2>1, <2>2 DEF Stream
    <3>2. out \o (held \o new) = (out \o held) \o new
      <4>1. Join(Join(out, held), new) = Join(out, Join(held, new))
        BY <1>1, <1>3, Associative
      <4>. QED BY <4>1 DEF Join
    <3>3. out \o (held \o new) \in Bytes
      BY <1>1, <1>3, Regroup
    <3>. QED BY <1>4, <3>1, <3>2, <3>3, Regroup
  <2>. QED BY <1>1, <1>2, <2>1, <2>5, <2>6, <2>7, <2>8, Grown
<1>. QED BY <1>5, <1>6

LEMMA ReadAllMoreStep ==
  ASSUME TypeOK, SocketAssumption, Locals, Accounted, ReadAllMore
  PROVE  TypeOK' /\ Locals' /\ Accounted' /\ WholeOrEnd'
<1>1. /\ rbuf = <<>> /\ rbuf' = <<>> /\ ret = Nothing /\ call.held \in Bytes /\ out \in Bytes
      /\ call.op = "readall" /\ call \in [op : Calls, arg : Int, todo : Nat, held : Bytes]
      /\ Length \in Nat
  BY DEF ReadAllMore, Locals, TypeOK, SocketAssumption
<1>2. PICK new \in Piece(Length) : taken' = taken + Len(new) /\ Continues(0, call.held \o new)
  BY DEF ReadAllMore
<1>3. new \in Bytes /\ taken + Len(new) \in 0..arrived /\ call.held \o new \in Bytes
  <2>1. new \in Bytes /\ taken + Len(new) \in 0..arrived
    BY <1>1, PieceIs
  <2>. QED BY <1>1, <2>1, Regroup
<1>4. /\ call' = [call EXCEPT !.todo = 0, !.held = call.held \o new]
      /\ call'.op = "readall" /\ call'.held = call.held \o new
      /\ UNCHANGED <<arrived, ended, out, lost, ret>>
  BY <1>1, <1>2 DEF Continues
<1>5. TypeOK'
  BY <1>1, <1>2, <1>3, <1>4, EmptyTyped DEF TypeOK
<1>6. Locals' /\ WholeOrEnd'
  BY <1>1, <1>4 DEF Locals, WholeOrEnd, Nothing
<1>7. Stream' = Stream \o new
  <2>1. Stream' = (out \o (call.held \o new)) \o <<>> /\ Stream = (out \o call.held) \o <<>>
    BY <1>1, <1>4 DEF Stream
  <2>2. out \o (call.held \o new) \in Bytes /\ out \o call.held \in Bytes
    BY <1>1, <1>3, Regroup
  <2>3. out \o (call.held \o new) = (out \o call.held) \o new
    <3>1. Join(Join(out, call.held), new) = Join(out, Join(call.held, new))
      BY <1>1, <1>3, Associative
    <3>. QED BY <3>1 DEF Join
  <2>. QED BY <2>1, <2>2, <2>3, Regroup
<1>. QED BY <1>1, <1>2, <1>4, <1>5, <1>6, <1>7, Grown

\* The peer has closed, and read and readall return what they hold.
LEMMA ReadEndsStep ==
  ASSUME TypeOK, SocketAssumption, Locals, Accounted, ReadEnds
  PROVE  TypeOK' /\ Locals' /\ Accounted' /\ WholeOrEnd'
<1>1. /\ rbuf = <<>> /\ AtEnd /\ call.held \in Bytes /\ out \in Bytes /\ call.arg \in Int
      /\ call.op \in {"read", "readall"}
  BY DEF ReadEnds, Locals, TypeOK
<1>2. /\ call' = Idle /\ out' = out \o call.held /\ rbuf' = <<>>
      /\ ret' = [op |-> call.op, raised |-> FALSE, arg |-> call.arg, bytes |-> call.held]
      /\ UNCHANGED <<arrived, ended, taken, lost>>
  BY <1>1 DEF ReadEnds, Returns
<1>3. out \o call.held \in Bytes
  BY <1>1, Regroup
<1>4. TypeOK'
  BY <1>1, <1>2, <1>3, EmptyTyped DEF TypeOK, Idle, Calls
<1>5. Locals'
  BY <1>2 DEF Locals, Idle
<1>6. WholeOrEnd'
  BY <1>1, <1>2 DEF WholeOrEnd, AtEnd
<1>7. Stream' = Stream
  <2>1. Stream' = ((out \o call.held) \o <<>>) \o <<>> /\ Stream = (out \o call.held) \o <<>>
    BY <1>1, <1>2 DEF Stream, Idle
  <2>. QED BY <1>3, <2>1, Regroup
<1>. QED BY <1>2, <1>4, <1>5, <1>6, <1>7, SameStream

LEMMA LineMoreStep ==
  ASSUME TypeOK, SocketAssumption, Locals, Accounted, LineMore
  PROVE  TypeOK' /\ Locals' /\ Accounted' /\ WholeOrEnd'
<1>1. /\ call.op \in Lines /\ ret = Nothing /\ call.held \in Bytes /\ rbuf \in Bytes /\ out \in Bytes
      /\ call \in [op : Calls, arg : Int, todo : Nat, held : Bytes] /\ BuffSize \in Nat
  BY DEF LineMore, NeedsMore, Lines, Locals, TypeOK, SocketAssumption
<1>2. PICK new \in Piece(BuffSize) : taken' = taken + Len(new) /\ Collects(new)
  BY DEF LineMore
<1>3. new \in Bytes /\ taken + Len(new) \in 0..arrived
  BY <1>1, PieceIs
<1>4. /\ call' = [call EXCEPT !.todo = 0] /\ call'.held = call.held /\ call'.op = call.op
      /\ rbuf' = rbuf \o new /\ UNCHANGED <<arrived, ended, out, lost, ret>>
  BY <1>1, <1>2 DEF Collects, Continues
<1>5. rbuf \o new \in Bytes /\ out \o call.held \in Bytes
  BY <1>1, <1>3, Regroup
<1>6. TypeOK'
  BY <1>1, <1>2, <1>3, <1>4, <1>5 DEF TypeOK
<1>7. Locals'
  BY <1>1, <1>4 DEF Locals, Lines
<1>8. WholeOrEnd'
  BY <1>1, <1>4 DEF WholeOrEnd, Nothing
<1>9. Stream' = Stream \o new
  <2>1. Stream' = (out \o call.held) \o (rbuf \o new) /\ Stream = (out \o call.held) \o rbuf
    BY <1>4 DEF Stream
  <2>2. ((out \o call.held) \o rbuf) \o new = (out \o call.held) \o (rbuf \o new)
    <3>1. Join(out, call.held) \in Bytes
      BY <1>5 DEF Join
    <3>2. Join(Join(Join(out, call.held), rbuf), new) = Join(Join(out, call.held), Join(rbuf, new))
      BY <1>1, <1>3, <3>1, Associative
    <3>. QED BY <3>2 DEF Join
  <2>. QED BY <2>1, <2>2
<1>. QED BY <1>1, <1>2, <1>4, <1>6, <1>7, <1>8, <1>9, Grown

\* A set of naturals has a least element.
LEMMA LeastElement ==
  ASSUME NEW T \in SUBSET Nat, T # {}
  PROVE  \E m \in T : \A n \in T : m <= n
<1>. DEFINE R == OpToRel(<, Nat)
<1>1. IsWellFoundedOn(R, Nat)
  BY NatLessThanWellFounded, Zenon
<1>2. \A m, n \in Nat : n < m => <<n, m>> \in R
  BY DEF OpToRel
<1>. HIDE DEF R
<1>3. PICK m \in T : \A n \in T : ~(<<n, m>> \in R)
  BY <1>1, WFMin
<1>4. \A n \in T : n \in Nat /\ m \in Nat /\ ~(n < m)
  BY <1>2, <1>3
<1>. QED BY <1>4

\* What LineLength chooses: at most the limit, and without one the first line.
LEMMA LineLengthIs ==
  ASSUME rbuf \in Bytes, NEW limit \in Int
  PROVE  /\ LineLength(limit) \in 0..Len(rbuf)
         /\ limit >= 0 => LineLength(limit) <= limit
         /\ limit < 0 /\ HasNewline(rbuf) =>
              /\ LineLength(limit) \in 1..Len(rbuf)
              /\ rbuf[LineLength(limit)] \in Newlines
              /\ \A j \in 1..(LineLength(limit) - 1) : rbuf[j] \notin Newlines
<1>1. Len(rbuf) \in Nat
  BY DEF Bytes
<1>2. CASE 0 <= limit /\ limit < Len(rbuf)
  BY <1>1, <1>2 DEF LineLength
<1>3. CASE ~(0 <= limit /\ limit < Len(rbuf)) /\ ~HasNewline(rbuf)
  BY <1>1, <1>3 DEF LineLength
<1>4. CASE ~(0 <= limit /\ limit < Len(rbuf)) /\ HasNewline(rbuf)
  <2>. DEFINE P(i) == rbuf[i] \in Newlines /\ \A j \in 1..(i - 1) : rbuf[j] \notin Newlines
              T == {i \in 1..Len(rbuf) : rbuf[i] \in Newlines}
  <2>1. LineLength(limit) = CHOOSE i \in 1..Len(rbuf) : P(i)
    BY <1>4 DEF LineLength
  <2>2. \E i \in 1..Len(rbuf) : P(i)
    <3>1. T \in SUBSET Nat /\ T # {}
      BY <1>1, <1>4 DEF HasNewline
    <3>2. PICK m \in T : \A n \in T : m <= n
      BY <3>1, LeastElement
    <3>3. \A j \in 1..(m - 1) : j \in 1..Len(rbuf) /\ j < m
      BY <1>1
    <3>4. \A j \in 1..(m - 1) : j \notin T
      BY <3>1, <3>2, <3>3
    <3>. QED BY <3>2, <3>3, <3>4
  <2>. HIDE DEF P
  <2>3. LineLength(limit) \in 1..Len(rbuf) /\ P(LineLength(limit))
    BY <2>1, <2>2
  <2>4. limit >= 0 => LineLength(limit) <= limit
    BY <1>1, <1>4, <2>3
  <2>. QED BY <1>1, <2>3, <2>4 DEF P
<1>. QED BY <1>2, <1>3, <1>4

LEMMA LineEndsStep ==
  ASSUME TypeOK, SocketAssumption, Locals, Accounted, LineEnds
  PROVE  TypeOK' /\ Locals' /\ Accounted' /\ WholeOrEnd'
<1>. DEFINE n == LineLength(Limit)
            line == Take(rbuf, n)
            rest == Drop(rbuf, n)
            held == call.held
            whole == call.op = "readline" \/ n = 0 \/ (call.arg # 0 /\ Len(held \o line) >= call.arg)
<1>1. /\ call.op \in Lines /\ ret = Nothing /\ held \in Bytes /\ rbuf \in Bytes /\ out \in Bytes
      /\ call \in [op : Calls, arg : Int, todo : Nat, held : Bytes] /\ Limit \in Int
      /\ Len(rbuf) \in Nat /\ (~NeedsMore \/ AtEnd)
      /\ UNCHANGED <<arrived, ended, taken, lost>>
  <2>1. call.op \in Lines /\ (~NeedsMore \/ AtEnd) /\ UNCHANGED <<arrived, ended, taken, lost>>
    BY DEF LineEnds, Returns, Continues
  <2>2. /\ held \in Bytes /\ rbuf \in Bytes /\ out \in Bytes
        /\ call \in [op : Calls, arg : Int, todo : Nat, held : Bytes]
    BY DEF TypeOK
  <2>3. Limit \in Int /\ Len(rbuf) \in Nat
    BY <2>2 DEF Limit, Bytes
  <2>. QED BY <2>1, <2>2, <2>3 DEF Lines, Locals
<1>2. n \in 0..Len(rbuf)
  BY <1>1, LineLengthIs
<1>3. /\ rbuf' = rest
      /\ IF whole THEN Returns(call.op, call.arg, held \o line) ELSE Continues(0, held \o line)
  BY DEF LineEnds
<1>4. call.op = "readline" => held = <<>>
  BY DEF Locals
<1>5. /\ line \in Bytes /\ rest \in Bytes /\ Len(line) = n /\ line \o rest = rbuf
      /\ \A i \in 1..n : line[i] = rbuf[i]
  BY <1>1, <1>2, Cut
<1>6. call.op = "readline" => whole /\ n = LineLength(call.arg)
  BY DEF Limit
<1>. HIDE DEF line, rest, held, whole
<1>7. held \o line \in Bytes
  BY <1>1, <1>5, Regroup
<1>8. out \o (held \o line) \in Bytes
  BY <1>1, <1>7, Regroup
<1>9. (out \o (held \o line)) \o rest = (out \o held) \o rbuf
  <2>1. Join(Join(out, Join(held, line)), rest) = Join(Join(out, held), Join(line, rest))
    BY <1>1, <1>5, RegroupFour
  <2>2. Join(line, rest) = rbuf
    BY <1>5 DEF Join
  <2>. QED BY <2>1, <2>2 DEF Join
<1>10. CASE whole
  <2>1. /\ call' = Idle /\ out' = out \o (held \o line) /\ rbuf' = rest
        /\ ret' = [op |-> call.op, raised |-> FALSE, arg |-> call.arg, bytes |-> held \o line]
    BY <1>3, <1>10 DEF Returns
  <2>2. TypeOK'
    BY <1>1, <1>5, <1>7, <1>8, <2>1, EmptyTyped DEF TypeOK, Idle, Calls
  <2>3. Locals'
    BY <2>1 DEF Locals, Idle
  <2>4. WholeOrEnd'
    <3>1. ret'.op # "read"
      BY <1>1, <2>1 DEF Lines
    <3>2. SUFFICES ASSUME call.op = "readline"
                   PROVE  /\ call.arg = -1 => \/ AtEnd
                                              \/ /\ HasNewline(line)
                                                 /\ ~HasNewline(Take(line, Len(line) - 1))
                          /\ call.arg >= 0 => Len(line) <= call.arg
      <4>1. call.op = "readline" => held \o line = line
        BY <1>4, <1>5, Regroup
      <4>. QED BY <1>1, <2>1, <3>1, <4>1 DEF WholeOrEnd, AtEnd, HasNewline
    <3>3. ASSUME call.arg = -1, ~AtEnd
          PROVE  HasNewline(line) /\ ~HasNewline(Take(line, Len(line) - 1))
      <4>1. HasNewline(rbuf)
        BY <1>1, <3>2, <3>3 DEF NeedsMore, HasLine, Limit, Lines
      <4>2. n \in 1..Len(rbuf) /\ rbuf[n] \in Newlines /\ \A j \in 1..(n - 1) : rbuf[j] \notin Newlines
        BY <1>1, <1>6, <3>2, <3>3, <4>1, LineLengthIs
      <4>. HIDE DEF n
      <4>3. HasNewline(line)
        BY <1>1, <1>5, <4>2 DEF HasNewline
      <4>4. n - 1 \in 0..Len(line) /\ Len(line) - 1 = n - 1
        BY <1>1, <1>5, <4>2
      <4>5. Len(Take(line, n - 1)) = n - 1 /\ \A i \in 1..(n - 1) : Take(line, n - 1)[i] = line[i]
        BY <1>5, <4>4, Cut
      <4>6. \A i \in 1..(n - 1) : i \in 1..n /\ line[i] \notin Newlines
        BY <1>1, <1>5, <4>2
      <4>. QED BY <4>3, <4>4, <4>5, <4>6 DEF HasNewline
    <3>4. call.arg >= 0 => Len(line) <= call.arg
      BY <1>1, <1>5, <1>6, <3>2, LineLengthIs
    <3>. QED BY <3>3, <3>4
  <2>5. Stream' = Stream
    <3>1. Stream' = ((out \o (held \o line)) \o <<>>) \o rest /\ Stream = (out \o held) \o rbuf
      BY <2>1 DEF Stream, Idle, held
    <3>. QED BY <1>8, <1>9, <3>1, Regroup
  <2>. QED BY <1>1, <2>2, <2>3, <2>4, <2>5, SameStream
<1>11. CASE ~whole
  <2>1. /\ call' = [call EXCEPT !.todo = 0, !.held = held \o line] /\ rbuf' = rest
        /\ call'.op = call.op /\ call'.held = held \o line /\ UNCHANGED <<out, ret>>
    BY <1>1, <1>3, <1>11 DEF Continues
  <2>2. call.op = "readlines"
    BY <1>1, <1>6, <1>11 DEF Lines
  <2>3. TypeOK'
    BY <1>1, <1>5, <1>7, <2>1 DEF TypeOK
  <2>4. Locals'
    BY <1>1, <2>1, <2>2 DEF Locals
  <2>5. WholeOrEnd'
    BY <1>1, <2>1 DEF WholeOrEnd, Nothing
  <2>6. Stream' = Stream
    BY <1>9, <2>1 DEF Stream, held
  <2>. QED BY <1>1, <2>3, <2>4, <2>5, <2>6, SameStream
<1>. QED BY <1>10, <1>11

LEMMA SendMoreStep ==
  ASSUME TypeOK, SocketAssumption, Locals, Accounted, NEW k \in 0..ChunkSize, SendMore(k)
  PROVE  TypeOK' /\ Locals' /\ Accounted' /\ WholeOrEnd'
<1>1. /\ call.op = "send" /\ ret = Nothing /\ call.held = <<>> /\ rbuf \in Bytes /\ out \in Bytes
      /\ call \in [op : Calls, arg : Int, todo : Nat, held : Bytes]
      /\ k \in Nat /\ k <= call.todo
  BY DEF SendMore, Locals, TypeOK, SocketAssumption, Smaller
<1>2. CASE k = call.todo
  <2>1. /\ call' = Idle /\ out' = out \o <<>>
        /\ ret' = [op |-> "send", raised |-> FALSE, arg |-> call.arg, bytes |-> <<>>]
        /\ UNCHANGED <<arrived, ended, taken, rbuf, lost>>
    BY <1>2 DEF SendMore, Returns
  <2>2. out' = out
    BY <1>1, <2>1, Regroup
  <2>3. TypeOK'
    BY <1>1, <2>1, <2>2, EmptyTyped DEF TypeOK, Idle, Calls
  <2>4. Locals' /\ WholeOrEnd'
    BY <2>1 DEF Locals, Idle, WholeOrEnd
  <2>5. Stream' = Stream
    BY <1>1, <2>1, <2>2 DEF Stream, Idle
  <2>. QED BY <2>1, <2>3, <2>4, <2>5, SameStream
<1>3. CASE k # call.todo
  <2>1. /\ call' = [call EXCEPT !.todo = call.todo - k, !.held = <<>>]
        /\ UNCHANGED <<arrived, ended, taken, rbuf, out, lost, ret>>
    BY <1>3 DEF SendMore, Continues
  <2>2. call'.op = "send" /\ call'.held = <<>> /\ call.todo - k \in Nat
    BY <1>1, <2>1
  <2>3. TypeOK'
    BY <1>1, <2>1, <2>2, EmptyTyped DEF TypeOK
  <2>4. Locals' /\ WholeOrEnd'
    BY <1>1, <2>1, <2>2 DEF Locals, Nothing, WholeOrEnd
  <2>5. Stream' = Stream
    BY <1>1, <2>1, <2>2 DEF Stream
  <2>. QED BY <2>1, <2>3, <2>4, <2>5, SameStream
<1>. QED BY <1>2, <1>3

LEMMA ExpiresStep ==
  ASSUME TypeOK, SocketAssumption, Locals, Accounted, Expires
  PROVE  TypeOK' /\ Locals' /\ Accounted' /\ WholeOrEnd'
<1>1. /\ call' = Idle /\ ret' = [op |-> call.op, raised |-> TRUE, arg |-> call.arg, bytes |-> <<>>]
      /\ lost' = lost \cup Elements(call.held)
      /\ UNCHANGED <<arrived, ended, taken, rbuf, out>>
  BY DEF Expires
<1>2. Elements(call.held) \subseteq 1..Length
  <2>1. call.held \in Seq(1..Length)
    BY DEF TypeOK, Bytes
  <2>. QED BY <2>1, ElementOfSeq DEF Elements
<1>3. TypeOK'
  <2>1. call.op \in Calls /\ call.arg \in Int /\ lost \subseteq 1..Length
    BY DEF TypeOK
  <2>2. ret' \in [op : Calls, raised : BOOLEAN, arg : Int, bytes : Bytes]
    BY <1>1, <2>1, EmptyTyped
  <2>3. call' \in [op : Calls, arg : Int, todo : Nat, held : Bytes]
    BY <1>1, EmptyTyped DEF Idle, Calls
  <2>4. lost' \subseteq 1..Length
    BY <1>1, <1>2, <2>1
  <2>. QED BY <1>1, <2>2, <2>3, <2>4 DEF TypeOK
<1>4. Locals' /\ WholeOrEnd'
  BY <1>1 DEF Locals, Idle, WholeOrEnd
<1>. QED BY <1>3, <1>4, Dropped

\* Bytes arrive, or the peer closes: what a method returned stays what it was.
LEMMA PeerStep ==
  ASSUME TypeOK, SocketAssumption, Locals, Accounted, WholeOrEnd, Arrive \/ PeerCloses
  PROVE  TypeOK' /\ Locals' /\ Accounted' /\ WholeOrEnd'
<1>1. /\ UNCHANGED <<taken, rbuf, call, out, lost, ret>>
      /\ \/ ~ended /\ ended' = ended /\ arrived < Length /\ arrived' = arrived + 1
         \/ ~ended /\ ended' = TRUE /\ arrived' = arrived
  BY DEF Arrive, PeerCloses
<1>2. TypeOK'
  <2>1. arrived \in 0..Length /\ taken \in 0..arrived /\ ended \in BOOLEAN /\ Length \in Nat
    BY DEF TypeOK, SocketAssumption
  <2>2. arrived' \in 0..Length /\ taken' \in 0..arrived'
    BY <1>1, <2>1
  <2>4. ended' \in BOOLEAN
    BY <1>1, <2>1, Zenon
  <2>3. /\ rbuf \in Bytes /\ out \in Bytes /\ lost \subseteq 1..Length
        /\ call \in [op : Calls, arg : Int, todo : Nat, held : Bytes]
        /\ ret \in [op : Calls, raised : BOOLEAN, arg : Int, bytes : Bytes]
    BY DEF TypeOK
  <2>. QED BY <1>1, <2>2, <2>3, <2>4 DEF TypeOK
<1>3. Locals'
  BY <1>1 DEF Locals
<1>4. WholeOrEnd'
  BY <1>1 DEF WholeOrEnd, AtEnd, HasNewline
<1>5. Stream' = Stream
  BY <1>1 DEF Stream
<1>. QED BY <1>1, <1>2, <1>3, <1>4, <1>5, SameStream

------------------------------------------------------------------------------
\* The theorems.

LEMMA InitHolds == ASSUME SocketAssumption, Init PROVE IInv
<1>1. TypeOK
  <2>1. arrived \in 0..Length /\ taken \in 0..arrived /\ lost \subseteq 1..Length
    BY DEF Init, SocketAssumption
  <2>4. ended \in BOOLEAN
    BY Zenon DEF Init
  <2>2. call \in [op : Calls, arg : Int, todo : Nat, held : Bytes]
    BY EmptyTyped DEF Init, Idle, Calls
  <2>3. ret \in [op : Calls, raised : BOOLEAN, arg : Int, bytes : Bytes]
    BY EmptyTyped DEF Init, Nothing, Calls
  <2>. QED BY <2>1, <2>2, <2>3, <2>4, EmptyTyped DEF Init, TypeOK
<1>2. Locals /\ WholeOrEnd
  BY DEF Init, Locals, WholeOrEnd, Idle, Nothing
<1>3. Accounted
  <2>1. Stream = <<>> /\ Len(Stream) = 0
    BY EmptyTyped, Regroup DEF Init, Stream, Idle
  <2>2. Elements(Stream) = {} /\ lost = {} /\ taken = 0
    BY <2>1 DEF Elements, Init
  <2>. QED BY <2>1, <2>2 DEF Accounted
<1>. QED BY <1>1, <1>2, <1>3 DEF IInv

LEMMA StepHolds == ASSUME SocketAssumption, IInv, [Next]_vars PROVE IInv'
<1>. TypeOK /\ Locals /\ Accounted /\ WholeOrEnd
  BY DEF IInv
<1>. SUFFICES TypeOK' /\ Locals' /\ Accounted' /\ WholeOrEnd'
  BY DEF IInv
<1>1. CASE Arrive \/ PeerCloses
  BY <1>1, PeerStep
<1>2. ASSUME NEW n \in Amounts, Read(n) PROVE TypeOK' /\ Locals' /\ Accounted' /\ WholeOrEnd'
  BY <1>2, ReadStep
<1>3. CASE ReadAll
  BY <1>3, ReadAllStep
<1>4. ASSUME NEW limit \in Limits, ReadLine(limit)
      PROVE  TypeOK' /\ Locals' /\ Accounted' /\ WholeOrEnd'
  <2>1. limit \in Int
    BY DEF SocketAssumption
  <2>. QED BY <1>4, <2>1, BeginsEmpty DEF ReadLine, Lines
<1>5. ASSUME NEW hint \in Hints, ReadLines(hint)
      PROVE  TypeOK' /\ Locals' /\ Accounted' /\ WholeOrEnd'
  <2>1. hint \in Int
    BY DEF SocketAssumption
  <2>. QED BY <1>5, <2>1, BeginsEmpty DEF ReadLines, Lines
<1>6. ASSUME NEW total \in Payloads, Send(total)
      PROVE  TypeOK' /\ Locals' /\ Accounted' /\ WholeOrEnd'
  <2>1. total \in Nat /\ total \in Int
    BY DEF SocketAssumption
  <2>. QED BY <1>6, <2>1, BeginsEmpty DEF Send
<1>7. CASE ReadMore
  BY <1>7, ReadMoreStep
<1>8. CASE ReadAllMore
  BY <1>8, ReadAllMoreStep
<1>9. CASE ReadEnds
  BY <1>9, ReadEndsStep
<1>10. CASE LineMore
  BY <1>10, LineMoreStep
<1>11. CASE LineEnds
  BY <1>11, LineEndsStep
<1>12. ASSUME NEW k \in 0..ChunkSize, SendMore(k)
       PROVE  TypeOK' /\ Locals' /\ Accounted' /\ WholeOrEnd'
  BY <1>12, SendMoreStep
<1>13. CASE Expires
  BY <1>13, ExpiresStep
<1>14. CASE UNCHANGED vars
  BY <1>14 DEF vars, TypeOK, Locals, Accounted, WholeOrEnd, Stream, AtEnd, Elements, HasNewline
<1>. QED BY <1>1, <1>2, <1>3, <1>4, <1>5, <1>6, <1>7, <1>8, <1>9, <1>10, <1>11, <1>12,
            <1>13, <1>14 DEF Next, Starts, Runs

LEMMA Invariance == Spec => []IInv
<1>1. Init => IInv
  BY SocketAssumption, InitHolds
<1>2. IInv /\ [Next]_vars => IInv'
  BY SocketAssumption, StepHolds
<1>. QED BY <1>1, <1>2, PTL DEF Spec

\* The buffer, the locals and the results hold bytes of the stream.
THEOREM SocketTyped == Spec => []TypeOK
<1>1. IInv => TypeOK
  BY DEF IInv
<1>. QED BY <1>1, Invariance, PTL

\* Whatever the peer sends, in whatever pieces, and whatever read methods are
\* called one after another with whatever arguments, each byte that was
\* received is returned once and in order, waits in the locals or in _rbuf, or
\* was in the locals of a method that raised TimeoutError.
THEOREM EveryByteAccounted == Spec => []Accounted
<1>1. IInv => Accounted
  BY DEF IInv
<1>. QED BY <1>1, Invariance, PTL

\* A read that returns too little, or a readline that returns no whole line,
\* has met the end of the stream; a limit is never exceeded.
THEOREM WholeUnlessEnded == Spec => []WholeOrEnd
<1>1. IInv => WholeOrEnd
  BY DEF IInv
<1>. QED BY <1>1, Invariance, PTL

\* A readline that raises TimeoutError leaves what it received in _rbuf.
THEOREM LinesSurviveTimeouts == Spec => LineKeptOnTimeout
<1>1. IInv /\ [Next]_vars => [call.op = "readline" => lost' = lost]_vars
  <2>1. SUFFICES ASSUME IInv, Next, call.op = "readline" PROVE lost' = lost
    BY DEF vars
  <2>2. call.held = <<>>
    BY <2>1 DEF IInv, Locals
  <2>3. CASE Expires
    BY <2>2, <2>3, EmptyTyped DEF Expires, Elements
  <2>4. CASE LineMore
    BY <2>4 DEF LineMore, Collects, Continues
  <2>5. CASE LineEnds
    BY <2>5 DEF LineEnds, Returns, Continues
  <2>6. CASE Arrive \/ PeerCloses
    BY <2>6 DEF Arrive, PeerCloses
  <2>7. ~Starts /\ ~ReadMore /\ ~ReadAllMore /\ ~ReadEnds /\ \A k \in 0..ChunkSize : ~SendMore(k)
    BY <2>1 DEF Starts, Read, ReadAll, ReadLine, ReadLines, Send, ReadMore, ReadAllMore, ReadEnds, SendMore
  <2>. QED BY <2>1, <2>3, <2>4, <2>5, <2>6, <2>7 DEF Next, Runs
<1>. QED BY <1>1, Invariance, PTL DEF Spec, LineKeptOnTimeout
==============================================================================
