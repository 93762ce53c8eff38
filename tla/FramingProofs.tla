--------------------------- MODULE FramingProofs ---------------------------
(***************************************************************************)
(* Theorems about Framing.tla, for every width of a short, all sizes of    *)
(* messages and any number of calls: until it breaks, a connection is the  *)
(* one that Rpc.tla promises, and between two calls nothing is left on it. *)
(***************************************************************************)
EXTENDS Framing, SequenceTheorems, TLAPS

-----------------------------------------------------------------------------
(* The inductive invariant.                                                *)

\* Sizes whose length is not cut.
Whole == {z \in Size : Short(z) = z}

\* Between two calls.
Resting ==
    /\ client.pc = "idle" /\ server.pc = "receive"
    /\ up = <<>> /\ down = <<>>
    /\ client.calls = returned /\ server.served = returned

\* A request of z bytes is written and read; its length, then its bytes.
Requesting(z) ==
    /\ client.calls = returned + 1 /\ server.served = returned
    /\ down = <<>>
    /\ \/ /\ client.pc = "send" /\ client.size = z
          /\ \/ server.pc = "receive" /\ up = Length(client.calls, z)
             \/ server.pc = "request" /\ server.size = z /\ up = <<>>
       \/ /\ client.pc = "length"
          /\ \/ /\ server.pc = "receive"
                /\ up = Length(client.calls, z) \o Body(client.calls, z, z)
             \/ server.pc = "request" /\ server.size = z /\ up = Body(client.calls, z, z)

\* It is served.
Serving ==
    /\ client.calls = returned + 1 /\ server.served = client.calls
    /\ up = <<>> /\ down = <<>>
    /\ client.pc = "length"
    /\ server.pc = "length" /\ server.message = client.calls

\* A response of z bytes is written and read; its length, then its bytes.
Answering(z) ==
    /\ client.calls = returned + 1 /\ server.served = client.calls
    /\ up = <<>>
    /\ \/ /\ server.pc = "answer" /\ server.size = z /\ server.message = client.calls
          /\ \/ client.pc = "length" /\ down = Length(client.calls, z)
             \/ client.pc = "read" /\ client.size = z /\ down = <<>>
       \/ /\ server.pc = "receive"
          /\ \/ /\ client.pc = "length"
                /\ down = Length(client.calls, z) \o Body(client.calls, z, z)
             \/ client.pc = "read" /\ client.size = z /\ down = Body(client.calls, z, z)

\* Of the client, the two streams and the handler, exactly one has the call.
Whereabouts == Resting \/ Serving \/ \E z \in Whole : Requesting(z) \/ Answering(z)

Bytes == [message : Nat, place : Int, size : Nat]

\* What the streams and the two ends may hold.
ClientOK ==
    /\ client \in [pc : {"idle", "send", "length", "read", "ended"}, size : Int, calls : Nat]
    /\ client.pc = "send" => client.size \in Size

HandlerOK ==
    /\ server \in [pc : {"receive", "request", "length", "answer", "gone"}, size : Int,
                   message : Nat, served : Nat]
    /\ server.pc = "answer" => server.size \in Size

EndsOK ==
    /\ up \in Seq(Bytes) /\ down \in Seq(Bytes)
    /\ ClientOK /\ HandlerOK
    /\ returned \in Nat /\ broken \in BOOLEAN

IInv == EndsOK /\ (~broken => Whereabouts)

-----------------------------------------------------------------------------
(* Streams.                                                                *)

LEMMA StreamTypes ==
    ASSUME NEW m \in Nat, NEW z \in Nat \ {0}
    PROVE  /\ Length(m, z) \in Seq(Bytes) /\ Len(Length(m, z)) = 2
           /\ Length(m, z)[1].message = m /\ Length(m, z)[1].size = z
           /\ Body(m, z, z) \in Seq(Bytes) /\ Len(Body(m, z, z)) = z
           /\ Body(m, z, z)[1].size = z
           /\ \A i \in 1 .. z : Body(m, z, z)[i].place # -1
<1>1. \A i \in Int : Byte(m, i, z) \in Bytes
  BY DEF Byte, Bytes
<1>2. Length(m, z) \in Seq(Bytes) /\ Len(Length(m, z)) = 2
      /\ Length(m, z)[1] = Byte(m, -1, z)
  BY <1>1 DEF Length
<1>3. Body(m, z, z) \in Seq(Bytes) /\ Len(Body(m, z, z)) = z
  BY <1>1 DEF Body
<1>4. \A i \in 1 .. z : Body(m, z, z)[i] = Byte(m, i, z)
  BY DEF Body
<1> QED BY <1>2, <1>3, <1>4 DEF Byte

\* What the read of a length finds and leaves, alone or before its message, and
\* the read of the message.
LEMMA WholeReads ==
    ASSUME NEW m \in Nat, NEW z \in Nat \ {0}
    PROVE  /\ Begin(Length(m, z), 2) = Length(m, z) /\ Rest(Length(m, z), 2) = <<>>
           /\ Begin(Length(m, z) \o Body(m, z, z), 2) = Length(m, z)
           /\ Rest(Length(m, z) \o Body(m, z, z), 2) = Body(m, z, z)
           /\ (Length(m, z) \o Body(m, z, z))[1] = Length(m, z)[1]
           /\ Begin(Body(m, z, z), z) = Body(m, z, z) /\ Rest(Body(m, z, z), z) = <<>>
           /\ Length(m, z) # <<>> /\ Body(m, z, z) # <<>>
           /\ Length(m, z) \o Body(m, z, z) # <<>>
<1> DEFINE l == Length(m, z)
           b == Body(m, z, z)
<1>1. l \in Seq(Bytes) /\ Len(l) = 2 /\ b \in Seq(Bytes) /\ Len(b) = z
  BY StreamTypes
<1> HIDE DEF l, b
<1>2. Begin(l, 2) = l /\ Rest(l, 2) = <<>>
  BY <1>1 DEF Begin, Rest
<1>3. Begin(b, z) = b /\ Rest(b, z) = <<>>
  BY <1>1 DEF Begin, Rest
<1>4. /\ l \o b \in Seq(Bytes) /\ Len(l \o b) = 2 + z
      /\ \A i \in 1 .. 2 : (l \o b)[i] = l[i]
      /\ \A i \in 1 .. z : (l \o b)[2 + i] = b[i]
  <2>1. /\ l \o b \in Seq(Bytes) /\ Len(l \o b) = Len(l) + Len(b)
        /\ \A i \in 1 .. Len(l) + Len(b) :
              (l \o b)[i] = IF i <= Len(l) THEN l[i] ELSE b[i - Len(l)]
    BY <1>1, ConcatProperties
  <2>2. \A i \in 1 .. 2 : i \in 1 .. 2 + z /\ i <= 2
    OBVIOUS
  <2>3. \A i \in 1 .. z : 2 + i \in 1 .. 2 + z /\ ~(2 + i <= 2) /\ 2 + i - 2 = i
    OBVIOUS
  <2> QED BY <1>1, <2>1, <2>2, <2>3
<1>5. Begin(l \o b, 2) = l
  <2>1. SubSeq(l \o b, 1, 2) \in Seq(Bytes) /\ Len(SubSeq(l \o b, 1, 2)) = 2
        /\ \A i \in 1 .. 2 : SubSeq(l \o b, 1, 2)[i] = (l \o b)[i]
    BY <1>4
  <2> QED BY <1>1, <1>4, <2>1 DEF Begin
<1>6. Rest(l \o b, 2) = b
  <2>1. SubSeq(l \o b, 3, 2 + z) \in Seq(Bytes) /\ Len(SubSeq(l \o b, 3, 2 + z)) = z
        /\ \A i \in 1 .. z : SubSeq(l \o b, 3, 2 + z)[i] = (l \o b)[2 + i]
    BY <1>4
  <2>2. \A i \in 1 .. z : SubSeq(l \o b, 3, 2 + z)[i] = b[i]
    BY <1>4, <2>1
  <2> QED BY <1>1, <1>4, <2>1, <2>2 DEF Rest
<1>7. l # <<>> /\ b # <<>> /\ l \o b # <<>>
  BY <1>1, <1>4
<1> QED BY <1>2, <1>3, <1>4, <1>5, <1>6, <1>7 DEF l, b

\* The bytes of a message whose length is not cut are all written.
LEMMA WholeWrite ==
    ASSUME NEW stream, NEW m, NEW z \in Whole
    PROVE  WriteBody(stream, m, z) = stream \o Body(m, z, z)
<1>1. z \in Nat \ {0} /\ Short(z) = z
  BY FramingAssumption DEF Whole
<1>2. Max({0, z}) = z
  BY <1>1 DEF Max
<1> QED BY <1>1, <1>2 DEF WriteBody

\* A read that is full finds what was written: a length, and a message.
LEMMA FullLength ==
    ASSUME NEW m \in Nat, NEW z \in Whole, NEW stream,
           stream = Length(m, z) \/ stream = Length(m, z) \o Body(m, z, z)
    PROVE  /\ stream # <<>>
           /\ Numbers(stream, 2) = {z}
           /\ stream = Length(m, z) => Rest(stream, 2) = <<>>
           /\ stream = Length(m, z) \o Body(m, z, z) => Rest(stream, 2) = Body(m, z, z)
<1>1. z \in Nat \ {0} /\ Short(z) = z
  BY FramingAssumption DEF Whole
<1>2. /\ Begin(Length(m, z), 2) = Length(m, z) /\ Rest(Length(m, z), 2) = <<>>
      /\ Begin(Length(m, z) \o Body(m, z, z), 2) = Length(m, z)
      /\ Rest(Length(m, z) \o Body(m, z, z), 2) = Body(m, z, z)
      /\ (Length(m, z) \o Body(m, z, z))[1] = Length(m, z)[1]
      /\ Length(m, z) # <<>> /\ Length(m, z) \o Body(m, z, z) # <<>>
  BY <1>1, WholeReads
<1>3. Length(m, z)[1].message = m /\ Length(m, z)[1].size = z
  BY <1>1, StreamTypes
<1>4. Begin(stream, 2) = Length(m, z) /\ stream[1].message = m /\ stream[1].size = z
  BY <1>2, <1>3
<1>5. Numbers(stream, 2) = {z}
  BY <1>1, <1>4 DEF Numbers
<1> QED BY <1>2, <1>5

LEMMA FullBody ==
    ASSUME NEW m \in Nat, NEW z \in Whole
    PROVE  /\ Body(m, z, z) # <<>>
           /\ IsMessage(Body(m, z, z), z, m)
           /\ Rest(Body(m, z, z), z) = <<>>
<1>1. z \in Nat \ {0}
  BY FramingAssumption DEF Whole
<1>2. /\ Begin(Body(m, z, z), z) = Body(m, z, z) /\ Rest(Body(m, z, z), z) = <<>>
      /\ Body(m, z, z) # <<>>
  BY <1>1, WholeReads
<1>3. Body(m, z, z)[1].size = z
  BY <1>1, StreamTypes
<1> QED BY <1>2, <1>3 DEF IsMessage

-----------------------------------------------------------------------------
(* Types.                                                                  *)

LEMMA ShortType ==
    ASSUME NEW n \in Int
    PROVE  Short(n) \in Int
<1>1. 2 * Half \in Nat \ {0}
  BY FramingAssumption
<1>2. (n + Half) % (2 * Half) \in Int
  BY <1>1, FramingAssumption
<1> QED BY <1>2, FramingAssumption DEF Short

LEMMA RestType ==
    ASSUME NEW stream \in Seq(Bytes), NEW n \in Int, NEW b \in Reads(stream, n)
    PROVE  /\ stream # <<>> /\ b \in Nat \ {0} /\ b <= n
           /\ Rest(stream, b) \in Seq(Bytes)
           /\ Numbers(stream, b) \subseteq Int
<1>1. Len(stream) \in Nat /\ b \in Nat \ {0} /\ b <= n /\ b <= Len(stream)
  BY DEF Reads
<1>2. stream # <<>> /\ stream[1] \in Bytes
  BY <1>1
<1>3. Rest(stream, b) \in Seq(Bytes)
  BY <1>1 DEF Rest
<1>4. Short(stream[1].size) \in Int
  <2>1. stream[1].size \in Int
    BY <1>2 DEF Bytes
  <2> QED BY <2>1, ShortType
<1>5. Numbers(stream, b) \subseteq Int
  BY <1>4, FramingAssumption DEF Numbers, Shorts
<1> QED BY <1>1, <1>2, <1>3, <1>5

LEMMA WriteTypes ==
    ASSUME NEW stream \in Seq(Bytes), NEW m \in Nat, NEW z \in Size
    PROVE  /\ stream \o Length(m, z) \in Seq(Bytes)
           /\ WriteBody(stream, m, z) \in Seq(Bytes)
<1>1. z \in Nat \ {0}
  BY FramingAssumption
<1>2. Length(m, z) \in Seq(Bytes)
  BY <1>1, StreamTypes
<1>3. Max({0, Short(z)}) \in Nat
  <2>1. Short(z) \in Int
    BY <1>1, ShortType
  <2>2. CASE Short(z) >= 0
    <3>1. Max({0, Short(z)}) = Short(z)
      BY <2>1, <2>2 DEF Max
    <3> QED BY <2>1, <2>2, <3>1
  <2>3. CASE Short(z) < 0
    <3>1. Max({0, Short(z)}) = 0
      BY <2>1, <2>3 DEF Max
    <3> QED BY <3>1
  <2> QED BY <2>1, <2>2, <2>3
<1>4. Body(m, Max({0, Short(z)}), z) \in Seq(Bytes)
  <2>1. ASSUME NEW n \in Nat
        PROVE  Body(m, n, z) \in Seq(Bytes)
    <3>1. \A i \in 1 .. n : Byte(m, i, z) \in Bytes
      BY <1>1 DEF Byte, Bytes
    <3> QED BY <3>1 DEF Body
  <2> QED BY <1>3, <2>1
<1> QED BY <1>2, <1>4 DEF WriteBody

LEMMA ClientGoesType ==
    ASSUME ClientOK, NEW pc \in {"idle", "length", "read", "ended"}, NEW n \in Int,
           ClientGoes(pc, n)
    PROVE  /\ ClientOK'
           /\ client'.pc = pc /\ client'.size = n /\ client'.calls = client.calls
BY DEF ClientOK, ClientGoes

LEMMA ServerGoesType ==
    ASSUME HandlerOK, NEW pc \in {"receive", "request", "length", "answer", "gone"},
           NEW n \in Int, NEW m \in Nat, pc = "answer" => n \in Size,
           ServerGoes(pc, n, m)
    PROVE  /\ HandlerOK'
           /\ server'.pc = pc /\ server'.size = n /\ server'.message = m
           /\ server'.served = server.served
BY DEF HandlerOK, ServerGoes

LEMMA ServedType ==
    ASSUME HandlerOK,
           server' = [server EXCEPT !.pc = "length", !.served = @ + 1,
                                    !.message = server.served + 1]
    PROVE  /\ HandlerOK'
           /\ server'.pc = "length" /\ server'.size = server.size
           /\ server'.message = server.served + 1 /\ server'.served = server.served + 1
<1> DEFINE n == server.served + 1
<1>1. n \in Nat
  BY DEF HandlerOK
<1>2. server' = [server EXCEPT !.pc = "length", !.served = n, !.message = n]
  OBVIOUS
<1> HIDE DEF n
<1>3. /\ HandlerOK'
      /\ server'.pc = "length" /\ server'.size = server.size
      /\ server'.message = n /\ server'.served = n
  BY <1>1, <1>2 DEF HandlerOK
<1> QED BY <1>3 DEF n

LEMMA EndsInit == Init => EndsOK
<1> SUFFICES ASSUME Init PROVE EndsOK
  OBVIOUS
<1>1. up \in Seq(Bytes) /\ down \in Seq(Bytes)
  BY DEF Init
<1>2. ClientOK
  BY DEF Init, ClientOK
<1>3. HandlerOK
  BY DEF Init, HandlerOK
<1> QED BY <1>1, <1>2, <1>3 DEF Init, EndsOK

LEMMA SendEnds ==
    ASSUME EndsOK, SendLength \/ SendBody
    PROVE  EndsOK'
<1>1. CASE SendLength
  <2>1. PICK z \in Size :
           /\ up' = up \o Length(client.calls + 1, z)
           /\ client' = [pc |-> "send", size |-> z, calls |-> client.calls + 1]
           /\ broken' = (broken \/ Short(z) # z)
    BY <1>1 DEF SendLength
  <2>2. client.calls + 1 \in Nat /\ z \in Int
    BY FramingAssumption DEF EndsOK, ClientOK
  <2>3. up' \in Seq(Bytes)
    BY <2>1, <2>2, WriteTypes DEF EndsOK
  <2>4. broken' \in BOOLEAN
    BY <2>1
  <2>5. ClientOK'
    BY <2>1, <2>2 DEF ClientOK
  <2> QED BY <1>1, <2>3, <2>4, <2>5 DEF EndsOK, HandlerOK, SendLength
<1>2. CASE SendBody
  <2>1. client.size \in Size /\ client.calls \in Nat
    BY <1>2 DEF EndsOK, SendBody, ClientOK
  <2>2. up' \in Seq(Bytes)
    BY <1>2, <2>1, WriteTypes DEF EndsOK, SendBody
  <2>3. ClientOK'
    BY <1>2, ClientGoesType DEF EndsOK, SendBody
  <2> QED BY <1>2, <2>2, <2>3 DEF EndsOK, HandlerOK, SendBody
<1> QED BY <1>1, <1>2

LEMMA ReadEnds ==
    ASSUME EndsOK, ReadLength \/ ReadResponse
    PROVE  EndsOK'
<1>1. ASSUME NEW n \in Int, NEW b \in Reads(down, n)
      PROVE  Rest(down, b) \in Seq(Bytes) /\ Numbers(down, b) \subseteq Int
  BY <1>1, RestType DEF EndsOK
<1>2. UNCHANGED <<up, server>> /\ HandlerOK' /\ up' \in Seq(Bytes)
  BY DEF EndsOK, HandlerOK, ReadLength, ReadResponse
<1>3. client.size \in Int
  BY DEF EndsOK, ClientOK
<1>4. CASE ReadLength
  <2>1. returned' = returned
    BY <1>4 DEF ReadLength
  <2>2. ASSUME NEW b \in Reads(down, 2), NEW num \in Numbers(down, b), ClientGoes("read", num),
               down' = Rest(down, b), Breaks(b, 2)
        PROVE  EndsOK'
    <3>1. Rest(down, b) \in Seq(Bytes) /\ num \in Int
      BY <1>1
    <3>2. broken' \in BOOLEAN
      BY <2>2 DEF Breaks
    <3>3. ClientOK'
      BY <2>2, <3>1, ClientGoesType DEF EndsOK
    <3> QED BY <1>2, <2>1, <2>2, <3>1, <3>2, <3>3 DEF EndsOK
  <2>3. ASSUME NEW num \in Shorts, ClientGoes("read", num), UNCHANGED <<down, broken>>
        PROVE  EndsOK'
    <3>1. num \in Int
      BY FramingAssumption DEF Shorts
    <3>2. ClientOK'
      BY <2>3, <3>1, ClientGoesType DEF EndsOK
    <3> QED BY <1>2, <2>1, <2>3, <3>2 DEF EndsOK
  <2> QED BY <1>4, <2>2, <2>3 DEF ReadLength
<1>5. CASE ReadResponse
  <2>1. ASSUME NEW pc \in {"idle", "ended"}, ClientGoes(pc, 0)
        PROVE  ClientOK'
    BY <2>1, ClientGoesType DEF EndsOK
  <2>2. ASSUME NEW b \in Reads(down, client.size), down' = Rest(down, b),
               Breaks(b, client.size)
        PROVE  down' \in Seq(Bytes) /\ broken' \in BOOLEAN
    BY <1>1, <1>3, <2>2 DEF Breaks
  <2>3. \E pc \in {"idle", "ended"} : ClientGoes(pc, 0)
    BY <1>5 DEF ReadResponse
  <2>4. down' \in Seq(Bytes) /\ broken' \in BOOLEAN
    BY <1>5, <2>2 DEF ReadResponse, EndsOK
  <2>5. returned' \in Nat
    BY <1>5 DEF ReadResponse, EndsOK
  <2> QED BY <1>2, <2>1, <2>3, <2>4, <2>5 DEF EndsOK
<1> QED BY <1>4, <1>5

LEMMA ReceiveEnds ==
    ASSUME EndsOK, ReceiveLength \/ ReceiveRequest
    PROVE  EndsOK'
<1>1. ASSUME NEW n \in Int, NEW b \in Reads(up, n)
      PROVE  Rest(up, b) \in Seq(Bytes) /\ Numbers(up, b) \subseteq Int
  BY <1>1, RestType DEF EndsOK
<1>2. UNCHANGED <<down, client, returned>> /\ ClientOK' /\ down' \in Seq(Bytes)
  BY DEF EndsOK, ClientOK, ReceiveLength, ReceiveRequest
<1>3. server.size \in Int
  BY DEF EndsOK, HandlerOK
<1>4. ASSUME NEW pc \in {"length", "gone"}, ServerGoes(pc, 0, 0)
      PROVE  HandlerOK'
  BY <1>4, ServerGoesType DEF EndsOK
<1>5. CASE ReceiveLength
  <2>1. ASSUME NEW b \in Reads(up, 2), NEW num \in Numbers(up, b),
               ServerGoes("request", num, 0), up' = Rest(up, b), Breaks(b, 2)
        PROVE  EndsOK'
    <3>1. Rest(up, b) \in Seq(Bytes) /\ num \in Int
      BY <1>1
    <3>2. broken' \in BOOLEAN
      BY <2>1 DEF Breaks
    <3>3. HandlerOK'
      BY <2>1, <3>1, ServerGoesType DEF EndsOK
    <3> QED BY <1>2, <2>1, <3>1, <3>2, <3>3 DEF EndsOK
  <2>2. ASSUME ServerGoes("gone", 0, 0), UNCHANGED <<up, broken>>
        PROVE  EndsOK'
    BY <1>2, <1>4, <2>2 DEF EndsOK
  <2> QED BY <1>5, <2>1, <2>2 DEF ReceiveLength
<1>6. CASE ReceiveRequest
  <2>1. ASSUME NEW b \in Reads(up, server.size), up' = Rest(up, b), Breaks(b, server.size)
        PROVE  up' \in Seq(Bytes) /\ broken' \in BOOLEAN
    BY <1>1, <1>3, <2>1 DEF Breaks
  <2>2. up' \in Seq(Bytes) /\ broken' \in BOOLEAN
    BY <1>6, <2>1 DEF ReceiveRequest, EndsOK
  <2>3. \/ server' = [server EXCEPT !.pc = "length", !.served = @ + 1,
                                    !.message = server.served + 1]
        \/ \E pc \in {"length", "gone"} : ServerGoes(pc, 0, 0)
    BY <1>6 DEF ReceiveRequest
  <2>4. HandlerOK'
    BY <1>4, <2>3, ServedType DEF EndsOK
  <2> QED BY <1>2, <2>2, <2>4 DEF EndsOK
<1> QED BY <1>5, <1>6

LEMMA AnswerEnds ==
    ASSUME EndsOK, AnswerLength \/ AnswerBody
    PROVE  EndsOK'
<1>1. UNCHANGED <<up, client, returned>> /\ ClientOK' /\ up' \in Seq(Bytes)
  BY DEF EndsOK, ClientOK, AnswerLength, AnswerBody
<1>2. server.message \in Nat
  BY DEF EndsOK, HandlerOK
<1>3. CASE AnswerLength
  <2>1. PICK z \in Size :
           /\ down' = down \o Length(server.message, z)
           /\ broken' = (broken \/ Short(z) # z)
           /\ \/ ServerGoes("receive", 0, 0)
              \/ ServerGoes("answer", z, server.message)
              \/ ServerGoes("gone", 0, 0)
    BY <1>3 DEF AnswerLength
  <2>2. down' \in Seq(Bytes)
    BY <1>2, <2>1, WriteTypes DEF EndsOK
  <2>3. broken' \in BOOLEAN /\ z \in Int
    BY <2>1, FramingAssumption
  <2>4. HandlerOK'
    BY <1>2, <2>1, <2>3, ServerGoesType DEF EndsOK
  <2> QED BY <1>1, <2>2, <2>3, <2>4 DEF EndsOK
<1>4. CASE AnswerBody
  <2>1. server.size \in Size
    BY <1>4 DEF EndsOK, AnswerBody, HandlerOK
  <2>2. down' \in Seq(Bytes)
    BY <1>2, <1>4, <2>1, WriteTypes DEF EndsOK, AnswerBody
  <2>3. HandlerOK'
    BY <1>4, ServerGoesType DEF EndsOK, AnswerBody
  <2> QED BY <1>1, <1>4, <2>2, <2>3 DEF EndsOK, AnswerBody
<1> QED BY <1>3, <1>4

-----------------------------------------------------------------------------
(* A step that leaves the connection whole: where the call is after it,    *)
(* and the step of Rpc that it is.                                         *)

LEMMA WholeSize ==
    ASSUME NEW z \in Whole
    PROVE  z \in Nat \ {0} /\ z \in Int /\ z \in Size /\ Short(z) = z
BY FramingAssumption DEF Whole

LEMMA SendLengthWhole ==
    ASSUME EndsOK, Whereabouts, SendLength, ~broken'
    PROVE  /\ Whereabouts'
           /\ client.calls = returned /\ client'.calls = client.calls + 1
           /\ server' = server /\ returned' = returned
<1>1. Resting
  BY DEF Whereabouts, SendLength, Serving, Requesting, Answering
<1>2. PICK z \in Size :
         /\ up' = up \o Length(client.calls + 1, z)
         /\ client' = [pc |-> "send", size |-> z, calls |-> client.calls + 1]
         /\ broken' = (broken \/ Short(z) # z)
  BY DEF SendLength
<1>3. z \in Whole
  BY <1>2 DEF Whole
<1>4. Length(client.calls + 1, z) \in Seq(Bytes)
  <2>1. client.calls + 1 \in Nat
    BY DEF EndsOK, ClientOK
  <2> QED BY <1>3, <2>1, WholeSize, StreamTypes
<1>5. up' = Length(client.calls + 1, z)
  BY <1>1, <1>2, <1>4 DEF Resting
<1>6. Requesting(z)'
  BY <1>1, <1>2, <1>5 DEF Resting, Requesting, SendLength
<1> QED BY <1>1, <1>2, <1>3, <1>6 DEF Resting, Whereabouts, SendLength, Whole

LEMMA SendBodyWhole ==
    ASSUME EndsOK, Whereabouts, SendBody, ~broken'
    PROVE  /\ Whereabouts'
           /\ client'.calls = client.calls /\ server' = server /\ returned' = returned
<1>1. PICK z \in Whole : Requesting(z) /\ client.size = z
  BY DEF Whereabouts, SendBody, Resting, Serving, Requesting, Answering
<1>2. client.calls \in Nat /\ ClientOK
  BY DEF EndsOK, ClientOK
<1>3. up' = up \o Body(client.calls, z, z)
  BY <1>1, WholeWrite DEF SendBody
<1>4. client'.pc = "length" /\ client'.calls = client.calls
  BY <1>2, ClientGoesType DEF SendBody
<1>5. Body(client.calls, z, z) \in Seq(Bytes)
  BY <1>2, WholeSize, StreamTypes
<1>6. Requesting(z)'
  <2>1. CASE server.pc = "receive" /\ up = Length(client.calls, z)
    BY <1>1, <1>3, <1>4, <2>1 DEF Requesting, SendBody
  <2>2. CASE server.pc = "request" /\ server.size = z /\ up = <<>>
    BY <1>1, <1>3, <1>4, <1>5, <2>2 DEF Requesting, SendBody
  <2> QED BY <1>1, <2>1, <2>2 DEF Requesting, SendBody
<1> QED BY <1>4, <1>6 DEF Whereabouts, SendBody, Whole

LEMMA ReadLengthWhole ==
    ASSUME EndsOK, Whereabouts, ReadLength, ~broken'
    PROVE  /\ Whereabouts'
           /\ client'.calls = client.calls /\ server' = server /\ returned' = returned
<1>1. server.pc # "gone" /\ client.pc = "length"
  BY DEF Whereabouts, ReadLength, Resting, Serving, Requesting, Answering
<1>2. PICK b \in Reads(down, 2) :
         /\ \E num \in Numbers(down, b) : ClientGoes("read", num)
         /\ down' = Rest(down, b)
         /\ Breaks(b, 2)
  BY <1>1 DEF ReadLength, ServerIsGone
<1>3. down # <<>> /\ b \in Nat \ {0} /\ b <= 2
  BY <1>2, RestType DEF EndsOK
<1>4. b = 2
  <2>1. ~(b < 2)
    BY <1>2 DEF Breaks
  <2> QED BY <1>3, <2>1
<1>5. PICK z \in Whole : Answering(z)
  BY <1>1, <1>3 DEF Whereabouts, Resting, Serving, Requesting
<1>6. down = Length(client.calls, z) \/ down = Length(client.calls, z) \o Body(client.calls, z, z)
  BY <1>1, <1>5 DEF Answering
<1>7. client.calls \in Nat /\ ClientOK /\ z \in Int
  BY WholeSize DEF EndsOK, ClientOK
<1>8. /\ Numbers(down, 2) = {z}
      /\ down = Length(client.calls, z) => Rest(down, 2) = <<>>
      /\ down = Length(client.calls, z) \o Body(client.calls, z, z)
           => Rest(down, 2) = Body(client.calls, z, z)
  BY <1>6, <1>7, FullLength
<1>9. ClientGoes("read", z)
  BY <1>2, <1>4, <1>8
<1>10. client'.pc = "read" /\ client'.size = z /\ client'.calls = client.calls
  BY <1>7, <1>9, ClientGoesType
<1>11. Answering(z)'
  <2>1. CASE server.pc = "answer"
    <3>1. down = Length(client.calls, z)
      BY <1>1, <1>5, <2>1 DEF Answering
    <3> QED BY <1>2, <1>4, <1>5, <1>8, <1>10, <2>1, <3>1 DEF Answering, ReadLength
  <2>2. CASE server.pc = "receive"
    <3>1. down = Length(client.calls, z) \o Body(client.calls, z, z)
      BY <1>1, <1>5, <2>2 DEF Answering
    <3> QED BY <1>2, <1>4, <1>5, <1>8, <1>10, <2>2, <3>1 DEF Answering, ReadLength
  <2> QED BY <1>5, <2>1, <2>2 DEF Answering
<1> QED BY <1>10, <1>11 DEF Whereabouts, ReadLength, Whole

LEMMA ReadResponseWhole ==
    ASSUME EndsOK, Whereabouts, ReadResponse, ~broken'
    PROVE  /\ Whereabouts'
           /\ client'.calls = client.calls /\ server' = server
           /\ server.served = returned + 1 /\ returned' = returned + 1
<1>1. PICK z \in Whole : Answering(z) /\ client.pc = "read" /\ client.size = z
  BY DEF Whereabouts, ReadResponse, Resting, Serving, Requesting, Answering
<1>2. z \in Nat \ {0} /\ z \in Int /\ client.calls \in Nat /\ ClientOK
  BY WholeSize DEF EndsOK, ClientOK
<1>3. server.pc # "gone"
  BY <1>1 DEF Answering
<1>4. PICK b \in Reads(down, z) :
         /\ down' = Rest(down, b)
         /\ Breaks(b, z)
         /\ \/ /\ b = z /\ IsMessage(down, b, client.calls)
               /\ ClientGoes("idle", 0)
               /\ returned' = returned + 1
            \/ b = z /\ ~IsMessage(down, b, client.calls)
            \/ b < z
  BY <1>1, <1>2, <1>3 DEF ReadResponse, ServerIsGone
<1>5. down # <<>> /\ b \in Nat \ {0} /\ b <= z
  BY <1>2, <1>4, RestType DEF EndsOK
<1>6. b = z
  BY <1>2, <1>4, <1>5 DEF Breaks
<1>7. server.pc = "receive" /\ down = Body(client.calls, z, z)
  BY <1>1, <1>5 DEF Answering
<1>8. IsMessage(down, z, client.calls) /\ Rest(down, z) = <<>>
  BY <1>2, <1>7, FullBody
<1>9. ClientGoes("idle", 0) /\ returned' = returned + 1 /\ down' = <<>>
  BY <1>2, <1>4, <1>6, <1>8
<1>10. client'.pc = "idle" /\ client'.calls = client.calls
  BY <1>2, <1>9, ClientGoesType
<1>11. Resting'
  BY <1>1, <1>7, <1>9, <1>10 DEF Answering, Resting, ReadResponse
<1> QED BY <1>1, <1>9, <1>10, <1>11 DEF Whereabouts, Answering, ReadResponse

LEMMA ReceiveLengthWhole ==
    ASSUME EndsOK, Whereabouts, ReceiveLength, ~broken'
    PROVE  /\ Whereabouts'
           /\ client' = client /\ server'.served = server.served /\ returned' = returned
<1>1. client.pc # "ended" /\ server.pc = "receive"
  BY DEF Whereabouts, ReceiveLength, Resting, Serving, Requesting, Answering
<1>2. PICK b \in Reads(up, 2) :
         /\ \E num \in Numbers(up, b) : ServerGoes("request", num, 0)
         /\ up' = Rest(up, b)
         /\ Breaks(b, 2)
  BY <1>1 DEF ReceiveLength, ClientIsGone
<1>3. up # <<>> /\ b \in Nat \ {0} /\ b <= 2
  BY <1>2, RestType DEF EndsOK
<1>4. b = 2
  <2>1. ~(b < 2)
    BY <1>2 DEF Breaks
  <2> QED BY <1>3, <2>1
<1>5. PICK z \in Whole : Requesting(z)
  BY <1>1, <1>3 DEF Whereabouts, Resting, Serving, Answering
<1>6. up = Length(client.calls, z) \/ up = Length(client.calls, z) \o Body(client.calls, z, z)
  BY <1>1, <1>5 DEF Requesting
<1>7. client.calls \in Nat /\ HandlerOK /\ z \in Int
  BY WholeSize DEF EndsOK, ClientOK
<1>8. /\ Numbers(up, 2) = {z}
      /\ up = Length(client.calls, z) => Rest(up, 2) = <<>>
      /\ up = Length(client.calls, z) \o Body(client.calls, z, z)
           => Rest(up, 2) = Body(client.calls, z, z)
  BY <1>6, <1>7, FullLength
<1>9. ServerGoes("request", z, 0)
  BY <1>2, <1>4, <1>8
<1>10. server'.pc = "request" /\ server'.size = z /\ server'.served = server.served
  BY <1>7, <1>9, ServerGoesType
<1>11. Requesting(z)'
  BY <1>1, <1>2, <1>4, <1>5, <1>8, <1>10 DEF Requesting, ReceiveLength
<1> QED BY <1>10, <1>11 DEF Whereabouts, ReceiveLength, Whole

LEMMA ReceiveRequestWhole ==
    ASSUME EndsOK, Whereabouts, ReceiveRequest, ~broken'
    PROVE  /\ Whereabouts'
           /\ client' = client /\ returned' = returned
           /\ server.served + 1 = client.calls /\ server'.served = server.served + 1
<1>1. PICK z \in Whole : Requesting(z) /\ server.pc = "request" /\ server.size = z
  BY DEF Whereabouts, ReceiveRequest, Resting, Serving, Requesting, Answering
<1>2. z \in Nat \ {0} /\ z \in Int /\ client.calls \in Nat /\ HandlerOK
  BY WholeSize DEF EndsOK, ClientOK
<1>3. client.pc # "ended" /\ server.served + 1 = client.calls
  BY <1>1 DEF Requesting
<1>4. PICK b \in Reads(up, z) :
         /\ up' = Rest(up, b)
         /\ Breaks(b, z)
         /\ \/ /\ IsMessage(up, b, server.served + 1)
               /\ server' = [server EXCEPT !.pc = "length", !.served = @ + 1,
                                           !.message = server.served + 1]
            \/ ~IsMessage(up, b, server.served + 1)
  BY <1>1, <1>2, <1>3 DEF ReceiveRequest, ClientIsGone
<1>5. up # <<>> /\ b \in Nat \ {0} /\ b <= z
  BY <1>2, <1>4, RestType DEF EndsOK
<1>6. b = z
  <2>1. ~(b < z)
    BY <1>4 DEF Breaks
  <2> QED BY <1>2, <1>5, <2>1
<1>7. client.pc = "length" /\ up = Body(client.calls, z, z)
  BY <1>1, <1>5 DEF Requesting
<1>8. IsMessage(up, z, client.calls) /\ Rest(up, z) = <<>>
  BY <1>2, <1>7, FullBody
<1>9. server' = [server EXCEPT !.pc = "length", !.served = @ + 1,
                               !.message = server.served + 1]
  BY <1>3, <1>4, <1>6, <1>8
<1>10. server'.pc = "length" /\ server'.message = server.served + 1
       /\ server'.served = server.served + 1
  BY <1>2, <1>9, ServedType
<1>11. Serving'
  BY <1>1, <1>3, <1>4, <1>6, <1>7, <1>8, <1>10 DEF Requesting, Serving, ReceiveRequest
<1> QED BY <1>3, <1>10, <1>11 DEF Whereabouts, ReceiveRequest

LEMMA AnswerLengthWhole ==
    ASSUME EndsOK, Whereabouts, AnswerLength, ~broken'
    PROVE  /\ Whereabouts'
           /\ client' = client /\ server'.served = server.served /\ returned' = returned
<1>1. Serving
  BY DEF Whereabouts, AnswerLength, Resting, Requesting, Answering
<1>2. PICK z \in Size :
         /\ down' = down \o Length(server.message, z)
         /\ broken' = (broken \/ Short(z) # z)
         /\ \/ Short(z) < 0
            \/ Short(z) >= 0 /\ ServerGoes("answer", z, server.message)
            \/ Short(z) >= 0 /\ Short(z) < z
  BY DEF AnswerLength
<1>3. z \in Whole
  BY <1>2 DEF Whole
<1>4. z \in Nat \ {0} /\ Short(z) = z /\ z \in Int /\ z \in Size
      /\ client.calls \in Nat /\ HandlerOK
  BY <1>3, WholeSize DEF EndsOK, ClientOK
<1>5. ServerGoes("answer", z, client.calls) /\ server.message = client.calls
  BY <1>1, <1>2, <1>4 DEF Serving
<1>6. server'.pc = "answer" /\ server'.size = z /\ server'.message = client.calls
      /\ server'.served = server.served
  BY <1>4, <1>5, ServerGoesType
<1>7. Length(client.calls, z) \in Seq(Bytes)
  BY <1>4, StreamTypes
<1>8. down' = Length(client.calls, z)
  BY <1>1, <1>2, <1>5, <1>7 DEF Serving
<1>9. Answering(z)'
  BY <1>1, <1>6, <1>8 DEF Serving, Answering, AnswerLength
<1> QED BY <1>3, <1>6, <1>9 DEF Whereabouts, AnswerLength, Whole

LEMMA AnswerBodyWhole ==
    ASSUME EndsOK, Whereabouts, AnswerBody, ~broken'
    PROVE  /\ Whereabouts'
           /\ client' = client /\ server'.served = server.served /\ returned' = returned
<1>1. PICK z \in Whole : Answering(z) /\ server.size = z /\ server.message = client.calls
  BY DEF Whereabouts, AnswerBody, Resting, Serving, Requesting, Answering
<1>2. client.calls \in Nat /\ HandlerOK
  BY DEF EndsOK, ClientOK
<1>3. down' = down \o Body(client.calls, z, z)
  BY <1>1, WholeWrite DEF AnswerBody
<1>4. server'.pc = "receive" /\ server'.served = server.served
  BY <1>2, ServerGoesType DEF AnswerBody
<1>5. Body(client.calls, z, z) \in Seq(Bytes)
  BY <1>2, WholeSize, StreamTypes
<1>6. Answering(z)'
  <2>1. CASE client.pc = "length" /\ down = Length(client.calls, z)
    BY <1>1, <1>3, <1>4, <2>1 DEF Answering, AnswerBody
  <2>2. CASE client.pc = "read" /\ client.size = z /\ down = <<>>
    BY <1>1, <1>3, <1>4, <1>5, <2>2 DEF Answering, AnswerBody
  <2> QED BY <1>1, <2>1, <2>2 DEF Answering, AnswerBody
<1> QED BY <1>4, <1>6 DEF Whereabouts, AnswerBody, Whole

-----------------------------------------------------------------------------
(* The theorems.                                                           *)

\* A connection that has broken stays so.
LEMMA StaysBroken ==
    ASSUME Next, broken
    PROVE  broken'
BY DEF Next, network_send_receive, client_handler, SendLength, SendBody, ReadLength,
       ReadResponse, ReceiveLength, ReceiveRequest, AnswerLength, AnswerBody, Breaks

LEMMA WholeStep ==
    ASSUME EndsOK, Whereabouts, Next, ~broken'
    PROVE  Whereabouts'
BY SendLengthWhole, SendBodyWhole, ReadLengthWhole, ReadResponseWhole, ReceiveLengthWhole,
   ReceiveRequestWhole, AnswerLengthWhole, AnswerBodyWhole
   DEF Next, network_send_receive, client_handler

LEMMA EndsStep ==
    ASSUME EndsOK, Next
    PROVE  EndsOK'
BY SendEnds, ReadEnds, ReceiveEnds, AnswerEnds DEF Next, network_send_receive, client_handler

LEMMA InvInit == Init => IInv
<1>1. Init => Whereabouts
  BY DEF Init, Whereabouts, Resting
<1> QED BY <1>1, EndsInit DEF IInv

LEMMA InvStep == IInv /\ [Next]_vars => IInv'
<1> SUFFICES ASSUME IInv, [Next]_vars PROVE IInv'
  OBVIOUS
<1>1. CASE Next
  <2>1. EndsOK'
    BY <1>1, EndsStep DEF IInv
  <2>2. ~broken' => Whereabouts'
    BY <1>1, StaysBroken, WholeStep DEF IInv
  <2> QED BY <2>1, <2>2 DEF IInv
<1>2. CASE UNCHANGED vars
  BY <1>2 DEF IInv, EndsOK, ClientOK, HandlerOK, Whereabouts, Resting, Serving, Requesting,
              Answering, Whole, vars
<1> QED BY <1>1, <1>2

\* The streams hold bytes, and neither end is in a state of its own making.
THEOREM FramingType == Spec => []EndsOK
<1>1. IInv => EndsOK
  BY DEF IInv
<1> QED BY <1>1, InvInit, InvStep, PTL DEF Spec

\* Between two calls nothing is left on a connection that has not broken
\* (message-private.c:32-56, network_client.c:57-110).
THEOREM ConnectionInStep == Spec => []InStep
<1>1. IInv => InStep
  BY DEF IInv, InStep, Whereabouts, Resting, Serving, Requesting, Answering
<1> QED BY <1>1, InvInit, InvStep, PTL DEF Spec

\* Until it breaks, a connection is the one of Rpc: a request is served once and
\* as it was sent, and a call returns with its own response
\* (network_client.c:57-110, network_server.c:143-211).
THEOREM ConnectionIsRpc == Spec => ImplementsRpc
<1>1. Init => Promise!Init
  BY DEF Init, Promise!Init, ClientIsGone, ServerIsGone
<1>2. IInv /\ [Next]_vars => [Promise!Next]_(Promise!vars)
  <2> SUFFICES ASSUME IInv, [Next]_vars, ~broken'
               PROVE  [Promise!Next]_(Promise!vars)
    BY DEF Promise!Next
  <2>1. CASE Next
    <3>1. ~broken /\ EndsOK /\ Whereabouts /\ Whereabouts'
      BY <2>1, StaysBroken, WholeStep DEF IInv
    <3>2. /\ client.pc # "ended" /\ server.pc # "gone"
          /\ client'.pc # "ended" /\ server'.pc # "gone"
      BY <3>1 DEF Whereabouts, Resting, Serving, Requesting, Answering
    <3>3. (ClientIsGone \/ ServerIsGone)' = (ClientIsGone \/ ServerIsGone) /\ broken' = broken
      <4>1. /\ ~(ClientIsGone \/ ServerIsGone)
            /\ ~(ClientIsGone \/ ServerIsGone)'
        BY <3>2 DEF ClientIsGone, ServerIsGone
      <4>2. broken = FALSE /\ broken' = FALSE
        <5>1. broken \in BOOLEAN /\ broken' \in BOOLEAN
          BY <2>1, <3>1, EndsStep DEF EndsOK
        <5> QED BY <3>1, <5>1
      <4> QED BY <4>1, <4>2
    <3>4. client.calls \in Nat /\ server.served \in Nat /\ returned \in Nat
      BY <3>1 DEF EndsOK, ClientOK, HandlerOK
    <3>5. CASE SendLength
      <4>1. client.calls = returned /\ client'.calls = client.calls + 1
            /\ server' = server /\ returned' = returned
        BY <3>1, <3>5, SendLengthWhole
      <4>2. Promise!Ask
        BY <3>3, <4>1 DEF Promise!Ask
      <4> QED BY <3>3, <4>2 DEF Promise!Next
    <3>6. CASE ReceiveRequest
      <4>1. client' = client /\ returned' = returned
            /\ server.served + 1 = client.calls /\ server'.served = server.served + 1
        BY <3>1, <3>6, ReceiveRequestWhole
      <4>2. Promise!Serve
        BY <3>3, <3>4, <4>1 DEF Promise!Serve
      <4> QED BY <3>3, <4>2 DEF Promise!Next
    <3>7. CASE ReadResponse
      <4>1. client'.calls = client.calls /\ server' = server
            /\ server.served = returned + 1 /\ returned' = returned + 1
        BY <3>1, <3>7, ReadResponseWhole
      <4>2. Promise!Return
        BY <3>3, <3>4, <4>1 DEF Promise!Return
      <4> QED BY <3>3, <4>2 DEF Promise!Next
    <3>8. CASE SendBody \/ ReadLength \/ ReceiveLength \/ AnswerLength \/ AnswerBody
      <4>1. client'.calls = client.calls /\ server'.served = server.served
            /\ returned' = returned
        BY <3>1, <3>8, SendBodyWhole, ReadLengthWhole, ReceiveLengthWhole,
           AnswerLengthWhole, AnswerBodyWhole
      <4> QED BY <3>3, <4>1 DEF Promise!vars
    <3> QED BY <2>1, <3>5, <3>6, <3>7, <3>8 DEF Next, network_send_receive, client_handler
  <2>2. CASE UNCHANGED vars
    BY <2>2 DEF vars, Promise!vars, ClientIsGone, ServerIsGone
  <2> QED BY <2>1, <2>2
<1> QED BY <1>1, <1>2, InvInit, InvStep, PTL DEF Spec, ImplementsRpc, Promise!Spec
=============================================================================
