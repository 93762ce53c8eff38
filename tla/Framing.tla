------------------------------- MODULE Framing ------------------------------
(***************************************************************************)
(* One connection, byte by byte: network_send_receive (network_client.c),  *)
(* network_receive and network_send (network_server.c), read_all and       *)
(* write_all (message-private.c).                                          *)
(*                                                                         *)
(* A message is its length, in a short, and its bytes.  The length is cut  *)
(* to the width of a short, so a long message has a negative length or one *)
(* that is too small.  read_all returns after the first read that is not   *)
(* full, and whoever reads what was not the start of a message takes it    *)
(* for a length.  The connection has broken as soon as one of these two    *)
(* things has happened; until then it implements Rpc.tla.                  *)
(*                                                                         *)
(* What a byte says is left out: a byte is the number of its message and   *)
(* its place in it, the two bytes of the length having the places -1 and   *)
(* 0.  What protocol buffers make of bytes that are not one whole message, *)
(* and what a short holds that is not a whole length, is any of the        *)
(* possible values.  Two threads on one connection are in Chain.tla.       *)
(***************************************************************************)
EXTENDS Integers, Sequences, FiniteSetsExt

CONSTANTS MaxCalls,  \* bound: calls of the client
          Size,      \* packed sizes of messages
          Half       \* half the number of values of a short

ASSUME FramingAssumption ==
    MaxCalls \in Nat /\ Size \subseteq Nat \ {0} /\ Half \in Nat \ {0}

VARIABLES up, down,  \* the bytes on their way to the server, to the client
          client,    \* the client: where it is, a number it has read or writes, its calls
          server,    \* the handler: where it is, a number, requests served
          returned,  \* history: calls that have returned with their own response
          broken     \* history: a read was not full, or a length was cut

vars == <<up, down, client, server, returned, broken>>

\* The value of a short to which n is assigned, and all values.
Short(n) == ((n + Half) % (2 * Half)) - Half
Shorts == -Half .. Half - 1

\* A stream is a sequence of bytes.  The two bytes of the length come first.
Byte(m, i, size) == [message |-> m, place |-> i, size |-> size]
Length(m, size) == <<Byte(m, -1, size), Byte(m, 0, size)>>
Body(m, n, size) == [i \in 1 .. n |-> Byte(m, i, size)]

Init ==
    /\ up = <<>> /\ down = <<>>
    /\ client = [pc |-> "idle", size |-> 0, calls |-> 0]
    /\ server = [pc |-> "receive", size |-> 0, message |-> 0, served |-> 0]
    /\ returned = 0
    /\ broken = FALSE

-----------------------------------------------------------------------------
(* Reading and writing.                                                    *)

Begin(stream, n) == SubSeq(stream, 1, n)
Rest(stream, n) == SubSeq(stream, n + 1, Len(stream))

\* read for n bytes returns some of those there are.
Reads(stream, n) == 1 .. (IF n < Len(stream) THEN n ELSE Len(stream))

\* What a short may hold after a read of b bytes into it.
Numbers(stream, b) ==
    IF Begin(stream, b) = Length(stream[1].message, stream[1].size)
    THEN {Short(stream[1].size)} ELSE Shorts

\* A read of b bytes has found the bytes of message m, all of them.
IsMessage(stream, b, m) == b = stream[1].size /\ Begin(stream, b) = Body(m, b, b)

\* read_all returns with b bytes of n.
Breaks(b, n) == broken' = (broken \/ b < n)

\* A fault: the terminator of a string is written too.
WriteBody_terminated(stream, m, size) == stream \o Body(m, Max({0, Short(size)}) + 1, size)

\* A fault: the last byte is taken for a terminator and not written.
WriteBody_cut(stream, m, size) == stream \o Body(m, Max({1, Short(size)}) - 1, size)

\* write_all of the bytes of a message, as many as its short says.
WriteBody(stream, m, size) == stream \o Body(m, Max({0, Short(size)}), size)

-----------------------------------------------------------------------------
(* The client (network_send_receive).                                      *)

ClientGoes(pc, size) == client' = [client EXCEPT !.pc = pc, !.size = size]
ServerIsGone == server.pc = "gone"

\* The length of the request is written.
SendLength ==
    /\ client.pc = "idle"
    /\ client.calls < MaxCalls
    /\ \E size \in Size :
          /\ up' = up \o Length(client.calls + 1, size)
          /\ client' = [pc |-> "send", size |-> size, calls |-> client.calls + 1]
          /\ broken' = (broken \/ Short(size) # size)
    /\ UNCHANGED <<down, server, returned>>

SendBody ==
    /\ client.pc = "send"
    /\ up' = WriteBody(up, client.calls, client.size)
    /\ ClientGoes("length", 0)
    /\ UNCHANGED <<down, server, returned, broken>>

\* The length of the response is read; at the end of the stream the short keeps
\* what it held.
ReadLength ==
    /\ client.pc = "length"
    /\ \/ \E b \in Reads(down, 2) :
             /\ \E num \in Numbers(down, b) : ClientGoes("read", num)
             /\ down' = Rest(down, b)
             /\ Breaks(b, 2)
       \/ /\ down = <<>> /\ ServerIsGone
          /\ \E num \in Shorts : ClientGoes("read", num)
          /\ UNCHANGED <<down, broken>>
    /\ UNCHANGED <<up, server, returned>>

\* The response is read; less than its length is an error.  A length of 0 is
\* an empty message, for a negative one there is no memory.
ReadResponse ==
    /\ client.pc = "read"
    /\ \/ \E b \in Reads(down, client.size) :
             /\ down' = Rest(down, b)
             /\ Breaks(b, client.size)
             /\ \/ /\ b = client.size /\ IsMessage(down, b, client.calls)
                   /\ ClientGoes("idle", 0)
                   /\ returned' = returned + 1
                \/ /\ b = client.size /\ ~IsMessage(down, b, client.calls)
                   /\ ClientGoes("idle", 0) \/ ClientGoes("ended", 0)
                   /\ UNCHANGED returned
                \/ /\ b < client.size
                   /\ ClientGoes("ended", 0)
                   /\ UNCHANGED returned
       \/ /\ client.size = 0
          /\ ClientGoes("idle", 0)
          /\ UNCHANGED <<down, returned, broken>>
       \/ /\ client.size < 0 \/ (client.size > 0 /\ down = <<>> /\ ServerIsGone)
          /\ ClientGoes("ended", 0)
          /\ UNCHANGED <<down, returned, broken>>
    /\ UNCHANGED <<up, server>>

network_send_receive == SendLength \/ SendBody \/ ReadLength \/ ReadResponse

-----------------------------------------------------------------------------
(* The handler (client_handler).                                           *)

ServerGoes(pc, size, m) == server' = [server EXCEPT !.pc = pc, !.size = size, !.message = m]
ClientIsGone == client.pc = "ended"

ReceiveLength ==
    /\ server.pc = "receive"
    /\ \/ \E b \in Reads(up, 2) :
             /\ \E num \in Numbers(up, b) : ServerGoes("request", num, 0)
             /\ up' = Rest(up, b)
             /\ Breaks(b, 2)
       \/ /\ up = <<>> /\ ClientIsGone
          /\ ServerGoes("gone", 0, 0)
          /\ UNCHANGED <<up, broken>>
    /\ UNCHANGED <<down, client, returned>>

\* The request is read, and whatever there is of it unpacked.  A length of 0 or
\* less ends the thread.
ReceiveRequest ==
    /\ server.pc = "request"
    /\ \/ \E b \in Reads(up, server.size) :
             /\ up' = Rest(up, b)
             /\ Breaks(b, server.size)
             /\ \/ /\ IsMessage(up, b, server.served + 1)
                   /\ server' = [server EXCEPT !.pc = "length", !.served = @ + 1,
                                              !.message = server.served + 1]
                \/ /\ ~IsMessage(up, b, server.served + 1)
                   /\ ServerGoes("gone", 0, 0) \/ ServerGoes("length", 0, 0)
       \/ /\ server.size <= 0 \/ (up = <<>> /\ ClientIsGone)
          /\ ServerGoes("gone", 0, 0)
          /\ UNCHANGED <<up, broken>>
    /\ UNCHANGED <<down, client, returned>>

\* network_send: the length is written before the buffer is allocated, for which
\* a negative length leaves no memory; a buffer that is too small may end the
\* process.
AnswerLength ==
    /\ server.pc = "length"
    /\ \E size \in Size :
          /\ down' = down \o Length(server.message, size)
          /\ broken' = (broken \/ Short(size) # size)
          /\ \/ Short(size) < 0 /\ ServerGoes("receive", 0, 0)
             \/ Short(size) >= 0 /\ ServerGoes("answer", size, server.message)
             \/ Short(size) >= 0 /\ Short(size) < size /\ ServerGoes("gone", 0, 0)
    /\ UNCHANGED <<up, client, returned>>

AnswerBody ==
    /\ server.pc = "answer"
    /\ down' = WriteBody(down, server.message, server.size)
    /\ ServerGoes("receive", 0, 0)
    /\ UNCHANGED <<up, client, returned, broken>>

client_handler == ReceiveLength \/ ReceiveRequest \/ AnswerLength \/ AnswerBody

-----------------------------------------------------------------------------

Next == network_send_receive \/ client_handler

Spec == Init /\ [][Next]_vars

\* The client, in a call, and the handler are scheduled; the client need not call.
FairSpec ==
    /\ Spec
    /\ WF_vars(SendBody \/ ReadLength \/ ReadResponse)
    /\ WF_vars(client_handler)
-----------------------------------------------------------------------------
(* Properties.                                                             *)

\* A connection implements Rpc: until it breaks, a request is served as it was
\* sent and once, a call returns with the response to its own request, and
\* neither end gives up (network_client.c:57, network_server.c:166, :186).
Promise == INSTANCE Rpc WITH
    asked <- client.calls, served <- server.served, returned <- returned,
    failed <- ClientIsGone \/ ServerIsGone, broken <- broken

ImplementsRpc == Promise!Spec

\* Between two calls of a connection that has not broken no byte is left over
\* for the next message (read_all, message-private.c:32), and the handler waits
\* for a length.
InStep ==
    ~broken /\ client.pc = "idle" => up = <<>> /\ down = <<>> /\ server.pc = "receive"

\* A call ends, unless the connection breaks: neither end waits for bytes that
\* the other one does not write (read_all, message-private.c:38).
CallEnds == client.pc # "idle" ~> (client.pc = "idle" \/ broken)
=============================================================================
