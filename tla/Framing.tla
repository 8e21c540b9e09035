------------------------------ MODULE Framing -------------------------------
(***************************************************************************)
(* Messages over a stream of bytes (sockets.h): send_json, auto_send and   *)
(* send_n at one end, recv_json and recv_n at the other, for a connection  *)
(* in one direction.                                                       *)
(*                                                                         *)
(* A message is its length and its text.  A call of send or recv moves at  *)
(* least one byte and at most what is asked for, what the buffer of the    *)
(* connection has room for, and what it holds.  The text is moved by       *)
(* loops; the length by one call at each end, which only looks whether it  *)
(* failed.  A length of which some bytes are missing may be any number:    *)
(* they are those of an uninitialized variable, or of the text.            *)
(*                                                                         *)
(* A text parses if it is the whole text of one message, and no text is    *)
(* shorter than a length: the objects of the programs have more than the   *)
(* four bytes.                                                             *)
(***************************************************************************)
EXTENDS Naturals, Sequences, FiniteSetsExt

CONSTANTS Message,      \* JSON objects that are sent
          TextLength,   \* the number of bytes of the text of each
          HeaderLength, \* the number of bytes of a length
          Lengths,      \* what a length may be that was not moved whole
          Capacity,     \* bound: bytes on the way
          SendLimit     \* bound: messages that are sent

ASSUME LengthsAssumption == /\ TextLength \in [Message -> Nat \ {0}]
                            /\ HeaderLength \in Nat \ {0}
                            /\ \A m \in Message : TextLength[m] >= HeaderLength
                            /\ Lengths \subseteq Nat
                            /\ Capacity \in Nat \ {0}
                            /\ SendLimit \in Nat

VARIABLES sent,       \* the messages send_json was called with
          received,   \* the messages recv_json has returned
          wire,       \* the bytes on the way
          sender,     \* where send_json is, and how much of the text has gone
          receiver,   \* where recv_json is, its length and its buffer
          whole       \* every length was moved by one call at each end

vars == <<sent, received, wire, sender, receiver, whole>>

Byte(part, m, i) == [part |-> part, message |-> m, at |-> i]
Header(m) == [i \in 1 .. HeaderLength |-> Byte("length", m, i)]
Text(m) == [i \in 1 .. TextLength[m] |-> Byte("text", m, i)]

Idle == [pc |-> "idle", gone |-> 0]
Waiting == [pc |-> "length", len |-> 0, buf |-> <<>>]
Sends(pc) == sender.pc = pc
Receives(pc) == receiver.pc = pc
Gone == {"closed", "eof", "garbled"}

\* A call moves the first bytes, up to n of them.
Takes(n) == 1 .. Min({n, Len(wire)})
Puts(n) == 1 .. Min({n, Capacity - Len(wire)})
Put(bytes) == wire' = wire \o bytes
Take(n) == wire' = SubSeq(wire, n + 1, Len(wire))

Init == /\ sent = <<>>
        /\ received = <<>>
        /\ wire = <<>>
        /\ sender = Idle
        /\ receiver = Waiting
        /\ whole = TRUE

-----------------------------------------------------------------------------
(* send_json *)

\* The length goes first.
SendLength(m) ==
  /\ Sends("idle")
  /\ receiver.pc \notin Gone
  /\ Len(sent) < SendLimit
  /\ \E n \in Puts(HeaderLength) :
       /\ Put(SubSeq(Header(m), 1, n))
       /\ whole' = (whole /\ n = HeaderLength)
  /\ sent' = Append(sent, m)
  /\ sender' = [pc |-> "text", gone |-> 0]
  /\ UNCHANGED <<received, receiver>>

Sending == sent[Len(sent)]

\* Fault: every call sends from the start of the buffer.
SendFromStart ==
  /\ Sends("text")
  /\ receiver.pc \notin Gone
  /\ \E n \in Puts(TextLength[Sending] - sender.gone) :
       /\ Put(SubSeq(Text(Sending), 1, n))
       /\ sender' = IF sender.gone + n = TextLength[Sending] THEN Idle
                    ELSE [sender EXCEPT !.gone = @ + n]
  /\ UNCHANGED <<sent, received, receiver, whole>>

\* send_n.
SendText ==
  /\ Sends("text")
  /\ receiver.pc \notin Gone
  /\ \E n \in Puts(TextLength[Sending] - sender.gone) :
       /\ Put(SubSeq(Text(Sending), sender.gone + 1, sender.gone + n))
       /\ sender' = IF sender.gone + n = TextLength[Sending] THEN Idle
                    ELSE [sender EXCEPT !.gone = @ + n]
  /\ UNCHANGED <<sent, received, receiver, whole>>

\* Nobody reads any more: send fails, and the exception or the signal ends it.
SendFails == /\ Sends("text")
             /\ receiver.pc \in Gone
             /\ sender' = [sender EXCEPT !.pc = "closed"]
             /\ UNCHANGED <<sent, received, wire, receiver, whole>>

\* The sender closes, or is ended in the middle of a message.
SenderEnds == /\ ~Sends("closed")
              /\ sender' = [sender EXCEPT !.pc = "closed"]
              /\ UNCHANGED <<sent, received, wire, receiver, whole>>

-----------------------------------------------------------------------------
(* recv_json *)

\* The length, or as many bytes of it as there are.  A length that is too big
\* for a text, or negative, makes resize throw.
RecvLength ==
  /\ Receives("length")
  /\ \E n \in Takes(HeaderLength) :
       /\ Take(n)
       /\ whole' = (whole /\ n = HeaderLength)
       /\ \/ \E m \in Message :
               /\ SubSeq(wire, 1, n) = Header(m)
               /\ receiver' = [pc |-> "text", len |-> TextLength[m], buf |-> <<>>]
          \/ /\ \A m \in Message : SubSeq(wire, 1, n) # Header(m)
             /\ \/ \E k \in Lengths :
                     receiver' = [pc |-> "text", len |-> k, buf |-> <<>>]
                \/ receiver' = [receiver EXCEPT !.pc = "garbled"]
  /\ UNCHANGED <<sent, received, sender>>

Missing == receiver.len - Len(receiver.buf)

\* Fault: what one call gives is taken for the text.
RecvOnce ==
  /\ Receives("text")
  /\ Missing > 0
  /\ \E n \in Takes(Missing) :
       /\ Take(n)
       /\ receiver' = [receiver EXCEPT !.len = n, !.buf = SubSeq(wire, 1, n)]
  /\ UNCHANGED <<sent, received, sender, whole>>

\* Fault: every call asks for the whole text.
RecvBeyond ==
  /\ Receives("text")
  /\ Missing > 0
  /\ \E n \in Takes(receiver.len) :
       /\ Take(n)
       /\ receiver' = [receiver EXCEPT !.buf = @ \o SubSeq(wire, 1, n)]
  /\ UNCHANGED <<sent, received, sender, whole>>

\* recv_n.
RecvText ==
  /\ Receives("text")
  /\ Missing > 0
  /\ \E n \in Takes(Missing) :
       /\ Take(n)
       /\ receiver' = [receiver EXCEPT !.buf = @ \o SubSeq(wire, 1, n)]
  /\ UNCHANGED <<sent, received, sender, whole>>

\* Fault: the length and the text are kept for the next call.
ParseKeeping ==
  /\ Receives("text")
  /\ Missing = 0
  /\ \E m \in Message :
       /\ receiver.buf = Text(m)
       /\ received' = Append(received, m)
  /\ UNCHANGED <<sent, wire, sender, receiver, whole>>

\* The text is there, and is parsed.
Parse ==
  /\ Receives("text")
  /\ Missing = 0
  /\ \/ \E m \in Message :
          /\ receiver.buf = Text(m)
          /\ received' = Append(received, m)
          /\ receiver' = Waiting
     \/ /\ \A m \in Message : receiver.buf # Text(m)
        /\ receiver' = [receiver EXCEPT !.pc = "garbled"]
        /\ UNCHANGED received
  /\ UNCHANGED <<sent, wire, sender, whole>>

\* Fault: a call that returns no byte is tried again.
RecvEofOnlyFirst ==
  /\ Receives("length")
  /\ wire = <<>>
  /\ Sends("closed")
  /\ receiver' = [receiver EXCEPT !.pc = "eof"]
  /\ UNCHANGED <<sent, received, wire, sender, whole>>

\* Nothing will come: recv returns 0, which both calls take for an error.
RecvEof ==
  /\ Receives("length") \/ (Receives("text") /\ Missing > 0)
  /\ wire = <<>>
  /\ Sends("closed")
  /\ receiver' = [receiver EXCEPT !.pc = "eof"]
  /\ UNCHANGED <<sent, received, wire, sender, whole>>

\* The receiver closes, or is ended.
ReceiverEnds == /\ receiver.pc \notin Gone
                /\ receiver' = [receiver EXCEPT !.pc = "closed"]
                /\ UNCHANGED <<sent, received, wire, sender, whole>>

Receive == RecvLength \/ RecvText \/ Parse \/ RecvEof

Next == \/ \E m \in Message : SendLength(m)
        \/ SendText \/ SendFails \/ SenderEnds
        \/ Receive \/ ReceiverEnds

\* A message that was begun is sent to its end, and the receiver reads on: the
\* programs call recv_json until they close.
Fairness == WF_vars(SendText) /\ WF_vars(Receive)

Spec == Init /\ [][Next]_vars /\ Fairness

-----------------------------------------------------------------------------
(* Properties *)

Bytes == UNION {{Header(m)[i] : i \in DOMAIN Header(m)} \cup
                {Text(m)[i] : i \in DOMAIN Text(m)} : m \in Message}

TypeOK == /\ sent \in Seq(Message) /\ Len(sent) <= SendLimit
          /\ received \in Seq(Message)
          /\ wire \in Seq(Bytes) /\ Len(wire) <= Capacity
          /\ sender \in [pc : {"idle", "text", "closed"}, gone : Nat]
          /\ Sends("text") => sent # <<>> /\ sender.gone < TextLength[Sending]
          /\ receiver \in [pc : {"length", "text"} \cup Gone, len : Nat,
                          buf : Seq(Bytes)]
          /\ Len(receiver.buf) <= receiver.len
          /\ whole \in BOOLEAN

\* Whatever the calls move, and whoever ends in the middle of a message, what
\* recv_json returns are the messages that were sent, in their order: half a
\* message, or the end of one and the start of the next, is never returned,
\* even after a length that was not moved whole.
Promise == INSTANCE Channel
ImplementsChannel == Promise!ChannelSpec

\* As long as lengths are moved whole, no text is cut in the wrong place.
WholeNeverGarbled == whole => ~Receives("garbled")

\* Then every message is received, unless one of the two ends.
AllReceived ==
  []whole =>
    \A i \in 1 .. SendLimit :
      Len(sent) >= i ~> \/ Len(received) >= i
                        \/ Sends("closed") \/ Receives("closed")

\* Who waits in recv_json does not wait for a sender that is gone, whatever
\* length it believes in.
ReceiveEnds == Sends("closed") ~> receiver.pc \in Gone
=============================================================================
