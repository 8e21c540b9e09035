---------------------------- MODULE FramingProofs ----------------------------
(***************************************************************************)
(* What send_json and recv_json keep true, for all messages, lengths of    *)
(* texts and of lengths, and every capacity of the connection: proofs      *)
(* about module Framing.                                                   *)
(*                                                                         *)
(* The argument follows the stream of all bytes that were ever sent.  As   *)
(* long as the receiver is in step, it stands between two messages of the  *)
(* stream or in the text of the next one, and what it holds is the         *)
(* beginning of that text.  A length that was not moved whole can get it   *)
(* out of step, and then it is lost: it fills a buffer that does not begin *)
(* where a text begins, or is not as long as that text, and that will not  *)
(* parse.                                                                  *)
(***************************************************************************)
EXTENDS Framing, TLAPS, SequenceTheorems

USE LengthsAssumption

-----------------------------------------------------------------------------
(* The inductive invariant *)

\* Message j begins behind byte b[j] of the stream, and h[j] bytes of its
\* length were sent.
Layout(b, h) ==
  /\ h \in [1 .. Len(sent) -> 1 .. HeaderLength]
  /\ b \in [1 .. Len(sent) + 1 -> Nat]
  /\ \A j \in 1 .. Len(sent) : b[j + 1] = b[j] + h[j] + TextLength[sent[j]]
  /\ \A j, k \in 1 .. Len(sent) + 1 : j < k => b[j + 1] <= b[k]
  /\ whole => \A j \in 1 .. Len(sent) : h[j] = HeaderLength

\* On the way are the bytes behind the first c.
OnTheWay(b, h, c) ==
  \A i \in 1 .. Len(wire), j \in 1 .. Len(sent) :
    /\ b[j] < c + i /\ c + i <= b[j] + h[j] =>
         wire[i] = Byte("length", sent[j], (c + i) - b[j])
    /\ b[j] + h[j] < c + i /\ c + i <= b[j + 1] =>
         wire[i] = Byte("text", sent[j], (c + i) - (b[j] + h[j]))

\* The sender is where the stream ends.
SenderAt(b, h, end) ==
  /\ end <= b[Len(sent) + 1]
  /\ Sends("idle") => end = b[Len(sent) + 1]
  /\ Sends("text") => end = b[Len(sent)] + h[Len(sent)] + sender.gone

Stream(b, h, c) == /\ Layout(b, h)
                   /\ c \in Nat
                   /\ OnTheWay(b, h, c)
                   /\ SenderAt(b, h, c + Len(wire))

\* The receiver is between two messages, or in the text of the next.
Upcoming == Len(received) + 1
ReceiverAt(b, h, c) ==
  \/ Receives("length") /\ c = b[Upcoming]
  \/ /\ Receives("text")
     /\ Upcoming <= Len(sent)
     /\ receiver.len = TextLength[sent[Upcoming]]
     /\ \A i \in 1 .. Len(receiver.buf) :
          receiver.buf[i] = Byte("text", sent[Upcoming], i)
     /\ c = b[Upcoming] + h[Upcoming] + Len(receiver.buf)

InStep == \E b, h, c : Stream(b, h, c) /\ ReceiverAt(b, h, c)

\* A buffer that begins with x will not be the text of a message.
Wrong(x) == x.part # "text" \/ x.at # 1 \/ receiver.len # TextLength[x.message]
Lost ==
  /\ Receives("text")
  /\ ~whole
  /\ \/ receiver.len = 0
     \/ receiver.buf # <<>> /\ Wrong(receiver.buf[1])
     \/ receiver.buf = <<>> /\ wire # <<>> /\ Wrong(wire[1])
     \/ /\ receiver.buf = <<>> /\ wire = <<>>
        /\ ~Sends("idle")
        /\ Sends("text") =>
             sender.gone > 0 \/ receiver.len # TextLength[Sending]

InOrder == /\ Len(received) <= Len(sent)
           /\ \A i \in 1 .. Len(received) : received[i] = sent[i]

FrameInv == /\ TypeOK
            /\ InOrder
            /\ WholeNeverGarbled
            /\ receiver.pc \in {"length", "text"} => InStep \/ Lost

-----------------------------------------------------------------------------
(* Bytes and calls *)

LEMMA MinPair ==
  ASSUME NEW i \in Int, NEW j \in Int
  PROVE  Min({i, j}) = IF i <= j THEN i ELSE j
<1> DEFINE k == IF i <= j THEN i ELSE j
<1>1. k \in {i, j} /\ \A y \in {i, j} : k =< y
  OBVIOUS
<1>2. \A x \in {i, j} : (\A y \in {i, j} : x =< y) => x = k
  OBVIOUS
<1> QED
  BY <1>1, <1>2 DEF Min

LEMMA ByteTypes ==
  /\ \A m \in Message : \A i \in 1 .. HeaderLength :
       Header(m)[i] = Byte("length", m, i) /\ Byte("length", m, i) \in Bytes
  /\ \A m \in Message : \A i \in 1 .. TextLength[m] :
       Text(m)[i] = Byte("text", m, i) /\ Byte("text", m, i) \in Bytes
  /\ \A x \in Bytes : /\ x.part \in {"length", "text"}
                      /\ x.message \in Message
                      /\ x.at \in Nat \ {0}
<1>1. ASSUME NEW m \in Message
      PROVE  /\ DOMAIN Header(m) = 1 .. HeaderLength
             /\ DOMAIN Text(m) = 1 .. TextLength[m]
             /\ \A i \in 1 .. HeaderLength : Header(m)[i] = Byte("length", m, i)
             /\ \A i \in 1 .. TextLength[m] : Text(m)[i] = Byte("text", m, i)
  BY DEF Header, Text
<1>2. ASSUME NEW m \in Message
      PROVE  /\ {Header(m)[i] : i \in DOMAIN Header(m)} \subseteq Bytes
             /\ {Text(m)[i] : i \in DOMAIN Text(m)} \subseteq Bytes
  BY DEF Bytes
<1>3. ASSUME NEW x \in Bytes
      PROVE  \E m \in Message : \/ \E i \in 1 .. HeaderLength : x = Byte("length", m, i)
                                \/ \E i \in 1 .. TextLength[m] : x = Byte("text", m, i)
  <2>1. PICK m \in Message : \/ x \in {Header(m)[i] : i \in DOMAIN Header(m)}
                             \/ x \in {Text(m)[i] : i \in DOMAIN Text(m)}
    BY DEF Bytes
  <2> QED
    BY <2>1, <1>1
<1>4. \A m \in Message : \A i : /\ Byte("length", m, i).part = "length"
                                /\ Byte("length", m, i).message = m
                                /\ Byte("length", m, i).at = i
                                /\ Byte("text", m, i).part = "text"
                                /\ Byte("text", m, i).message = m
                                /\ Byte("text", m, i).at = i
  BY DEF Byte
<1>5. \A m \in Message : TextLength[m] \in Nat \ {0}
  OBVIOUS
<1> QED
  BY <1>1, <1>2, <1>3, <1>4, <1>5

\* What a call may take or put.
LEMMA CallBounds ==
  ASSUME TypeOK, NEW k \in Nat
  PROVE  /\ \A n \in Takes(k) : n \in Nat /\ 1 <= n /\ n <= k /\ n <= Len(wire)
         /\ \A n \in Puts(k) :
              n \in Nat /\ 1 <= n /\ n <= k /\ Len(wire) + n <= Capacity
<1>1. Len(wire) \in Nat
  BY LenProperties DEF TypeOK
<1>2. /\ Min({k, Len(wire)}) \in Int
      /\ Min({k, Len(wire)}) <= k
      /\ Min({k, Len(wire)}) <= Len(wire)
  BY <1>1, MinPair
<1>3. /\ Min({k, Capacity - Len(wire)}) \in Int
      /\ Min({k, Capacity - Len(wire)}) <= k
      /\ Min({k, Capacity - Len(wire)}) <= Capacity - Len(wire)
  BY <1>1, MinPair
<1> QED
  BY <1>1, <1>2, <1>3 DEF Takes, Puts

LEMMA Taken ==
  ASSUME TypeOK, NEW n \in Nat, n <= Len(wire), Take(n)
  PROVE  /\ wire' \in Seq(Bytes)
         /\ Len(wire') = Len(wire) - n
         /\ \A i \in 1 .. Len(wire') : wire'[i] = wire[n + i]
         /\ SubSeq(wire, 1, n) \in Seq(Bytes)
         /\ Len(SubSeq(wire, 1, n)) = n
         /\ \A i \in 1 .. n : SubSeq(wire, 1, n)[i] = wire[i]
<1>1. /\ Len(wire) \in Nat
      /\ \A i \in 1 .. Len(wire) : wire[i] \in Bytes
  BY LenProperties, ElementOfSeq DEF TypeOK
<1>2. /\ wire' \in Seq(Bytes)
      /\ Len(wire') = IF n + 1 <= Len(wire) THEN Len(wire) - (n + 1) + 1 ELSE 0
      /\ \A i \in 1 .. Len(wire) - (n + 1) + 1 : wire'[i] = wire[(n + 1) + i - 1]
  <2>1. \A i \in n + 1 .. Len(wire) : wire[i] \in Bytes
    BY <1>1
  <2> QED
    BY <1>1, <2>1, SubSeqProperties DEF Take
<1>3. /\ SubSeq(wire, 1, n) \in Seq(Bytes)
      /\ Len(SubSeq(wire, 1, n)) = IF 1 <= n THEN n - 1 + 1 ELSE 0
      /\ \A i \in 1 .. n - 1 + 1 : SubSeq(wire, 1, n)[i] = wire[1 + i - 1]
  <2>1. \A i \in 1 .. n : wire[i] \in Bytes
    BY <1>1
  <2> QED
    BY <2>1, SubSeqProperties
<1>4. Len(wire') = Len(wire) - n
  BY <1>1, <1>2
<1>5. \A i \in 1 .. Len(wire') : wire'[i] = wire[n + i]
  BY <1>1, <1>2, <1>4
<1>6. Len(SubSeq(wire, 1, n)) = n
  BY <1>3
<1>7. \A i \in 1 .. n : SubSeq(wire, 1, n)[i] = wire[i]
  BY <1>3
<1> QED
  BY <1>2, <1>3, <1>4, <1>5, <1>6, <1>7

LEMMA PutBytes ==
  ASSUME TypeOK, NEW bytes \in Seq(Bytes), Put(bytes)
  PROVE  /\ wire' \in Seq(Bytes)
         /\ Len(wire') = Len(wire) + Len(bytes)
         /\ \A i \in 1 .. Len(wire) : wire'[i] = wire[i]
         /\ \A i \in 1 .. Len(bytes) : wire'[Len(wire) + i] = bytes[i]
<1>1. wire \in Seq(Bytes) /\ Len(wire) \in Nat /\ Len(bytes) \in Nat
  BY LenProperties DEF TypeOK
<1>2. /\ wire' \in Seq(Bytes)
      /\ Len(wire') = Len(wire) + Len(bytes)
      /\ \A i \in 1 .. Len(wire) + Len(bytes) :
           wire'[i] = IF i <= Len(wire) THEN wire[i] ELSE bytes[i - Len(wire)]
  BY <1>1, ConcatProperties DEF Put
<1>3. ASSUME NEW i \in 1 .. Len(bytes)
      PROVE  wire'[Len(wire) + i] = bytes[i]
  <2>1. /\ Len(wire) + i \in 1 .. Len(wire) + Len(bytes)
        /\ ~(Len(wire) + i <= Len(wire))
        /\ Len(wire) + i - Len(wire) = i
    BY <1>1
  <2> QED
    BY <1>2, <2>1
<1>4. \A i \in 1 .. Len(wire) : wire'[i] = wire[i]
  BY <1>1, <1>2
<1> QED
  BY <1>2, <1>3, <1>4

LEMMA Joined ==
  ASSUME NEW x \in Seq(Bytes), NEW y \in Seq(Bytes), NEW z, z = x \o y,
         NEW r \in Nat, r = Len(x), NEW n \in Nat, n = Len(y)
  PROVE  /\ z \in Seq(Bytes)
         /\ Len(z) = r + n
         /\ \A i \in 1 .. r + n : z[i] = IF i <= r THEN x[i] ELSE y[i - r]
BY ConcatProperties

\* The pieces of messages that are sent.
LEMMA Pieces ==
  ASSUME NEW m \in Message
  PROVE  /\ \A n \in 0 .. HeaderLength :
              /\ SubSeq(Header(m), 1, n) \in Seq(Bytes)
              /\ Len(SubSeq(Header(m), 1, n)) = n
              /\ \A i \in 1 .. n : SubSeq(Header(m), 1, n)[i] = Byte("length", m, i)
         /\ \A g \in 0 .. TextLength[m] : \A n \in 0 .. TextLength[m] - g :
              /\ SubSeq(Text(m), g + 1, g + n) \in Seq(Bytes)
              /\ Len(SubSeq(Text(m), g + 1, g + n)) = n
              /\ \A i \in 1 .. n :
                   SubSeq(Text(m), g + 1, g + n)[i] = Byte("text", m, g + i)
<1>1. ASSUME NEW n \in 0 .. HeaderLength
      PROVE  /\ SubSeq(Header(m), 1, n) \in Seq(Bytes)
             /\ Len(SubSeq(Header(m), 1, n)) = n
             /\ \A i \in 1 .. n : SubSeq(Header(m), 1, n)[i] = Byte("length", m, i)
  <2>1. \A i \in 1 .. n : Header(m)[i] = Byte("length", m, i) /\ Header(m)[i] \in Bytes
    BY ByteTypes
  <2>2. /\ SubSeq(Header(m), 1, n) \in Seq(Bytes)
        /\ Len(SubSeq(Header(m), 1, n)) = IF 1 <= n THEN n - 1 + 1 ELSE 0
        /\ \A i \in 1 .. n - 1 + 1 : SubSeq(Header(m), 1, n)[i] = Header(m)[1 + i - 1]
    BY <2>1, SubSeqProperties
  <2> QED
    BY <2>1, <2>2
<1>2. ASSUME NEW g \in 0 .. TextLength[m], NEW n \in 0 .. TextLength[m] - g
      PROVE  /\ SubSeq(Text(m), g + 1, g + n) \in Seq(Bytes)
             /\ Len(SubSeq(Text(m), g + 1, g + n)) = n
             /\ \A i \in 1 .. n :
                  SubSeq(Text(m), g + 1, g + n)[i] = Byte("text", m, g + i)
  <2>1. \A i \in g + 1 .. g + n :
          Text(m)[i] = Byte("text", m, i) /\ Text(m)[i] \in Bytes
    BY ByteTypes
  <2>2. /\ SubSeq(Text(m), g + 1, g + n) \in Seq(Bytes)
        /\ Len(SubSeq(Text(m), g + 1, g + n)) =
             IF g + 1 <= g + n THEN g + n - (g + 1) + 1 ELSE 0
        /\ \A i \in 1 .. g + n - (g + 1) + 1 :
             SubSeq(Text(m), g + 1, g + n)[i] = Text(m)[g + 1 + i - 1]
    BY <2>1, SubSeqProperties
  <2> QED
    BY <2>1, <2>2
<1> QED
  BY <1>1, <1>2

-----------------------------------------------------------------------------
(* Types *)

LEMMA Ends ==
  ASSUME TypeOK
  PROVE  /\ Len(sent) \in Nat /\ Len(received) \in Nat /\ Len(wire) \in Nat
         /\ sender.pc \in {"idle", "text", "closed"} /\ sender.gone \in Nat
         /\ Sends("text") => /\ Len(sent) >= 1
                            /\ Sending \in Message
                            /\ Sending = sent[Len(sent)]
                            /\ sender.gone < TextLength[Sending]
         /\ receiver.pc \in {"length", "text", "closed", "eof", "garbled"}
         /\ receiver.len \in Nat
         /\ receiver.buf \in Seq(Bytes)
         /\ Len(receiver.buf) \in Nat
         /\ Missing \in Nat
         /\ Missing = receiver.len - Len(receiver.buf)
<1>1. Len(sent) \in Nat /\ Len(received) \in Nat /\ Len(wire) \in Nat
  BY LenProperties DEF TypeOK
<1>2. sender.pc \in {"idle", "text", "closed"} /\ sender.gone \in Nat
  BY DEF TypeOK
<1>3. ASSUME Sends("text")
      PROVE  /\ Len(sent) >= 1
             /\ Sending \in Message
             /\ Sending = sent[Len(sent)]
             /\ sender.gone < TextLength[Sending]
  <2>1. sent \in Seq(Message) /\ sent # <<>> /\ sender.gone < TextLength[Sending]
    BY <1>3 DEF TypeOK
  <2>2. Len(sent) >= 1
    BY <2>1, EmptySeq
  <2>3. sent[Len(sent)] \in Message
    BY <1>1, <2>1, <2>2, ElementOfSeq
  <2> QED
    BY <2>1, <2>2, <2>3 DEF Sending
<1>4. /\ receiver.pc \in {"length", "text", "closed", "eof", "garbled"}
      /\ receiver.len \in Nat
      /\ receiver.buf \in Seq(Bytes)
  BY DEF TypeOK, Gone
<1>5. Len(receiver.buf) \in Nat /\ Len(receiver.buf) <= receiver.len
  BY <1>4, LenProperties DEF TypeOK
<1> QED
  BY <1>1, <1>2, <1>3, <1>4, <1>5 DEF Missing

LEMMA Sent ==
  ASSUME TypeOK, NEW m \in Message, sent' = Append(sent, m)
  PROVE  /\ sent' \in Seq(Message)
         /\ Len(sent') = Len(sent) + 1
         /\ \A j \in 1 .. Len(sent) : sent'[j] = sent[j]
         /\ sent'[Len(sent) + 1] = m
         /\ sent' # <<>>
<1>1. sent \in Seq(Message)
  BY DEF TypeOK
<1>2. /\ Append(sent, m) \in Seq(Message)
      /\ Append(sent, m) # << >>
      /\ Len(Append(sent, m)) = Len(sent) + 1
      /\ \A i \in 1 .. Len(sent) : Append(sent, m)[i] = sent[i]
      /\ Append(sent, m)[Len(sent) + 1] = m
  BY <1>1, AppendProperties
<1> QED
  BY <1>2

LEMMA Received ==
  ASSUME TypeOK, NEW m \in Message, received' = Append(received, m)
  PROVE  /\ received' \in Seq(Message)
         /\ Len(received') = Len(received) + 1
         /\ \A j \in 1 .. Len(received) : received'[j] = received[j]
         /\ received'[Len(received) + 1] = m
BY Ends, AppendProperties DEF TypeOK

\* What SendText puts on the way.
LEMMA Rest ==
  ASSUME TypeOK, Sends("text"),
         NEW n \in Puts(TextLength[Sending] - sender.gone)
  PROVE  /\ n \in Nat \ {0}
         /\ sender.gone + n <= TextLength[Sending]
         /\ Len(wire) + n <= Capacity
         /\ SubSeq(Text(Sending), sender.gone + 1, sender.gone + n) \in Seq(Bytes)
         /\ Len(SubSeq(Text(Sending), sender.gone + 1, sender.gone + n)) = n
         /\ \A i \in 1 .. n :
              SubSeq(Text(Sending), sender.gone + 1, sender.gone + n)[i]
                = Byte("text", Sending, sender.gone + i)
<1>1. /\ Sending \in Message
      /\ sender.gone \in Nat
      /\ TextLength[Sending] \in Nat
      /\ TextLength[Sending] - sender.gone \in Nat
  BY Ends
<1>2. n \in Nat /\ 1 <= n /\ n <= TextLength[Sending] - sender.gone
      /\ Len(wire) + n <= Capacity
  BY <1>1, CallBounds
<1>3. /\ sender.gone \in 0 .. TextLength[Sending]
      /\ n \in 0 .. TextLength[Sending] - sender.gone
      /\ n \in Nat \ {0}
      /\ sender.gone + n <= TextLength[Sending]
  BY <1>1, <1>2
<1>4. /\ SubSeq(Text(Sending), sender.gone + 1, sender.gone + n) \in Seq(Bytes)
      /\ Len(SubSeq(Text(Sending), sender.gone + 1, sender.gone + n)) = n
      /\ \A i \in 1 .. n :
           SubSeq(Text(Sending), sender.gone + 1, sender.gone + n)[i]
             = Byte("text", Sending, sender.gone + i)
  BY <1>1, <1>3, Pieces
<1> QED
  BY <1>2, <1>3, <1>4

LEMMA TypeStep ==
  ASSUME TypeOK, [Next]_vars
  PROVE  TypeOK'
<1>1. ASSUME NEW m \in Message, SendLength(m)
      PROVE  TypeOK'
  <2>1. PICK n \in Puts(HeaderLength) :
          /\ Put(SubSeq(Header(m), 1, n))
          /\ whole' = (whole /\ n = HeaderLength)
    BY <1>1 DEF SendLength
  <2>2. n \in 0 .. HeaderLength /\ Len(wire) + n <= Capacity
    BY CallBounds, Ends
  <2>3. wire' \in Seq(Bytes) /\ Len(wire') <= Capacity
    <3>1. /\ SubSeq(Header(m), 1, n) \in Seq(Bytes)
          /\ Len(SubSeq(Header(m), 1, n)) = n
      BY <2>2, Pieces
    <3>2. wire' \in Seq(Bytes) /\ Len(wire') = Len(wire) + n
      BY <2>1, <3>1, PutBytes
    <3> QED
      BY <2>2, <3>2
  <2>4. /\ sent' \in Seq(Message) /\ Len(sent') = Len(sent) + 1
        /\ sent' # <<>> /\ sent'[Len(sent')] = m
        /\ Len(sent') <= SendLimit
    BY <1>1, Sent, Ends DEF SendLength
  <2>5. /\ sender' = [pc |-> "text", gone |-> 0]
        /\ UNCHANGED <<received, receiver>>
    BY <1>1 DEF SendLength
  <2>6. 0 < TextLength[m]
    OBVIOUS
  <2> QED
    BY <2>1, <2>3, <2>4, <2>5, <2>6 DEF TypeOK, Sends, Sending
<1>2. CASE SendText
  <2>1. Sends("text") /\ UNCHANGED <<sent, received, receiver, whole>>
    BY <1>2 DEF SendText
  <2>2. PICK n \in Puts(TextLength[Sending] - sender.gone) :
          /\ Put(SubSeq(Text(Sending), sender.gone + 1, sender.gone + n))
          /\ sender' = IF sender.gone + n = TextLength[Sending] THEN Idle
                       ELSE [sender EXCEPT !.gone = @ + n]
    BY <1>2 DEF SendText
  <2>3. wire' \in Seq(Bytes) /\ Len(wire') <= Capacity
    <3> DEFINE rest == SubSeq(Text(Sending), sender.gone + 1, sender.gone + n)
    <3>1. rest \in Seq(Bytes) /\ Len(rest) = n /\ Len(wire) + n <= Capacity
      BY <2>1, Rest
    <3>2. wire' \in Seq(Bytes) /\ Len(wire') = Len(wire) + Len(rest)
      BY <2>2, <3>1, PutBytes
    <3> QED
      BY <3>1, <3>2
  <2>4. /\ sender' \in [pc : {"idle", "text", "closed"}, gone : Nat]
        /\ Sends("text")' => sent # <<>> /\ sender'.gone < TextLength[Sending]
    <3>1. n \in Nat /\ sender.gone + n <= TextLength[Sending] /\ sender.gone \in Nat
          /\ TextLength[Sending] \in Nat
      BY <2>1, Rest, Ends
    <3>2. CASE sender.gone + n = TextLength[Sending]
      BY <2>2, <3>2 DEF Idle, Sends
    <3>3. CASE sender.gone + n # TextLength[Sending]
      <4>1. sender' = [sender EXCEPT !.gone = @ + n]
        BY <2>2, <3>3
      <4>2. /\ sender \in [pc : {"idle", "text", "closed"}, gone : Nat]
            /\ sent # <<>>
        BY <2>1 DEF TypeOK
      <4>3. PICK k \in Nat : k = sender.gone + n /\ k < TextLength[Sending]
        BY <3>1, <3>3
      <4>4. sender' = [pc |-> sender.pc, gone |-> k]
        BY <4>1, <4>2, <4>3
      <4>5. sender.pc \in {"idle", "text", "closed"}
        BY <4>2
      <4> QED
        BY <4>2, <4>3, <4>4, <4>5
    <3> QED
      BY <3>2, <3>3
  <2> QED
    BY <2>1, <2>3, <2>4 DEF TypeOK, Sends, Sending
<1>3. CASE SendFails \/ SenderEnds
  <2>1. /\ UNCHANGED <<sent, received, wire, receiver, whole>>
        /\ sender' = [sender EXCEPT !.pc = "closed"]
    BY <1>3 DEF SendFails, SenderEnds
  <2>2. sender' \in [pc : {"idle", "text", "closed"}, gone : Nat] /\ ~Sends("text")'
    BY <2>1 DEF TypeOK, Sends
  <2> QED
    BY <2>1, <2>2 DEF TypeOK, Sends
<1>4. CASE RecvLength
  <2>1. UNCHANGED <<sent, received, sender>> /\ Receives("length")
    BY <1>4 DEF RecvLength
  <2>2. PICK n \in Takes(HeaderLength) :
          /\ Take(n)
          /\ whole' = (whole /\ n = HeaderLength)
          /\ \/ \E m \in Message :
                 receiver' = [pc |-> "text", len |-> TextLength[m], buf |-> <<>>]
             \/ \E k \in Lengths :
                 receiver' = [pc |-> "text", len |-> k, buf |-> <<>>]
             \/ receiver' = [receiver EXCEPT !.pc = "garbled"]
    BY <1>4 DEF RecvLength
  <2>3. wire' \in Seq(Bytes) /\ Len(wire') <= Capacity
    <3>1. n \in Nat /\ n <= Len(wire) /\ Len(wire) \in Nat /\ Len(wire) <= Capacity
      BY CallBounds, Ends DEF TypeOK
    <3>2. wire' \in Seq(Bytes) /\ Len(wire') = Len(wire) - n
      BY <2>2, <3>1, Taken
    <3> QED
      BY <3>1, <3>2
  <2>4. /\ receiver' \in [pc : {"length", "text"} \cup Gone, len : Nat,
                           buf : Seq(Bytes)]
        /\ Len(receiver'.buf) <= receiver'.len
    <3>1. <<>> \in Seq(Bytes) /\ Len(<<>>) = 0
      BY EmptySeq
    <3>2. ASSUME NEW k \in Nat, receiver' = [pc |-> "text", len |-> k, buf |-> <<>>]
          PROVE  /\ receiver' \in [pc : {"length", "text"} \cup Gone, len : Nat,
                                    buf : Seq(Bytes)]
                 /\ Len(receiver'.buf) <= receiver'.len
      BY <3>1, <3>2
    <3>3. CASE receiver' = [receiver EXCEPT !.pc = "garbled"]
      BY <3>3 DEF TypeOK, Gone
    <3> QED
      BY <2>2, <3>2, <3>3
  <2> QED
    BY <2>1, <2>2, <2>3, <2>4 DEF TypeOK, Sends, Sending
<1>5. CASE RecvText
  <2>1. UNCHANGED <<sent, received, sender, whole>>
    BY <1>5 DEF RecvText
  <2>2. PICK n \in Takes(Missing) :
          /\ Take(n)
          /\ receiver' = [receiver EXCEPT !.buf = @ \o SubSeq(wire, 1, n)]
    BY <1>5 DEF RecvText
  <2>3. /\ n \in Nat /\ n <= Missing /\ n <= Len(wire)
        /\ Len(wire) \in Nat /\ Len(wire) <= Capacity
    BY Ends, CallBounds DEF TypeOK
  <2>4. /\ wire' \in Seq(Bytes) /\ Len(wire') = Len(wire) - n
        /\ SubSeq(wire, 1, n) \in Seq(Bytes) /\ Len(SubSeq(wire, 1, n)) = n
    BY <2>2, <2>3, Taken
  <2>5. /\ receiver.buf \o SubSeq(wire, 1, n) \in Seq(Bytes)
        /\ Len(receiver.buf \o SubSeq(wire, 1, n)) = Len(receiver.buf) + n
    BY <2>4, Ends, ConcatProperties
  <2>6. Len(receiver.buf) + n <= receiver.len
    BY <2>3, Ends
  <2>7. /\ receiver' \in [pc : {"length", "text"} \cup Gone, len : Nat,
                           buf : Seq(Bytes)]
        /\ Len(receiver'.buf) <= receiver'.len
    BY <2>2, <2>5, <2>6 DEF TypeOK
  <2> QED
    BY <2>1, <2>3, <2>4, <2>7 DEF TypeOK, Sends, Sending
<1>6. CASE Parse
  <2>1. UNCHANGED <<sent, wire, sender, whole>>
    BY <1>6 DEF Parse
  <2>2. <<>> \in Seq(Bytes) /\ Len(<<>>) = 0
    BY EmptySeq
  <2>3. CASE \E m \in Message : received' = Append(received, m) /\ receiver' = Waiting
    <3>1. received' \in Seq(Message)
      BY <2>3, Received
    <3>2. /\ receiver' \in [pc : {"length", "text"} \cup Gone, len : Nat,
                             buf : Seq(Bytes)]
          /\ Len(receiver'.buf) <= receiver'.len
      BY <2>2, <2>3 DEF Waiting
    <3> QED
      BY <2>1, <3>1, <3>2 DEF TypeOK, Sends, Sending
  <2>4. CASE receiver' = [receiver EXCEPT !.pc = "garbled"] /\ UNCHANGED received
    BY <2>1, <2>4 DEF TypeOK, Sends, Sending, Gone
  <2> QED
    BY <1>6, <2>3, <2>4 DEF Parse
<1>7. CASE RecvEof \/ ReceiverEnds
  <2>1. /\ UNCHANGED <<sent, received, wire, sender, whole>>
        /\ \E pc \in Gone : receiver' = [receiver EXCEPT !.pc = pc]
    BY <1>7 DEF RecvEof, ReceiverEnds, Gone
  <2> QED
    BY <2>1 DEF TypeOK, Sends, Sending
<1>8. CASE UNCHANGED vars
  BY <1>8 DEF TypeOK, vars, Sends, Sending
<1> QED
  BY <1>1, <1>2, <1>3, <1>4, <1>5, <1>6, <1>7, <1>8 DEF Next, Receive

-----------------------------------------------------------------------------
(* The stream *)

LEMMA Layouts ==
  ASSUME TypeOK, NEW b, NEW h, Layout(b, h)
  PROVE  /\ \A j \in 1 .. Len(sent) :
              /\ sent[j] \in Message
              /\ TextLength[sent[j]] \in Nat
              /\ TextLength[sent[j]] >= HeaderLength
              /\ h[j] \in Nat /\ 1 <= h[j] /\ h[j] <= HeaderLength
              /\ b[j] \in Nat
              /\ b[j + 1] \in Nat
              /\ b[j + 1] = b[j] + h[j] + TextLength[sent[j]]
              /\ b[j + 1] <= b[Len(sent) + 1]
              /\ \A k \in 1 .. Len(sent) : j < k => b[j + 1] <= b[k]
         /\ b[Len(sent) + 1] \in Nat
<1>1. Len(sent) \in Nat /\ sent \in Seq(Message)
  BY Ends DEF TypeOK
<1>2. \A j \in 1 .. Len(sent) : sent[j] \in Message
  BY <1>1, ElementOfSeq
<1>3. /\ h \in [1 .. Len(sent) -> 1 .. HeaderLength]
      /\ b \in [1 .. Len(sent) + 1 -> Nat]
      /\ \A j \in 1 .. Len(sent) : b[j + 1] = b[j] + h[j] + TextLength[sent[j]]
      /\ \A j, k \in 1 .. Len(sent) + 1 : j < k => b[j + 1] <= b[k]
  BY DEF Layout
<1>4. ASSUME NEW j \in 1 .. Len(sent)
      PROVE  /\ TextLength[sent[j]] \in Nat
             /\ TextLength[sent[j]] >= HeaderLength
             /\ h[j] \in Nat /\ 1 <= h[j] /\ h[j] <= HeaderLength
             /\ b[j] \in Nat
             /\ b[j + 1] \in Nat
             /\ b[j + 1] <= b[Len(sent) + 1]
             /\ \A k \in 1 .. Len(sent) : j < k => b[j + 1] <= b[k]
  <2>1. /\ j \in 1 .. Len(sent) + 1 /\ j + 1 \in 1 .. Len(sent) + 1
        /\ Len(sent) + 1 \in 1 .. Len(sent) + 1 /\ j < Len(sent) + 1
        /\ \A k \in 1 .. Len(sent) : k \in 1 .. Len(sent) + 1
    BY <1>1
  <2>2. sent[j] \in Message
    BY <1>2
  <2>3. TextLength[sent[j]] \in Nat /\ TextLength[sent[j]] >= HeaderLength
    BY <2>2
  <2>4. h[j] \in 1 .. HeaderLength /\ b[j] \in Nat /\ b[j + 1] \in Nat
    BY <1>3, <2>1
  <2>5. b[j + 1] <= b[Len(sent) + 1]
    BY <1>3, <2>1
  <2>6. \A k \in 1 .. Len(sent) : j < k => b[j + 1] <= b[k]
    BY <1>3, <2>1
  <2> QED
    BY <2>3, <2>4, <2>5, <2>6
<1>5. b[Len(sent) + 1] \in Nat
  <2>1. Len(sent) + 1 \in 1 .. Len(sent) + 1
    BY <1>1
  <2> QED
    BY <1>3, <2>1
<1> QED
  BY <1>2, <1>3, <1>4, <1>5

\* A call of recv moves the receiver on, along the same stream.
LEMMA StreamTaken ==
  ASSUME TypeOK, TypeOK', NEW b, NEW h, NEW c, Stream(b, h, c),
         NEW n \in Nat, n <= Len(wire), Take(n),
         UNCHANGED <<sent, sender>>, whole' => whole
  PROVE  Stream(b, h, c + n)'
<1>0. PICK N \in Nat, w \in Nat : N = Len(sent) /\ w = Len(wire)
  BY Ends
<1>1. c \in Nat /\ c + n \in Nat /\ w - n \in Nat
  BY <1>0 DEF Stream
<1>2. /\ Len(wire') = w - n
      /\ \A i \in 1 .. w - n : wire'[i] = wire[n + i]
  BY <1>0, Taken
<1>3. Layout(b, h)'
  BY DEF Stream, Layout
<1>4. OnTheWay(b, h, c + n)'
  <2> SUFFICES ASSUME NEW i \in 1 .. w - n, NEW j \in 1 .. N
               PROVE  /\ b[j] < c + n + i /\ c + n + i <= b[j] + h[j] =>
                           wire'[i] = Byte("length", sent[j], (c + n + i) - b[j])
                      /\ b[j] + h[j] < c + n + i /\ c + n + i <= b[j + 1] =>
                           wire'[i] = Byte("text", sent[j], (c + n + i) - (b[j] + h[j]))
    BY <1>0, <1>2 DEF OnTheWay
  <2>1. PICK at \in Nat : at = n + i
    OBVIOUS
  <2>2. at \in 1 .. w /\ c + at = c + n + i
    BY <1>1, <2>1
  <2>3. /\ b[j] < c + at /\ c + at <= b[j] + h[j] =>
             wire[at] = Byte("length", sent[j], (c + at) - b[j])
        /\ b[j] + h[j] < c + at /\ c + at <= b[j + 1] =>
             wire[at] = Byte("text", sent[j], (c + at) - (b[j] + h[j]))
    BY <1>0, <2>2 DEF Stream, OnTheWay
  <2>4. wire'[i] = wire[at]
    BY <1>2, <2>1
  <2> QED
    BY <2>2, <2>3, <2>4
<1>5. SenderAt(b, h, c + n + Len(wire))'
  <2>1. c + n + Len(wire') = c + Len(wire)
    <3>1. c + n + (w - n) = c + w
      BY <1>1
    <3> QED
      BY <1>0, <1>2, <3>1
  <2>2. SenderAt(b, h, c + Len(wire))
    BY DEF Stream
  <2> QED
    BY <2>1, <2>2 DEF SenderAt, Sends
<1> QED
  BY <1>1, <1>3, <1>4, <1>5 DEF Stream

\* send_n adds the next bytes of the text of the last message.
LEMMA StreamText ==
  ASSUME TypeOK, TypeOK', NEW b, NEW h, NEW c, Stream(b, h, c), SendText
  PROVE  Stream(b, h, c)'
<1>1. Sends("text") /\ UNCHANGED <<sent, received, receiver, whole>>
  BY DEF SendText
<1> DEFINE Begun(n) == SubSeq(Text(Sending), sender.gone + 1, sender.gone + n)
<1>0. PICK N \in Nat, w \in Nat : N = Len(sent) /\ w = Len(wire)
  BY Ends
<1>3. /\ c \in Nat /\ N >= 1
      /\ sender.gone \in Nat /\ Sending = sent[N]
  BY <1>0, <1>1, Ends DEF Stream
<1>2. PICK n \in Nat \ {0} :
        /\ n \in Puts(TextLength[Sending] - sender.gone)
        /\ Put(Begun(n))
        /\ sender' = IF sender.gone + n = TextLength[Sending] THEN Idle
                     ELSE [sender EXCEPT !.gone = @ + n]
  BY <1>1, Rest DEF SendText
<1> DEFINE rest == Begun(n)
<1>4. /\ sender.gone + n <= TextLength[sent[N]]
      /\ rest \in Seq(Bytes) /\ Len(rest) = n
      /\ \A i \in 1 .. n : rest[i] = Byte("text", sent[N], sender.gone + i)
  BY <1>1, <1>2, <1>3, Rest
<1>5. /\ Len(wire') = w + n
      /\ \A i \in 1 .. w : wire'[i] = wire[i]
      /\ \A i \in 1 .. n : wire'[w + i] = rest[i]
  BY <1>0, <1>2, <1>4, PutBytes
<1>6. /\ c + w = b[N] + h[N] + sender.gone
      /\ Layout(b, h)
  BY <1>0, <1>1 DEF Stream, SenderAt
<1> HIDE DEF rest, Begun
<1>7. Layout(b, h)'
  BY <1>1, <1>6 DEF Layout
<1>8. OnTheWay(b, h, c)'
  <2> SUFFICES ASSUME NEW i \in 1 .. w + n, NEW j \in 1 .. N
               PROVE  /\ b[j] < c + i /\ c + i <= b[j] + h[j] =>
                           wire'[i] = Byte("length", sent[j], (c + i) - b[j])
                      /\ b[j] + h[j] < c + i /\ c + i <= b[j + 1] =>
                           wire'[i] = Byte("text", sent[j], (c + i) - (b[j] + h[j]))
    BY <1>0, <1>1, <1>5, ZenonT(40) DEF OnTheWay
  <2>1. CASE i <= w
    <3>1. i \in 1 .. w /\ wire'[i] = wire[i]
      BY <1>5, <2>1
    <3> QED
      BY <1>0, <3>1 DEF Stream, OnTheWay
  <2>2. CASE i > w
    <3>1. PICK k \in 1 .. n : i = w + k
      <4>1. i - w \in 1 .. n /\ i = w + (i - w)
        BY <2>2
      <4> QED
        BY <4>1
    <3>2. wire'[i] = Byte("text", sent[N], sender.gone + k)
      BY <1>4, <1>5, <3>1
    <3>4. /\ N \in 1 .. N /\ b[N] \in Nat /\ h[N] \in Nat
          /\ c \in Nat /\ i \in Nat /\ k \in Nat \ {0} /\ sender.gone \in Nat
      <4>1. N \in 1 .. N /\ i \in Nat /\ k \in Nat \ {0}
        BY <1>3, <3>1
      <4> QED
        BY <1>0, <1>3, <1>6, <4>1, Layouts
    <3>3. c + i = b[N] + h[N] + sender.gone + k
      BY <1>3, <1>6, <3>1, <3>4
    <3>5. CASE j = N
      <4>1. ~(c + i <= b[N] + h[N])
        BY <3>3, <3>4
      <4>2. (c + i) - (b[N] + h[N]) = sender.gone + k
        BY <3>3, <3>4
      <4> QED
        BY <3>2, <3>5, <4>1, <4>2
    <3>6. CASE j # N
      <4>1. /\ b[j + 1] <= b[N] /\ b[j + 1] \in Nat /\ b[j] \in Nat /\ h[j] \in Nat
            /\ b[j + 1] = b[j] + h[j] + TextLength[sent[j]]
            /\ TextLength[sent[j]] \in Nat
        <5>1. j < N
          BY <1>3, <3>6
        <5>2. /\ b[j + 1] \in Nat /\ b[j] \in Nat /\ h[j] \in Nat
              /\ b[j + 1] = b[j] + h[j] + TextLength[sent[j]]
              /\ TextLength[sent[j]] \in Nat
              /\ \A q \in 1 .. N : j < q => b[j + 1] <= b[q]
          BY <1>0, <1>6, Layouts
        <5> QED
          BY <3>4, <5>1, <5>2
      <4>2. c + i > b[j + 1] /\ c + i > b[j] + h[j]
        BY <3>3, <3>4, <4>1
      <4>3. ~(c + i <= b[j + 1]) /\ ~(c + i <= b[j] + h[j])
        BY <3>4, <4>1, <4>2
      <4> QED
        BY <4>3
    <3> QED
      BY <3>5, <3>6
  <2> QED
    BY <2>1, <2>2
<1>9. SenderAt(b, h, c + Len(wire))'
  <2>1. /\ b[N + 1] = b[N] + h[N] + TextLength[sent[N]]
        /\ b[N] \in Nat /\ h[N] \in Nat /\ TextLength[sent[N]] \in Nat
    <3>1. N \in 1 .. N
      BY <1>3
    <3> QED
      BY <1>0, <1>6, <3>1, Layouts
  <2>2. c + Len(wire') = b[N] + h[N] + sender.gone + n
    <3>1. c + (w + n) = b[N] + h[N] + sender.gone + n
      BY <1>3, <1>6, <2>1
    <3> QED
      BY <1>5, <3>1
  <2>3. /\ c + Len(wire') <= b[N + 1]
        /\ sender.gone + n = TextLength[sent[N]] => c + Len(wire') = b[N + 1]
    <3>1. n \in Nat /\ sender.gone \in Nat /\ sender.gone + n <= TextLength[sent[N]]
      BY <1>3, <1>4
    <3> DEFINE total == TextLength[sent[N]]
    <3>2. /\ \A x, y, g \in Nat : g + n <= total => x + y + g + n <= x + y + total
          /\ \A x, y, g \in Nat : g + n = total => x + y + g + n = x + y + total
      BY <2>1, <3>1
    <3> QED
      BY <2>1, <2>2, <3>1, <3>2, SMTT(30)
  <2>4. CASE sender.gone + n = TextLength[sent[N]]
    <3>1. sender'.pc = "idle" /\ c + Len(wire') = b[N + 1]
      BY <1>2, <1>3, <2>3, <2>4 DEF Idle
    <3> QED
      BY <1>0, <1>1, <2>3, <3>1 DEF SenderAt, Sends
  <2>5. CASE sender.gone + n # TextLength[sent[N]]
    <3>1. sender' = [sender EXCEPT !.gone = @ + n]
      BY <1>2, <1>3, <2>5
    <3>2. sender'.pc = "text" /\ sender'.gone = sender.gone + n
      BY <1>1, <3>1 DEF TypeOK, Sends
    <3>3. c + Len(wire') = b[N] + h[N] + sender'.gone
      <4>1. n \in Nat /\ sender.gone \in Nat
        BY <1>3, <1>4
      <4> QED
        BY <2>1, <2>2, <3>2, <4>1
    <3> QED
      BY <1>0, <1>1, <2>3, <3>2, <3>3 DEF SenderAt, Sends
  <2> QED
    BY <2>4, <2>5
<1> QED
  BY <1>3, <1>7, <1>8, <1>9 DEF Stream

\* The length of a message goes behind the stream, which has its end there.
LEMMA StreamLength ==
  ASSUME TypeOK, TypeOK', NEW b, NEW h, NEW c, Stream(b, h, c),
         NEW m \in Message, SendLength(m)
  PROVE  \E bb, hh :
           /\ Stream(bb, hh, c)'
           /\ \A j \in 1 .. Len(sent) : hh[j] = h[j]
           /\ \A j \in 1 .. Len(sent) + 1 : bb[j] = b[j]
<1>0. PICK N \in Nat, w \in Nat : N = Len(sent) /\ w = Len(wire)
  BY Ends
<1>1. /\ Sends("idle") /\ c \in Nat /\ Layout(b, h)
      /\ c + w = b[N + 1]
      /\ sent' = Append(sent, m)
      /\ sender' = [pc |-> "text", gone |-> 0]
  BY <1>0 DEF SendLength, Stream, SenderAt
<1>2. PICK n \in Nat :
        /\ n \in 1 .. HeaderLength
        /\ Put(SubSeq(Header(m), 1, n))
        /\ whole' = (whole /\ n = HeaderLength)
  <2>1. \A n \in Puts(HeaderLength) : n \in Nat /\ n \in 1 .. HeaderLength
    BY CallBounds
  <2> QED
    BY <2>1 DEF SendLength
<1> DEFINE head == SubSeq(Header(m), 1, n)
<1>3. /\ head \in Seq(Bytes) /\ Len(head) = n
      /\ \A i \in 1 .. n : head[i] = Byte("length", m, i)
  <2>1. n \in 0 .. HeaderLength
    BY <1>2
  <2> QED
    BY <2>1, Pieces
<1>4. /\ Len(wire') = w + n
      /\ \A i \in 1 .. w : wire'[i] = wire[i]
      /\ \A i \in 1 .. n : wire'[w + i] = head[i]
  BY <1>0, <1>2, <1>3, PutBytes
<1>5. /\ Len(sent') = N + 1
      /\ \A j \in 1 .. N : sent'[j] = sent[j]
      /\ sent'[N + 1] = m
  BY <1>0, <1>1, Sent
<1>6. PICK T \in Nat : T = TextLength[m]
  OBVIOUS
<1>7. PICK hh : hh = [j \in 1 .. N + 1 |-> IF j <= N THEN h[j] ELSE n]
  OBVIOUS
<1>8. PICK bb : bb = [j \in 1 .. N + 2 |-> IF j <= N + 1 THEN b[j]
                                          ELSE b[N + 1] + n + T]
  OBVIOUS
<1>9. /\ \A j \in 1 .. N : /\ hh[j] = h[j] /\ hh[j] \in Nat
                           /\ hh[j] \in 1 .. HeaderLength
                           /\ bb[j + 1] = bb[j] + hh[j] + TextLength[sent[j]]
                           /\ bb[j + 1] <= bb[N + 1]
      /\ hh[N + 1] = n
      /\ \A j \in 1 .. N + 1 : bb[j] = b[j] /\ bb[j] \in Nat
      /\ bb[N + 2] = bb[N + 1] + n + T
  <2>1. \A j \in 1 .. N : h[j] \in Nat /\ h[j] \in 1 .. HeaderLength
    BY <1>0, <1>1, SMTT(30) DEF Layout
  <2>2. \A j \in 1 .. N + 1 : b[j] \in Nat
    BY <1>0, <1>1 DEF Layout
  <2>3. \A j \in 1 .. N : b[j + 1] = b[j] + h[j] + TextLength[sent[j]]
    BY <1>0, <1>1 DEF Layout
  <2>4. \A j \in 1 .. N : b[j + 1] <= b[N + 1]
    BY <1>0, <1>1, Layouts
  <2>5. /\ \A j \in 1 .. N : j \in 1 .. N + 1 /\ j + 1 \in 1 .. N + 1
        /\ N + 1 \in 1 .. N + 1
    OBVIOUS
  <2>6. \A j \in 1 .. N : hh[j] = h[j]
    BY <1>7
  <2>7. hh[N + 1] = n
    BY <1>7
  <2>8. \A j \in 1 .. N + 1 : bb[j] = b[j]
    BY <1>8
  <2>9. bb[N + 2] = b[N + 1] + n + T
    BY <1>8
  <2> QED
    BY <2>1, <2>2, <2>3, <2>4, <2>5, <2>6, <2>7, <2>8, <2>9
<1> HIDE DEF head
<1>10. Layout(bb, hh)'
  <2>1. hh \in [1 .. N + 1 -> 1 .. HeaderLength]
    <3>1. ASSUME NEW j \in 1 .. N + 1
          PROVE  (IF j <= N THEN h[j] ELSE n) \in 1 .. HeaderLength
      <4>1. CASE j <= N
        <5>1. j \in 1 .. N
          BY <4>1
        <5> QED
          BY <1>9, <4>1, <5>1
      <4>2. CASE ~(j <= N)
        BY <1>2, <4>2
      <4> QED
        BY <4>1, <4>2
    <3> QED
      BY <1>7, <3>1
  <2>2. bb \in [1 .. N + 2 -> Nat]
    <3>1. ASSUME NEW j \in 1 .. N + 2
          PROVE  (IF j <= N + 1 THEN b[j] ELSE b[N + 1] + n + T) \in Nat
      <4>1. CASE j <= N + 1
        <5>1. j \in 1 .. N + 1
          BY <4>1
        <5> QED
          BY <1>9, <4>1, <5>1
      <4>2. CASE ~(j <= N + 1)
        <5>1. N + 1 \in 1 .. N + 1
          OBVIOUS
        <5>2. b[N + 1] \in Nat
          BY <1>9, <5>1
        <5> QED
          BY <4>2, <5>2
      <4> QED
        BY <4>1, <4>2
    <3> QED
      BY <1>8, <3>1
  <2>3. ASSUME NEW j \in 1 .. N + 1
        PROVE  bb[j + 1] = bb[j] + hh[j] + TextLength[sent'[j]]
    <3>1. CASE j = N + 1
      <4>1. j + 1 = N + 2
        BY <3>1
      <4> QED
        BY <1>5, <1>6, <1>9, <3>1, <4>1
    <3>2. CASE j # N + 1
      <4>1. j \in 1 .. N
        BY <3>2
      <4> QED
        BY <1>5, <1>9, <4>1
    <3> QED
      BY <3>1, <3>2
  <2>4. ASSUME NEW j \in 1 .. N + 2, NEW k \in 1 .. N + 2, j < k
        PROVE  bb[j + 1] <= bb[k]
    <3>1. CASE k = N + 2 /\ j = N + 1
      <4>1. j + 1 = N + 2 /\ N + 2 \in 1 .. N + 2
        BY <3>1
      <4>2. bb[N + 2] \in Nat
        BY <2>2, <4>1
      <4> QED
        BY <3>1, <4>1, <4>2
    <3>2. CASE k = N + 2 /\ j # N + 1
      <4>1. j \in 1 .. N /\ j + 1 \in 1 .. N + 1 /\ N + 1 \in 1 .. N + 1
        BY <2>4, <3>2
      <4>2. bb[j + 1] <= bb[N + 1] /\ bb[j + 1] \in Nat /\ bb[N + 1] \in Nat
        BY <1>9, <4>1
      <4> QED
        BY <1>9, <3>2, <4>2
    <3>3. CASE k # N + 2
      <4>1. /\ j \in 1 .. N + 1 /\ k \in 1 .. N + 1 /\ j + 1 \in 1 .. N + 1
        BY <2>4, <3>3
      <4>2. b[j + 1] <= b[k]
        BY <1>0, <1>1, <2>4, <4>1 DEF Layout
      <4> QED
        BY <1>9, <4>1, <4>2
    <3> QED
      BY <3>1, <3>2, <3>3
  <2>5. ASSUME whole', NEW j \in 1 .. N + 1
        PROVE  hh[j] = HeaderLength
    <3>1. whole /\ n = HeaderLength
      BY <1>2, <2>5
    <3>2. CASE j = N + 1
      BY <1>9, <3>1, <3>2
    <3>3. CASE j # N + 1
      <4>1. j \in 1 .. N
        BY <3>3
      <4> QED
        BY <1>0, <1>1, <1>9, <3>1, <4>1 DEF Layout
    <3> QED
      BY <3>2, <3>3
  <2>6. N + 1 + 1 = N + 2
    OBVIOUS
  <2> QED
    BY <1>5, <2>1, <2>2, <2>3, <2>4, <2>5, <2>6 DEF Layout
<1>11. OnTheWay(bb, hh, c)'
  <2> SUFFICES ASSUME NEW i \in 1 .. w + n, NEW j \in 1 .. N + 1
               PROVE  /\ bb[j] < c + i /\ c + i <= bb[j] + hh[j] =>
                           wire'[i] = Byte("length", sent'[j], (c + i) - bb[j])
                      /\ bb[j] + hh[j] < c + i /\ c + i <= bb[j + 1] =>
                           wire'[i] = Byte("text", sent'[j], (c + i) - (bb[j] + hh[j]))
    BY <1>4, <1>5 DEF OnTheWay
  <2>1. /\ c \in Nat /\ i \in Nat /\ bb[N + 1] \in Nat /\ c + w = bb[N + 1]
    BY <1>1, <1>9
  <2>2. CASE j = N + 1 /\ i <= w
    <3>1. ~(bb[j] < c + i) /\ ~(bb[j] + n < c + i)
      BY <2>1, <2>2
    <3> QED
      BY <1>9, <2>2, <3>1
  <2>3. CASE j = N + 1 /\ i > w
    <3>1. PICK k \in 1 .. n : i = w + k
      <4>1. i - w \in 1 .. n /\ i = w + (i - w)
        BY <2>3
      <4> QED
        BY <4>1
    <3>2. wire'[i] = Byte("length", m, k)
      BY <1>3, <1>4, <3>1
    <3>3. (c + i) - bb[N + 1] = k /\ ~(bb[N + 1] + n < c + i)
      BY <2>1, <3>1
    <3> QED
      BY <1>5, <1>9, <2>3, <3>2, <3>3
  <2>4. CASE j # N + 1
    <3>1. /\ j \in 1 .. N /\ bb[j] = b[j] /\ hh[j] = h[j] /\ bb[j + 1] = b[j + 1]
          /\ sent'[j] = sent[j]
          /\ bb[j] \in Nat /\ hh[j] \in Nat /\ bb[j + 1] \in Nat
          /\ bb[j + 1] <= bb[N + 1]
      <4>1. j \in 1 .. N /\ j \in 1 .. N + 1 /\ j + 1 \in 1 .. N + 1
        BY <2>4
      <4> QED
        BY <1>5, <1>9, <4>1
    <3>2. CASE i <= w
      <4>1. i \in 1 .. w /\ wire'[i] = wire[i]
        BY <1>4, <3>2
      <4> QED
        BY <1>0, <3>1, <4>1 DEF Stream, OnTheWay
    <3>3. CASE i > w
      <4>1. bb[j] + hh[j] <= bb[j + 1]
        <5>1. TextLength[sent[j]] \in Nat
          BY <1>0, <1>1, <3>1, Layouts
        <5>2. bb[j + 1] = bb[j] + hh[j] + TextLength[sent[j]]
          BY <1>9, <3>1
        <5> QED
          BY <3>1, <5>1, <5>2
      <4>2. c + i > bb[N + 1]
        BY <2>1, <3>3
      <4>3. ~(c + i <= bb[j + 1]) /\ ~(c + i <= bb[j] + hh[j])
        BY <2>1, <3>1, <4>1, <4>2
      <4> QED
        BY <4>3
    <3> QED
      BY <3>2, <3>3
  <2> QED
    BY <2>2, <2>3, <2>4
<1>12. SenderAt(bb, hh, c + Len(wire))'
  <2>1. N + 1 \in 1 .. N + 1 /\ N + 1 + 1 = N + 2
    OBVIOUS
  <2>2. bb[N + 1] \in Nat
    BY <1>9, <2>1
  <2>3. c + (w + n) = bb[N + 1] + n /\ bb[N + 1] + n + 0 = bb[N + 1] + n
    BY <1>1, <1>9, <2>1, <2>2
  <2>4. c + (w + n) <= bb[N + 2]
    BY <1>9, <2>2, <2>3
  <2> QED
    BY <1>1, <1>4, <1>5, <1>9, <2>1, <2>3, <2>4 DEF SenderAt, Sends
<1>13. Stream(bb, hh, c)'
  BY <1>1, <1>10, <1>11, <1>12 DEF Stream
<1> QED
  BY <1>0, <1>9, <1>13

-----------------------------------------------------------------------------
(* The receiver in the stream *)

\* In step, recv_json reads a length where a message begins.  If it is not
\* whole, the receiver may be out of step, and then it is lost.
LEMMA ReadLength ==
  ASSUME TypeOK, TypeOK', InOrder, InStep, RecvLength
  PROVE  /\ receiver'.pc \in {"text", "garbled"}
         /\ receiver'.pc = "garbled" => ~whole'
         /\ receiver'.pc = "text" => InStep' \/ Lost'
<1>0. PICK N \in Nat, w \in Nat, K \in Nat :
        N = Len(sent) /\ w = Len(wire) /\ K = Len(received) + 1
  BY Ends
<1>1. PICK b, h, c : Stream(b, h, c) /\ ReceiverAt(b, h, c)
  BY DEF InStep
<1>2. /\ Receives("length") /\ UNCHANGED <<sent, received, sender>>
      /\ c \in Nat /\ c = b[K] /\ c + w <= b[N + 1] /\ Layout(b, h)
  BY <1>0, <1>1 DEF RecvLength, Stream, SenderAt, ReceiverAt, Upcoming, Receives
<1>3. PICK n \in Nat :
        /\ 1 <= n /\ n <= HeaderLength /\ n <= w
        /\ Take(n)
        /\ whole' = (whole /\ n = HeaderLength)
        /\ \/ \E m \in Message :
                /\ SubSeq(wire, 1, n) = Header(m)
                /\ receiver' = [pc |-> "text", len |-> TextLength[m], buf |-> <<>>]
           \/ /\ \A m \in Message : SubSeq(wire, 1, n) # Header(m)
              /\ \/ \E k \in Lengths :
                      receiver' = [pc |-> "text", len |-> k, buf |-> <<>>]
                 \/ receiver' = [receiver EXCEPT !.pc = "garbled"]
  <2>1. \A n \in Takes(HeaderLength) : n \in Nat /\ 1 <= n /\ n <= HeaderLength /\ n <= w
    BY <1>0, CallBounds
  <2> QED
    BY <2>1 DEF RecvLength
<1>4. K \in 1 .. N /\ K >= 1
  <2>1. K >= 1 /\ K <= N + 1
    BY <1>0, Ends DEF InOrder
  <2>2. CASE K = N + 1
    <3>1. b[N + 1] \in Nat
      BY <1>0, <1>2, Layouts
    <3> QED
      BY <1>2, <1>3, <2>2, <3>1
  <2> QED
    BY <2>1, <2>2
<1>5. PICK T \in Nat, g \in Nat :
        /\ T = TextLength[sent[K]] /\ T >= HeaderLength
        /\ g = h[K] /\ 1 <= g /\ g <= HeaderLength
        /\ b[K] \in Nat /\ b[K + 1] = b[K] + g + T
        /\ b[K + 1] <= b[N + 1] /\ b[N + 1] \in Nat
        /\ sent[K] \in Message
        /\ \A k \in 1 .. N : K < k => b[K + 1] <= b[k]
        /\ \A k \in 1 .. N : b[k] \in Nat /\ h[k] \in Nat
        /\ whole => g = HeaderLength
  <2>1. TextLength[sent[K]] \in Nat /\ h[K] \in Nat
    BY <1>0, <1>2, <1>4, Layouts
  <2>2. /\ TextLength[sent[K]] >= HeaderLength
        /\ 1 <= h[K] /\ h[K] <= HeaderLength
        /\ b[K] \in Nat /\ b[K + 1] = b[K] + h[K] + TextLength[sent[K]]
        /\ b[K + 1] <= b[N + 1]
        /\ sent[K] \in Message
        /\ \A k \in 1 .. N : K < k => b[K + 1] <= b[k]
    BY <1>0, <1>2, <1>4, Layouts, ZenonT(60)
  <2>3. b[N + 1] \in Nat /\ \A k \in 1 .. N : b[k] \in Nat /\ h[k] \in Nat
    BY <1>0, <1>2, Layouts
  <2>4. whole => h[K] = HeaderLength
    BY <1>0, <1>2, <1>4 DEF Layout
  <2> QED
    BY <2>1, <2>2, <2>3, <2>4
<1>6. PICK p \in Nat, q \in Nat :
         /\ p = b[K] /\ q = b[K + 1] /\ q = p + g + T /\ c = p
         /\ 1 <= n /\ n <= T /\ n <= w /\ 1 <= g /\ g <= T
  <2>1. b[K] \in Nat /\ b[K] + g + T \in Nat
    BY <1>5
  <2>2. 1 <= n /\ n <= HeaderLength /\ n <= w
    BY <1>3
  <2>3. n <= T /\ g <= T /\ 1 <= g
    BY <1>5, <2>2
  <2> QED
    BY <1>2, <1>5, <2>1, <2>2, <2>3
\* The bytes of message K that are on the way.
<1>7. ASSUME NEW i \in 1 .. w
      PROVE  /\ i <= g => wire[i] = Byte("length", sent[K], i)
             /\ g < i /\ i <= g + T => wire[i] = Byte("text", sent[K], i - g)
  <2>1. /\ b[K] < c + i /\ c + i <= b[K] + g =>
             wire[i] = Byte("length", sent[K], (c + i) - b[K])
        /\ b[K] + g < c + i /\ c + i <= b[K + 1] =>
             wire[i] = Byte("text", sent[K], (c + i) - (b[K] + g))
    BY <1>0, <1>1, <1>4, <1>5 DEF Stream, OnTheWay
  <2>2. /\ b[K] < c + i
        /\ i <= g => c + i <= b[K] + g
        /\ g < i => b[K] + g < c + i
        /\ i <= g + T => c + i <= b[K + 1]
        /\ (c + i) - b[K] = i
        /\ (c + i) - (b[K] + g) = i - g
    BY <1>2, <1>5
  <2> QED
    BY <2>1, <2>2
<1>8. /\ Stream(b, h, c + n)'
      /\ Len(wire') = w - n
      /\ \A i \in 1 .. w - n : wire'[i] = wire[n + i]
      /\ Len(SubSeq(wire, 1, n)) = n
      /\ \A i \in 1 .. n : SubSeq(wire, 1, n)[i] = wire[i]
  BY <1>0, <1>1, <1>2, <1>3, StreamTaken, Taken, ZenonT(40)
<1>9. ASSUME n = HeaderLength, g = HeaderLength
       PROVE  SubSeq(wire, 1, n) = Header(sent[K])
  <2>1. \A i \in 1 .. n : i \in 1 .. w /\ i <= g
    BY <1>3, <1>9
  <2>2. \A i \in 1 .. n : SubSeq(wire, 1, n)[i] = Byte("length", sent[K], i)
    BY <1>7, <1>8, <2>1
  <2>3. SubSeq(wire, 1, n) \in Seq(Bytes)
    BY <1>0, <1>3, Taken
  <2>4. SubSeq(wire, 1, n) = [i \in 1 .. n |-> SubSeq(wire, 1, n)[i]]
    <3>1. SubSeq(wire, 1, n) \in [1 .. n -> Bytes]
      BY <1>8, <2>3, LenProperties
    <3> QED
      BY <3>1
  <2> QED
    BY <1>9, <2>2, <2>4 DEF Header
<1>10. ASSUME NEW k \in Nat,
             receiver' = [pc |-> "text", len |-> k, buf |-> <<>>]
      PROVE  InStep' \/ Lost'
  <2>0. /\ Receives("text")' /\ receiver'.len = k /\ receiver'.buf = <<>>
        /\ Len(receiver'.buf) = 0
    BY <1>10, EmptySeq DEF Receives
  <2>1. CASE n = g /\ k = T
    <3>1. c + n = b[K] + g + 0
      BY <1>2, <2>1, <1>5
    <3>2. ReceiverAt(b, h, c + n)'
      BY <1>0, <1>2, <1>4, <1>5, <2>0, <2>1, <3>1 DEF ReceiverAt, Upcoming
    <3> QED
      BY <1>8, <3>2 DEF InStep
  <2>2. CASE ~(n = g /\ k = T) /\ ~whole'
    <3>1. CASE w = n
      <4>1. wire' = <<>>
        BY <1>8, <3>1, EmptySeq DEF TypeOK
      <4>2. /\ Sends("idle") => c + w = b[N + 1]
            /\ Sends("text") => c + w = b[N] + h[N] + sender.gone
        BY <1>0, <1>1 DEF Stream, SenderAt
      <4>3. c + n < b[K + 1] /\ c + n = b[K] + n
        BY <1>6
      <4>4. ~Sends("idle")
        <5>1. b[K + 1] <= b[N + 1] /\ b[N + 1] \in Nat
          BY <1>5
        <5> QED
          BY <1>6, <3>1, <4>2, <4>3, <5>1
      <4>5. ASSUME Sends("text")
            PROVE  sender.gone > 0 \/ k # TextLength[Sending]
        <5>1. /\ sender.gone \in Nat /\ N \in 1 .. N /\ Sending = sent[N]
              /\ b[N] \in Nat /\ h[N] \in Nat
          BY <1>0, <1>4, <1>5, <4>5, Ends
        <5>2. K = N
          <6>1. SUFFICES ASSUME K < N PROVE FALSE
            BY <1>4
          <6>2. b[K + 1] <= b[N]
            BY <1>5, <5>1, <6>1
          <6>3. c + n >= b[N]
            BY <3>1, <4>2, <4>5, <5>1
          <6>4. b[K + 1] \in Nat
            BY <1>5
          <6> QED
            BY <1>2, <4>3, <5>1, <6>2, <6>3, <6>4
        <5>3. b[K] + n = b[K] + g + sender.gone
          BY <1>5, <3>1, <4>2, <4>3, <4>5, <5>2
        <5>4. n = g + sender.gone
          BY <1>5, <5>1, <5>3
        <5> QED
          BY <1>5, <2>2, <5>1, <5>2, <5>4
      <4> QED
        BY <1>2, <2>0, <2>2, <4>1, <4>4, <4>5 DEF Lost, Sends, Sending
    <3>2. CASE w # n
      <4>1. 1 \in 1 .. w - n /\ n + 1 \in 1 .. w
        BY <1>3, <3>2, SMTT(30)
      <4>2. wire' # <<>>
        BY <1>8, <3>2, EmptySeq
      <4>3. wire'[1] = wire[n + 1]
        BY <1>8, <4>1
      <4>4. CASE n < g
        <5>1. wire'[1] = Byte("length", sent[K], n + 1)
          BY <1>7, <4>1, <4>3, <4>4
        <5> QED
          BY <2>0, <2>2, <4>2, <5>1 DEF Lost, Wrong, Byte
      <4>5. CASE n >= g
        <5>1. g < n + 1 /\ n + 1 <= g + T
          BY <1>6, <4>5
        <5>2. wire'[1] = Byte("text", sent[K], (n + 1) - g)
          BY <1>7, <4>1, <4>3, <5>1
        <5>3. (n + 1) - g # 1 \/ k # T
          BY <2>2, <4>5
        <5> QED
          BY <1>5, <2>0, <2>2, <4>2, <5>2, <5>3 DEF Lost, Wrong, Byte
      <4> QED
        BY <4>4, <4>5
    <3> QED
      BY <3>1, <3>2
  <2>3. CASE whole' /\ ~(n = g /\ k = T)
    <3>1. n = HeaderLength /\ g = HeaderLength
      BY <1>3, <1>5, <2>3
    <3>2. SubSeq(wire, 1, n) = Header(sent[K])
      BY <1>9, <3>1
    <3>3. PICK m \in Message : SubSeq(wire, 1, n) = Header(m) /\ k = TextLength[m]
      BY <1>3, <1>5, <1>10, <3>2
    <3>4. m = sent[K]
      <4>1. 1 \in 1 .. HeaderLength /\ sent[K] \in Message
        BY <1>5
      <4>2. /\ Header(m)[1] = Byte("length", m, 1)
            /\ Header(sent[K])[1] = Byte("length", sent[K], 1)
        BY <4>1, ByteTypes
      <4>3. Header(m) = Header(sent[K])
        BY <3>2, <3>3
      <4> QED
        BY <4>2, <4>3 DEF Byte
    <3> QED
      BY <1>5, <2>3, <3>1, <3>3, <3>4
  <2> QED
    BY <2>1, <2>2, <2>3
<1>11. receiver'.pc = "garbled" => ~whole'
  <2> SUFFICES ASSUME receiver'.pc = "garbled", whole' PROVE FALSE
    OBVIOUS
  <2>1. n = HeaderLength /\ g = HeaderLength
    BY <1>3, <1>5
  <2>2. SubSeq(wire, 1, n) = Header(sent[K]) /\ sent[K] \in Message
    BY <1>5, <1>9, <2>1
  <2>3. \E m \in Message :
          receiver' = [pc |-> "text", len |-> TextLength[m], buf |-> <<>>]
    BY <1>3, <2>2
  <2> QED
    BY <2>3
<1>12. /\ receiver'.pc \in {"text", "garbled"}
       /\ receiver'.pc = "text" =>
            \E k \in Nat : receiver' = [pc |-> "text", len |-> k, buf |-> <<>>]
  <2>1. \A m \in Message : TextLength[m] \in Nat
    OBVIOUS
  <2>2. \/ \E k \in Nat : receiver' = [pc |-> "text", len |-> k, buf |-> <<>>]
        \/ receiver' = [receiver EXCEPT !.pc = "garbled"]
    BY <1>3, <2>1
  <2>3. receiver' = [receiver EXCEPT !.pc = "garbled"] => receiver'.pc = "garbled"
    BY DEF TypeOK
  <2> QED
    BY <2>2, <2>3
<1> QED
  BY <1>10, <1>11, <1>12

\* In step, recv_n reads on in the text of the next message.
LEMMA ReadText ==
  ASSUME TypeOK, TypeOK', InStep, RecvText
  PROVE  InStep'
<1>0. PICK w \in Nat, K \in Nat, r \in Nat :
        /\ w = Len(wire) /\ K = Len(received) + 1 /\ r = Len(receiver.buf)
  BY Ends
<1>1. PICK b, h, c : Stream(b, h, c) /\ ReceiverAt(b, h, c)
  BY DEF InStep
<1>2. /\ Receives("text") /\ UNCHANGED <<sent, received, sender, whole>>
      /\ c \in Nat /\ Layout(b, h)
      /\ K <= Len(sent) /\ receiver.len = TextLength[sent[K]]
      /\ \A i \in 1 .. r : receiver.buf[i] = Byte("text", sent[K], i)
      /\ c = b[K] + h[K] + r
  BY <1>0, <1>1 DEF RecvText, Stream, ReceiverAt, Upcoming, Receives
<1>3. PICK n \in Nat :
        /\ 1 <= n /\ n <= Missing /\ n <= w
        /\ Take(n)
        /\ receiver' = [receiver EXCEPT !.buf = @ \o SubSeq(wire, 1, n)]
  <2>1. \A n \in Takes(Missing) : n \in Nat /\ 1 <= n /\ n <= Missing /\ n <= w
    BY <1>0, CallBounds, Ends
  <2> QED
    BY <2>1 DEF RecvText
<1>4. PICK T \in Nat, e \in Nat :
        /\ T = TextLength[sent[K]] /\ r + n <= T
        /\ e = b[K] + h[K] /\ b[K + 1] = e + T /\ c = e + r
        /\ K \in 1 .. Len(sent)
  <2>1. K \in 1 .. Len(sent)
    BY <1>0, <1>2, Ends
  <2>2. /\ TextLength[sent[K]] \in Nat /\ b[K] \in Nat /\ h[K] \in Nat
        /\ b[K + 1] = b[K] + h[K] + TextLength[sent[K]]
    BY <1>2, <2>1, Layouts
  <2>3. Missing = TextLength[sent[K]] - r
    BY <1>0, <1>2, Ends
  <2>4. r + n <= TextLength[sent[K]]
    BY <1>3, <2>2, <2>3
  <2>5. b[K] + h[K] \in Nat
    BY <2>2
  <2> QED
    BY <1>2, <2>1, <2>2, <2>4, <2>5
<1>5. ASSUME NEW i \in 1 .. n
      PROVE  wire[i] = Byte("text", sent[K], r + i)
  <2>1. i \in 1 .. w /\ e < c + i /\ c + i <= e + T /\ (c + i) - e = r + i
    <3>1. n <= w /\ c = e + r /\ r + n <= T
      BY <1>3, <1>4
    <3> QED
      BY <3>1
  <2>2. b[K] + h[K] < c + i /\ c + i <= b[K + 1] =>
          wire[i] = Byte("text", sent[K], (c + i) - (b[K] + h[K]))
    BY <1>0, <1>1, <1>4, <2>1 DEF Stream, OnTheWay
  <2> QED
    BY <1>4, <2>1, <2>2
<1>6. /\ Stream(b, h, c + n)'
      /\ SubSeq(wire, 1, n) \in Seq(Bytes)
      /\ Len(SubSeq(wire, 1, n)) = n
      /\ \A i \in 1 .. n : SubSeq(wire, 1, n)[i] = wire[i]
  BY <1>0, <1>1, <1>2, <1>3, StreamTaken, Taken
<1> DEFINE bytes == SubSeq(wire, 1, n)
<1>7. /\ receiver'.pc = "text" /\ receiver'.len = T
      /\ receiver'.buf = receiver.buf \o bytes
  BY <1>2, <1>3, <1>4 DEF TypeOK, Receives
<1>8. /\ Len(receiver'.buf) = r + n
      /\ \A i \in 1 .. r + n :
           receiver'.buf[i] = IF i <= r THEN receiver.buf[i] ELSE bytes[i - r]
  <2>1. PICK x \in Seq(Bytes), y \in Seq(Bytes), z \in Seq(Bytes) :
          x = receiver.buf /\ y = bytes /\ z = receiver'.buf
    <3>1. receiver'.buf \in Seq(Bytes)
      BY DEF TypeOK
    <3> QED
      BY <1>6, <3>1, Ends
  <2>2. z = x \o y /\ r = Len(x) /\ n = Len(y)
    BY <1>0, <1>6, <1>7, <2>1
  <2>3. /\ z \in Seq(Bytes)
        /\ Len(z) = r + n
        /\ \A i \in 1 .. r + n : z[i] = IF i <= r THEN x[i] ELSE y[i - r]
    BY <2>2, Joined
  <2> QED
    BY <2>1, <2>3
<1>9. ASSUME NEW i \in 1 .. r + n
      PROVE  receiver'.buf[i] = Byte("text", sent[K], i)
  <2>1. CASE i <= r
    <3>1. i \in 1 .. r
      BY <2>1
    <3> QED
      BY <1>2, <1>8, <2>1, <3>1
  <2>2. CASE ~(i <= r)
    <3>1. i - r \in 1 .. n /\ r + (i - r) = i
      BY <2>2
    <3>2. receiver'.buf[i] = wire[i - r]
      BY <1>6, <1>8, <2>2, <3>1
    <3> QED
      BY <1>5, <3>1, <3>2
  <2> QED
    BY <2>1, <2>2
<1>10. c + n = b[K] + h[K] + (r + n)
  <2>1. c + n = e + (r + n)
    BY <1>4
  <2> QED
    BY <1>4, <2>1
<1>11. ReceiverAt(b, h, c + n)'
  BY <1>0, <1>2, <1>4, <1>7, <1>8, <1>9, <1>10 DEF ReceiverAt, Upcoming, Receives
<1> QED
  BY <1>6, <1>11 DEF InStep

\* In step, the text that was read is that of the next message.
LEMMA ReadMessage ==
  ASSUME TypeOK, TypeOK', InStep, Parse
  PROVE  /\ Len(received) < Len(sent)
         /\ received' = Append(received, sent[Len(received) + 1])
         /\ receiver' = Waiting
         /\ InStep'
<1>0. PICK K \in Nat : K = Len(received) + 1
  BY Ends
<1>1. PICK b, h, c : Stream(b, h, c) /\ ReceiverAt(b, h, c)
  BY DEF InStep
<1>2. /\ Receives("text") /\ UNCHANGED <<sent, wire, sender, whole>>
      /\ Missing = 0 /\ Layout(b, h)
      /\ K <= Len(sent) /\ receiver.len = TextLength[sent[K]]
      /\ \A i \in 1 .. Len(receiver.buf) : receiver.buf[i] = Byte("text", sent[K], i)
      /\ c = b[K] + h[K] + Len(receiver.buf)
  BY <1>0, <1>1 DEF Parse, Stream, ReceiverAt, Upcoming, Receives
<1>3. /\ K \in 1 .. Len(sent) /\ sent[K] \in Message
      /\ TextLength[sent[K]] \in Nat
      /\ b[K + 1] = b[K] + h[K] + TextLength[sent[K]]
  <2>1. K \in 1 .. Len(sent)
    BY <1>0, <1>2, Ends
  <2> QED
    BY <1>2, <2>1, Layouts
<1>4. Len(receiver.buf) = TextLength[sent[K]]
  BY <1>2, <1>3, Ends
<1>5. receiver.buf = Text(sent[K])
  <2>1. receiver.buf \in [1 .. TextLength[sent[K]] -> Bytes]
    BY <1>4, Ends, LenProperties
  <2>2. receiver.buf = [i \in 1 .. TextLength[sent[K]] |-> receiver.buf[i]]
    BY <2>1
  <2> QED
    BY <1>2, <1>4, <2>2 DEF Text
<1>6. PICK m \in Message : /\ receiver.buf = Text(m)
                           /\ received' = Append(received, m)
                           /\ receiver' = Waiting
  BY <1>3, <1>5 DEF Parse
<1>7. m = sent[K]
  <2>1. 1 \in 1 .. TextLength[m] /\ 1 \in 1 .. TextLength[sent[K]]
    BY <1>3
  <2>2. /\ Text(m)[1] = Byte("text", m, 1)
        /\ Text(sent[K])[1] = Byte("text", sent[K], 1)
    BY <1>3, <2>1, ByteTypes
  <2> QED
    BY <1>5, <1>6, <2>2 DEF Byte
<1>8. Len(received') = K
  BY <1>0, <1>6, Received
<1>9. Stream(b, h, c)'
  BY <1>1, <1>2 DEF Stream, Layout, OnTheWay, SenderAt, Sends
<1>10. ReceiverAt(b, h, c)'
  BY <1>2, <1>3, <1>4, <1>6, <1>8 DEF ReceiverAt, Upcoming, Receives, Waiting
<1>11. Len(received) < Len(sent)
  BY <1>0, <1>2, Ends
<1> QED
  BY <1>0, <1>6, <1>7, <1>9, <1>10, <1>11 DEF InStep

\* Who is lost stays lost, and parses nothing.
LEMMA StayLost ==
  ASSUME TypeOK, TypeOK', Lost, RecvText
  PROVE  Lost'
<1>1. /\ Receives("text") /\ ~whole /\ UNCHANGED <<sent, sender, whole>>
  BY DEF RecvText, Lost
<1>2. PICK n \in Nat :
        /\ 1 <= n /\ n <= Missing /\ n <= Len(wire)
        /\ Take(n)
        /\ receiver' = [receiver EXCEPT !.buf = @ \o SubSeq(wire, 1, n)]
  <2>1. \A n \in Takes(Missing) : n \in Nat /\ 1 <= n /\ n <= Missing /\ n <= Len(wire)
    BY CallBounds, Ends
  <2> QED
    BY <2>1 DEF RecvText
<1> DEFINE bytes == SubSeq(wire, 1, n)
<1>3. PICK r \in Nat : r = Len(receiver.buf)
  BY Ends
<1>4. /\ bytes \in Seq(Bytes) /\ Len(bytes) = n
      /\ \A i \in 1 .. n : bytes[i] = wire[i]
  BY <1>2, Taken, Ends
<1>5. /\ receiver'.pc = "text" /\ receiver'.len = receiver.len
      /\ receiver'.buf = receiver.buf \o bytes
  BY <1>1, <1>2 DEF TypeOK, Receives
<1>6. /\ Len(receiver'.buf) = r + n
      /\ receiver'.buf \in Seq(Bytes)
      /\ \A i \in 1 .. r + n :
           receiver'.buf[i] = IF i <= r THEN receiver.buf[i] ELSE bytes[i - r]
  <2>1. PICK x \in Seq(Bytes), y \in Seq(Bytes), z \in Seq(Bytes) :
          x = receiver.buf /\ y = bytes /\ z = receiver'.buf
    <3>1. receiver'.buf \in Seq(Bytes)
      BY DEF TypeOK
    <3> QED
      BY <1>4, <3>1, Ends
  <2>2. z = x \o y /\ r = Len(x) /\ n = Len(y)
    BY <1>3, <1>4, <1>5, <2>1
  <2>3. /\ z \in Seq(Bytes)
        /\ Len(z) = r + n
        /\ \A i \in 1 .. r + n : z[i] = IF i <= r THEN x[i] ELSE y[i - r]
    BY <2>2, Joined
  <2> QED
    BY <2>1, <2>3
<1>7. receiver'.buf # <<>>
  BY <1>2, <1>6, EmptySeq
<1>8. receiver.len # 0 /\ wire # <<>>
  <2>1. receiver.len # 0
    BY <1>2, Ends, SMTT(30)
  <2>2. wire # <<>>
    BY <1>2, Ends, EmptySeq
  <2> QED
    BY <2>1, <2>2
<1>9. Wrong(receiver'.buf[1])
  <2>1. CASE receiver.buf # <<>>
    <3>1. 1 \in 1 .. r + n /\ 1 <= r
      BY <1>2, <1>3, <2>1, Ends, EmptySeq, SMTT(30)
    <3> QED
      BY <1>6, <1>8, <2>1, <3>1 DEF Lost
  <2>2. CASE receiver.buf = <<>>
    <3>1. r = 0 /\ 1 \in 1 .. r + n /\ 1 \in 1 .. n /\ 1 - r = 1 /\ ~(1 <= r)
      BY <1>2, <1>3, <2>2, EmptySeq
    <3>2. receiver'.buf[1] = bytes[1 - r]
      BY <1>6, <3>1
    <3>3. receiver'.buf[1] = wire[1]
      BY <1>4, <3>1, <3>2
    <3> QED
      BY <1>8, <2>2, <3>3 DEF Lost
  <2> QED
    BY <2>1, <2>2
<1> QED
  BY <1>1, <1>5, <1>7, <1>9 DEF Lost, Wrong, Receives

LEMMA ParseLost ==
  ASSUME TypeOK, Lost, Parse
  PROVE  /\ receiver'.pc = "garbled"
         /\ UNCHANGED received
         /\ ~whole'
<1>1. /\ Receives("text") /\ ~whole /\ whole' = whole /\ Missing = 0
      /\ receiver.len = Len(receiver.buf)
  BY Ends DEF Parse, Lost
<1>2. ASSUME NEW m \in Message, receiver.buf = Text(m)
      PROVE  FALSE
  <2>1. TextLength[m] \in Nat /\ 1 \in 1 .. TextLength[m]
    OBVIOUS
  <2>2. Len(receiver.buf) = TextLength[m]
    BY <1>2, <2>1 DEF Text
  <2>3. receiver.buf[1] = Byte("text", m, 1)
    BY <1>2, <2>1, ByteTypes
  <2>4. receiver.buf # <<>> /\ receiver.len # 0
    BY <1>1, <2>1, <2>2, Ends, EmptySeq
  <2> QED
    BY <1>1, <2>2, <2>3, <2>4 DEF Lost, Wrong, Byte
<1>3. receiver' = [receiver EXCEPT !.pc = "garbled"] /\ UNCHANGED received
  BY <1>2 DEF Parse
<1> QED
  BY <1>1, <1>3 DEF TypeOK

-----------------------------------------------------------------------------
(* The sender, at the end of the stream *)

\* Whatever the sender does, who is in step stays in step, and who is lost is
\* still lost.
LEMMA SenderSteps ==
  ASSUME TypeOK, TypeOK', InOrder,
         \/ \E m \in Message : SendLength(m)
         \/ SendText \/ SendFails \/ SenderEnds
  PROVE  /\ InStep => InStep'
         /\ Lost => Lost'
         /\ InOrder'
         /\ UNCHANGED <<received, receiver>>
         /\ whole' => whole
<1>1. ASSUME NEW m \in Message, SendLength(m)
      PROVE  /\ InStep => InStep'
             /\ Lost => Lost'
             /\ InOrder'
             /\ UNCHANGED <<received, receiver>>
             /\ whole' => whole
  <2>0. PICK N \in Nat, K \in Nat : N = Len(sent) /\ K = Len(received) + 1
    BY Ends
  <2>1. /\ Sends("idle") /\ UNCHANGED <<received, receiver>>
        /\ sent' = Append(sent, m)
        /\ whole' => whole
    BY <1>1 DEF SendLength
  <2>2. /\ Len(sent') = N + 1 /\ \A j \in 1 .. N : sent'[j] = sent[j]
    BY <2>0, <2>1, Sent
  <2>3. K >= 1 /\ K \in 1 .. N + 1
    BY <2>0, Ends DEF InOrder
  <2>4. ASSUME InStep PROVE InStep'
    <3>1. PICK b, h, c : Stream(b, h, c) /\ ReceiverAt(b, h, c)
      BY <2>4 DEF InStep
    <3>2. PICK bb, hh : /\ Stream(bb, hh, c)'
                        /\ \A j \in 1 .. N : hh[j] = h[j]
                        /\ \A j \in 1 .. N + 1 : bb[j] = b[j]
      BY <1>1, <2>0, <3>1, StreamLength
    <3>3. CASE Receives("length") /\ c = b[K]
      BY <2>0, <2>1, <2>3, <3>2, <3>3 DEF InStep, ReceiverAt, Upcoming, Receives
    <3>4. CASE /\ Receives("text")
               /\ K <= N
               /\ receiver.len = TextLength[sent[K]]
               /\ \A i \in 1 .. Len(receiver.buf) :
                    receiver.buf[i] = Byte("text", sent[K], i)
               /\ c = b[K] + h[K] + Len(receiver.buf)
      <4>1. K \in 1 .. N /\ K <= N + 1
        BY <2>3, <3>4
      <4>2. sent'[K] = sent[K] /\ bb[K] = b[K] /\ hh[K] = h[K]
        BY <2>2, <2>3, <3>2, <4>1
      <4> QED
        BY <2>0, <2>1, <2>2, <3>2, <3>4, <4>1, <4>2
        DEF InStep, ReceiverAt, Upcoming, Receives
    <3> QED
      BY <2>0, <3>1, <3>3, <3>4 DEF ReceiverAt, Upcoming
  <2>5. ASSUME Lost PROVE Lost'
    <3>1. whole' = FALSE
      BY <1>1, <2>5 DEF Lost, SendLength
    <3>2. CASE wire # <<>>
      <4>1. 1 \in 1 .. Len(wire)
        BY <3>2, Ends, EmptySeq DEF TypeOK
      <4>2. PICK n \in Puts(HeaderLength) : Put(SubSeq(Header(m), 1, n))
        BY <1>1 DEF SendLength
      <4>3. n \in 0 .. HeaderLength
        BY CallBounds
      <4>4. SubSeq(Header(m), 1, n) \in Seq(Bytes)
        BY <4>3, Pieces
      <4>5. /\ wire' \in Seq(Bytes)
            /\ Len(wire') = Len(wire) + Len(SubSeq(Header(m), 1, n))
            /\ wire'[1] = wire[1]
        BY <4>1, <4>2, <4>4, PutBytes
      <4>6. wire' # <<>>
        <5>1. PICK w \in Nat, u \in Nat :
                w = Len(wire) /\ u = Len(SubSeq(Header(m), 1, n))
          BY <4>4, Ends, LenProperties
        <5>2. 1 \in 1 .. w /\ Len(wire') = w + u
          BY <4>1, <4>5, <5>1
        <5>3. Len(wire') # 0
          BY <5>2
        <5> QED
          BY <5>3, EmptySeq
      <4> QED
        BY <2>1, <2>5, <3>1, <3>2, <4>5, <4>6 DEF Lost, Wrong, Receives
    <3>3. CASE wire = <<>>
      BY <2>1, <2>5, <3>1, <3>3 DEF Lost, Wrong, Receives
    <3> QED
      BY <3>2, <3>3
  <2>6. InOrder'
    <3>1. PICK r \in Nat : r = Len(received)
      BY Ends
    <3>2. r <= N /\ \A i \in 1 .. r : received[i] = sent[i]
      BY <2>0, <3>1 DEF InOrder
    <3>3. r <= N + 1 /\ \A i \in 1 .. r : i \in 1 .. N
      BY <3>2
    <3>4. \A i \in 1 .. r : received'[i] = sent'[i]
      BY <2>1, <2>2, <3>2, <3>3
    <3>5. Len(received') = r /\ r <= Len(sent')
      BY <2>1, <2>2, <3>1, <3>3
    <3> QED
      BY <3>4, <3>5 DEF InOrder
  <2> QED
    BY <2>1, <2>4, <2>5, <2>6
<1>2. CASE SendText
  <2>1. Sends("text") /\ UNCHANGED <<sent, received, receiver, whole>>
    BY <1>2 DEF SendText
  <2>2. ASSUME InStep PROVE InStep'
    <3>1. PICK b, h, c : Stream(b, h, c) /\ ReceiverAt(b, h, c)
      BY <2>2 DEF InStep
    <3>2. Stream(b, h, c)'
      BY <1>2, <3>1, StreamText
    <3>3. ReceiverAt(b, h, c)'
      BY <2>1, <3>1 DEF ReceiverAt, Upcoming, Receives
    <3> QED
      BY <3>2, <3>3 DEF InStep
  <2>3. ASSUME Lost PROVE Lost'
    <3> DEFINE Begun(n) == SubSeq(Text(Sending), sender.gone + 1, sender.gone + n)
    <3>1. PICK n \in Puts(TextLength[Sending] - sender.gone) : Put(Begun(n))
      BY <1>2 DEF SendText
    <3>2. /\ n \in Nat \ {0} /\ Begun(n) \in Seq(Bytes) /\ Len(Begun(n)) = n
          /\ Begun(n)[1] = Byte("text", Sending, sender.gone + 1)
      <4>1. n \in Nat \ {0}
        BY <2>1, Rest
      <4>2. 1 \in 1 .. n
        BY <4>1
      <4> QED
        BY <2>1, <4>1, <4>2, Rest
    <3> HIDE DEF Begun
    <3>3. PICK w \in Nat : w = Len(wire)
      BY Ends
    <3>4. /\ wire' \in Seq(Bytes) /\ Len(wire') = w + n
          /\ \A i \in 1 .. w : wire'[i] = wire[i]
          /\ \A i \in 1 .. n : wire'[w + i] = Begun(n)[i]
      BY <3>1, <3>2, <3>3, PutBytes
    <3>5. wire' # <<>>
      BY <3>2, <3>4, EmptySeq
    <3>6. CASE wire # <<>>
      <4>1. 1 \in 1 .. w
        BY <3>3, <3>6, EmptySeq DEF TypeOK
      <4>2. wire'[1] = wire[1]
        BY <3>4, <4>1
      <4> QED
        BY <2>1, <2>3, <3>5, <3>6, <4>2 DEF Lost, Wrong, Receives
    <3>7. CASE wire = <<>>
      <4>1. w = 0 /\ 1 \in 1 .. n /\ w + 1 = 1
        BY <3>2, <3>3, <3>7, EmptySeq
      <4>2. wire'[1] = Byte("text", Sending, sender.gone + 1)
        BY <3>2, <3>4, <4>1
      <4>3. CASE sender.gone > 0
        <5>1. sender.gone + 1 # 1
          BY <4>3, Ends
        <5>2. Wrong(wire'[1])
          BY <4>2, <5>1 DEF Wrong, Byte
        <5> QED
          BY <2>1, <2>3, <3>5, <3>7, <5>2 DEF Lost, Wrong, Receives
      <4>4. CASE receiver.len # TextLength[Sending]
        <5>1. Wrong(wire'[1])
          BY <4>2, <4>4 DEF Wrong, Byte
        <5> QED
          BY <2>1, <2>3, <3>5, <3>7, <5>1 DEF Lost, Wrong, Receives
      <4>5. CASE receiver.len = 0 \/ receiver.buf # <<>>
        BY <2>1, <2>3, <3>7, <4>5 DEF Lost, Wrong, Receives
      <4> QED
        BY <2>1, <2>3, <3>7, <4>3, <4>4, <4>5 DEF Lost
    <3> QED
      BY <3>6, <3>7
  <2>4. InOrder'
    BY <2>1 DEF InOrder
  <2> QED
    BY <2>1, <2>2, <2>3, <2>4
<1>3. CASE SendFails \/ SenderEnds
  <2>1. /\ UNCHANGED <<sent, received, wire, receiver, whole>>
        /\ sender' = [sender EXCEPT !.pc = "closed"]
    BY <1>3 DEF SendFails, SenderEnds
  <2>2. sender'.pc = "closed"
    BY <2>1 DEF TypeOK
  <2>3. ASSUME InStep PROVE InStep'
    <3>1. PICK b, h, c : Stream(b, h, c) /\ ReceiverAt(b, h, c)
      BY <2>3 DEF InStep
    <3>2. Stream(b, h, c)'
      BY <2>1, <2>2, <3>1 DEF Stream, Layout, OnTheWay, SenderAt, Sends
    <3>3. ReceiverAt(b, h, c)'
      BY <2>1, <3>1 DEF ReceiverAt, Upcoming, Receives
    <3> QED
      BY <3>2, <3>3 DEF InStep
  <2>4. ASSUME Lost PROVE Lost'
    BY <2>1, <2>2, <2>4 DEF Lost, Wrong, Receives, Sends
  <2>5. InOrder'
    BY <2>1 DEF InOrder
  <2> QED
    BY <2>1, <2>3, <2>4, <2>5
<1> QED
  BY <1>1, <1>2, <1>3

-----------------------------------------------------------------------------
(* The invariant *)

LEMMA FrameStart == Init => FrameInv
<1> SUFFICES ASSUME Init PROVE FrameInv
  OBVIOUS
<1>1. TypeOK
  BY EmptySeq DEF Init, TypeOK, Idle, Waiting, Sends
<1>2. InOrder
  BY EmptySeq DEF Init, InOrder
<1>3. WholeNeverGarbled
  BY DEF Init, WholeNeverGarbled, Receives, Waiting
<1>4. InStep
  <2>1. PICK b, h : b = [j \in 1 .. 1 |-> 0] /\ h = [j \in 1 .. 0 |-> 1]
    OBVIOUS
  <2>2. Len(sent) = 0 /\ Len(received) = 0 /\ Len(wire) = 0
    BY EmptySeq DEF Init
  <2>3. Layout(b, h)
    <3>1. h \in [1 .. 0 -> 1 .. HeaderLength]
      BY <2>1
    <3>2. b \in [1 .. 1 -> Nat]
      BY <2>1
    <3> QED
      BY <2>2, <3>1, <3>2 DEF Layout
  <2>4. b[1] = 0 /\ 0 + 1 = 1 /\ 0 + 0 = 0
    BY <2>1
  <2>5. Stream(b, h, 0)
    BY <2>2, <2>3, <2>4 DEF Init, Stream, OnTheWay, SenderAt, Idle, Sends
  <2>6. ReceiverAt(b, h, 0)
    BY <2>2, <2>4 DEF Init, ReceiverAt, Upcoming, Receives, Waiting
  <2> QED
    BY <2>5, <2>6 DEF InStep
<1> QED
  BY <1>1, <1>2, <1>3, <1>4 DEF FrameInv

LEMMA FrameStep ==
  ASSUME FrameInv, [Next]_vars
  PROVE  FrameInv'
<1>1. /\ TypeOK /\ TypeOK' /\ InOrder /\ WholeNeverGarbled
      /\ receiver.pc \in {"length", "text"} => InStep \/ Lost
  BY TypeStep DEF FrameInv
<1>2. CASE \/ \E m \in Message : SendLength(m)
           \/ SendText \/ SendFails \/ SenderEnds
  <2>1. /\ InStep => InStep'
        /\ Lost => Lost'
        /\ InOrder'
        /\ receiver' = receiver
        /\ whole' => whole
    BY <1>1, <1>2, SenderSteps
  <2> QED
    BY <1>1, <2>1 DEF FrameInv, WholeNeverGarbled, Receives
<1>3. CASE RecvLength
  <2>1. InStep
    BY <1>1, <1>3 DEF RecvLength, Receives, Lost
  <2>2. /\ receiver'.pc \in {"text", "garbled"}
        /\ receiver'.pc = "garbled" => ~whole'
        /\ receiver'.pc = "text" => InStep' \/ Lost'
    BY <1>1, <1>3, <2>1, ReadLength
  <2>3. InOrder'
    BY <1>1, <1>3 DEF RecvLength, InOrder
  <2> QED
    BY <1>1, <2>2, <2>3 DEF FrameInv, WholeNeverGarbled, Receives
<1>4. CASE RecvText
  <2>1. InStep' \/ Lost'
    BY <1>1, <1>4, ReadText, StayLost DEF RecvText, Receives
  <2>2. InOrder'
    BY <1>1, <1>4 DEF RecvText, InOrder
  <2>3. receiver'.pc = "text"
    BY <1>1, <1>4 DEF RecvText, Receives, TypeOK
  <2> QED
    BY <1>1, <2>1, <2>2, <2>3 DEF FrameInv, WholeNeverGarbled, Receives
<1>5. CASE Parse
  <2>1. sent' = sent /\ Receives("text")
    BY <1>5 DEF Parse
  <2>2. CASE InStep
    <3>1. /\ Len(received) < Len(sent)
          /\ received' = Append(received, sent[Len(received) + 1])
          /\ receiver' = Waiting
          /\ InStep'
      BY <1>1, <1>5, <2>2, ReadMessage
    <3>2. PICK r \in Nat : r = Len(received) /\ r + 1 \in 1 .. Len(sent)
      BY <1>1, <3>1, Ends
    <3>3. sent[r + 1] \in Message
      BY <1>1, <3>2, ElementOfSeq DEF TypeOK
    <3>4. /\ Len(received') = r + 1
          /\ \A j \in 1 .. r : received'[j] = received[j]
          /\ received'[r + 1] = sent[r + 1]
      BY <1>1, <3>1, <3>2, <3>3, Received
    <3>5. InOrder'
      <4>1. ASSUME NEW i \in 1 .. r + 1 PROVE received'[i] = sent[i]
        <5>1. CASE i = r + 1
          BY <3>4, <5>1
        <5>2. CASE i # r + 1
          <6>1. i \in 1 .. r
            BY <5>2
          <6> QED
            BY <1>1, <3>2, <3>4, <6>1 DEF InOrder
        <5> QED
          BY <5>1, <5>2
      <4>2. r + 1 <= Len(sent)
        BY <3>2
      <4> QED
        BY <2>1, <3>4, <4>1, <4>2 DEF InOrder
    <3>6. receiver'.pc = "length"
      BY <3>1 DEF Waiting
    <3> QED
      BY <1>1, <3>1, <3>5, <3>6 DEF FrameInv, WholeNeverGarbled, Receives
  <2>3. CASE Lost
    <3>1. receiver'.pc = "garbled" /\ received' = received /\ ~whole'
      BY <1>1, <1>5, <2>3, ParseLost
    <3>2. InOrder'
      BY <1>1, <2>1, <3>1 DEF InOrder
    <3> QED
      BY <1>1, <3>1, <3>2 DEF FrameInv, WholeNeverGarbled, Receives
  <2> QED
    BY <1>1, <2>1, <2>2, <2>3 DEF Receives
<1>6. CASE RecvEof \/ ReceiverEnds
  <2>1. /\ UNCHANGED <<sent, received, whole>>
        /\ \E pc \in {"eof", "closed"} : receiver' = [receiver EXCEPT !.pc = pc]
    BY <1>6 DEF RecvEof, ReceiverEnds
  <2>2. receiver'.pc \in {"eof", "closed"}
    BY <1>1, <2>1 DEF TypeOK
  <2>3. InOrder'
    BY <1>1, <2>1 DEF InOrder
  <2> QED
    BY <1>1, <2>2, <2>3 DEF FrameInv, WholeNeverGarbled, Receives
<1>7. CASE UNCHANGED vars
  <2>1. UNCHANGED <<sent, received, wire, sender, receiver, whole>>
    BY <1>7 DEF vars
  <2>2. InStep => InStep'
    <3> SUFFICES ASSUME InStep PROVE InStep'
      OBVIOUS
    <3>1. PICK b, h, c : Stream(b, h, c) /\ ReceiverAt(b, h, c)
      BY DEF InStep
    <3>2. Stream(b, h, c)'
      BY <2>1, <3>1 DEF Stream, Layout, OnTheWay, SenderAt, Sends
    <3>3. ReceiverAt(b, h, c)'
      BY <2>1, <3>1 DEF ReceiverAt, Upcoming, Receives
    <3> QED
      BY <3>2, <3>3 DEF InStep
  <2>3. Lost => Lost'
    BY <2>1 DEF Lost, Wrong, Receives, Sends, Sending
  <2>4. InOrder'
    BY <1>1, <2>1 DEF InOrder
  <2> QED
    BY <1>1, <2>1, <2>2, <2>3, <2>4 DEF FrameInv, WholeNeverGarbled, Receives
<1> QED
  BY <1>2, <1>3, <1>4, <1>5, <1>6, <1>7 DEF Next, Receive

\* The receiver is always in step with the sender, or lost for good.
LEMMA FrameInvariant == Spec => []FrameInv
BY FrameStart, FrameStep, PTL DEF Spec

-----------------------------------------------------------------------------
(* Theorems *)

\* The states of the ends and the bytes on the way have their types: no call
\* of send_n asks for more than is left of a text, and no call of recv_n for
\* more than its buffer has room for.
THEOREM FramingTypes == Spec => []TypeOK
<1>1. FrameInv => TypeOK
  BY DEF FrameInv
<1> QED
  BY <1>1, FrameInvariant, PTL

\* As long as every length is moved by one call, recv_json never takes the
\* wrong bytes for a text, however the calls cut the texts.
THEOREM NeverGarbled == Spec => []WholeNeverGarbled
<1>1. FrameInv => WholeNeverGarbled
  BY DEF FrameInv
<1> QED
  BY <1>1, FrameInvariant, PTL

\* Every call of send_json, and every return of recv_json, is a step of the
\* channel; the other steps are not seen there.
LEMMA ChannelStep ==
  ASSUME FrameInv, [Next]_vars
  PROVE  [Promise!ChannelNext]_<<sent, received>>
<1>1. CASE \E m \in Message : SendLength(m)
  <2>1. \E m \in Message : Promise!ChannelSend(m)
    BY <1>1 DEF SendLength, Promise!ChannelSend
  <2> QED
    BY <2>1 DEF Promise!ChannelNext
<1>2. CASE Parse
  <2>1. TypeOK /\ TypeOK' /\ (InStep \/ Lost)
    BY <1>2, FrameStep DEF FrameInv, Parse, Receives
  <2>2. CASE InStep
    <3>1. Promise!ChannelDeliver
      BY <1>2, <2>1, <2>2, ReadMessage DEF Promise!ChannelDeliver, Parse
    <3> QED
      BY <3>1 DEF Promise!ChannelNext
  <2>3. CASE Lost
    BY <1>2, <2>1, <2>3, ParseLost DEF Parse
  <2> QED
    BY <2>1, <2>2, <2>3
<1>3. CASE \/ SendText \/ SendFails \/ SenderEnds \/ RecvLength \/ RecvText
           \/ RecvEof \/ ReceiverEnds \/ UNCHANGED vars
  BY <1>3 DEF SendText, SendFails, SenderEnds, RecvLength, RecvText, RecvEof,
     ReceiverEnds, vars
<1> QED
  BY <1>1, <1>2, <1>3 DEF Next, Receive

\* Whatever the calls move and wherever an end stops, recv_json returns the
\* messages send_json was called with, each once and in their order.
THEOREM FramingImplementsChannel == Spec => ImplementsChannel
<1>1. Init => Promise!ChannelInit
  BY DEF Init, Promise!ChannelInit
<1> QED
  BY <1>1, FrameInvariant, ChannelStep, PTL
  DEF Spec, ImplementsChannel, Promise!ChannelSpec

=============================================================================
