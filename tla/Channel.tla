------------------------------ MODULE Channel -------------------------------
(***************************************************************************)
(* What send_json and recv_json promise (sockets.h): one end sends JSON    *)
(* objects, and the other receives those objects, each once and in order.  *)
(***************************************************************************)
EXTENDS Naturals, Sequences

CONSTANT Message
VARIABLES sent, received

ChannelInit == sent = <<>> /\ received = <<>>

ChannelSend(m) == sent' = Append(sent, m) /\ UNCHANGED received

ChannelDeliver == /\ Len(received) < Len(sent)
                  /\ received' = Append(received, sent[Len(received) + 1])
                  /\ UNCHANGED sent

ChannelNext == (\E m \in Message : ChannelSend(m)) \/ ChannelDeliver

ChannelSpec == ChannelInit /\ [][ChannelNext]_<<sent, received>>
=============================================================================
