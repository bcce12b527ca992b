------------------------------ MODULE Channel ------------------------------
(***************************************************************************)
(* What one direction of a connection promises to the program above it:    *)
(* whole messages, each once, in the order they were sent.  The receiver   *)
(* may stop before it has them all.                                        *)
(***************************************************************************)
EXTENDS Naturals, Sequences

VARIABLES
  sent,   (* the messages sent, oldest first       *)
  got     (* the messages the receiver has accepted *)

channelVars == <<sent, got>>

ChannelInit == sent = <<>> /\ got = <<>>

(* One more message is sent, whichever it is. *)
Send ==
  /\ Len(sent') = Len(sent) + 1
  /\ SubSeq(sent', 1, Len(sent)) = sent
  /\ UNCHANGED got

Deliver ==
  /\ Len(got) < Len(sent)
  /\ got' = Append(got, sent[Len(got) + 1])
  /\ UNCHANGED sent

ChannelSpec == ChannelInit /\ [][Send \/ Deliver]_channelVars
=============================================================================
