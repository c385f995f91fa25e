------------------------------- MODULE Channel -------------------------------
(***************************************************************************)
(* What a connection promises to the part that listens to it, and all the  *)
(* session models know of one: messages are handled one after the other in *)
(* the order they were sent, none twice, and none is passed over while the *)
(* channel is intact; whatever was not handled when the listener ended is  *)
(* lost, and is always the end of what was sent.                           *)
(***************************************************************************)
EXTENDS Naturals, Sequences

VARIABLES
    sent,           \* how many messages the other end has sent; they are numbered
    delivered,      \* the messages that were handled
    intact,         \* nothing but the listener takes messages from the channel
    listening       \* the listener has not ended

channelVars == <<sent, delivered, intact, listening>>

Latest == IF delivered = <<>> THEN 0 ELSE delivered[Len(delivered)]

ChannelInit == sent = 0 /\ delivered = <<>> /\ intact = TRUE /\ listening = TRUE

Send ==
    /\ sent' = sent + 1
    /\ UNCHANGED <<delivered, intact, listening>>

Deliver ==
    /\ listening
    /\ \E n \in Latest + 1 .. sent :
          /\ intact => n = Latest + 1
          /\ delivered' = Append(delivered, n)
    /\ UNCHANGED <<sent, intact, listening>>

Disturb ==
    /\ intact' = FALSE
    /\ UNCHANGED <<sent, delivered, listening>>

End ==
    /\ listening /\ listening' = FALSE
    /\ UNCHANGED <<sent, delivered, intact>>

ChannelNext == Send \/ Deliver \/ Disturb \/ End

ChannelSpec == ChannelInit /\ [][ChannelNext]_channelVars
=============================================================================
