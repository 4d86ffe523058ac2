---------------------------- MODULE ClientChannel ----------------------------
(***************************************************************************)
(* What the TCP link promises the handlers of the session thread: within a *)
(* connection they are given the client's messages whole, in order, none   *)
(* twice and none left out; a connection may end at any time.  Once a      *)
(* length was read in part, nothing is promised until the next connection. *)
(***************************************************************************)
EXTENDS Naturals, Sequences

CONSTANT Messages

VARIABLES sent, handled, cut

channelVars == <<sent, handled, cut>>

Init == sent = <<>> /\ handled = <<>> /\ cut = FALSE

Send ==
    /\ Len(sent') = Len(sent) + 1
    /\ \E m \in Messages : sent' = Append(sent, m)
    /\ UNCHANGED <<handled, cut>>

Handle ==
    /\ Len(handled) < Len(sent)
    /\ handled' = Append(handled, sent[Len(handled) + 1])
    /\ UNCHANGED <<sent, cut>>

Cut == cut' = TRUE /\ UNCHANGED <<sent, handled>>

Misread ==
    /\ cut
    /\ Len(handled') = Len(handled) + 1
    /\ UNCHANGED <<sent, cut>>

Reconnect == sent' = <<>> /\ handled' = <<>> /\ cut' = FALSE

ChannelNext == Send \/ Handle \/ Cut \/ Misread \/ Reconnect

ChannelSpec == Init /\ [][ChannelNext]_channelVars
==============================================================================
