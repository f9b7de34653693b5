---------------------------- MODULE PacketChannel ----------------------------
(***************************************************************************)
(* What one direction of a connection promises to the packet handlers: a   *)
(* channel that hands over every packet exactly once and in order.         *)
(***************************************************************************)
EXTENDS Naturals, Sequences

CONSTANT Offered       \* the packets that may be sent

VARIABLES
    accepted,          \* the packets given to the channel so far
    delivered          \* the packets handed over so far

chan == <<accepted, delivered>>

Init == accepted = <<>> /\ delivered = <<>>

Put ==
    /\ \E p \in Offered : accepted' = Append(accepted, p)
    /\ UNCHANGED delivered

Deliver ==
    /\ Len(delivered) < Len(accepted)
    /\ delivered' = Append(delivered, accepted[Len(delivered) + 1])
    /\ UNCHANGED accepted

Next == Put \/ Deliver

Spec == Init /\ [][Next]_chan

(* A packet that has been accepted does not wait for ever. *)
FairSpec == Spec /\ WF_chan(Deliver)
=============================================================================
