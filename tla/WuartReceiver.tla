---------------------------- MODULE WuartReceiver ----------------------------
(***************************************************************************)
(* One direction of a connection: the peer sends packets over TCP, and the *)
(* receiving half of handle() reassembles them.  Server and client run the *)
(* same loop (WirelessUartClientHandler.handle of the server,              *)
(* WirelessUartConnectHelper.handle of the client).                        *)
(*                                                                         *)
(* TCP is a reliable byte stream without message boundaries: a recv may    *)
(* return any non-empty prefix of what was sent.  What becomes of a packet *)
(* handed to handle_packet is the subject of WuartSession.                 *)
(***************************************************************************)
EXTENDS WuartPacket, WuartEscape

CONSTANTS
    Offered,       \* the packets peers may send
    MaxSent,       \* bound on how many a peer sends
    Configs,       \* the circumstances to look at
    BufSize        \* socket_buffer_size

(* sender: the peer is the other endpoint, which ends its frames with END, *)
(* or somebody who plays what the packet generator prints, which does not; *)
(* encodes, decodes: the peer, this side runs with -e;                     *)
(* network: how TCP cuts the stream, see Cuts;                             *)
(* offers: what this peer sends.                                           *)
Config == [sender : {"endpoint", "generator"}, encodes : BOOLEAN, decodes : BOOLEAN,
           network : {"any", "coalesced", "paced"}, offers : SUBSET Offered]

ASSUME ConfigAssumption ==
    /\ Configs \subseteq Config
    /\ MaxSent \in Nat
    /\ BufSize \in Nat \ {0}

(* What the callers of send_packet guarantee: keys are non-empty ASCII     *)
(* words without '=', and the size fits its four bytes.                    *)
ASSUME OfferedAssumption ==
    \A p \in Offered :
        /\ p \in [key_str : Seq(Byte), val_bytes : Seq(Byte)]
        /\ p.key_str # <<>>
        /\ \A j \in 1..Len(p.key_str) : p.key_str[j] # EQ /\ p.key_str[j] < 128
        /\ data_size(p) \div 16777216 < 256

VARIABLES
    config,        \* chosen at the start, and never changed
    sent,          \* the packets the peer has sent
    net,           \* bytes sent and not yet received
    recv_buffer,   \* self.recv_buffer
    phase,         \* "select": waiting; "drain": in the inner loop; "exit": handle() left
    handled        \* the packets given to handle_packet, in order

vars == <<config, sent, net, recv_buffer, phase, handled>>

-----------------------------------------------------------------------------
(* do_encode and do_decode leave a packet without a value alone. *)
do_encode(p) ==
    IF p.val_bytes = <<>> THEN p ELSE Packet(p.key_str, bytes_encode(p.val_bytes))

do_decode(p) ==
    IF p.val_bytes = <<>> THEN p ELSE Packet(p.key_str, bytes_decode(p.val_bytes))

(* The bytes one send_packet puts on the wire. *)
Encoded(p) == IF config.encodes THEN do_encode(p) ELSE p
Wire(p) == IF config.sender = "endpoint" THEN get_bytes(Encoded(p)) ELSE FrameBody(Encoded(p))

(* bytes.strip(): white space off both ends of what recv returned. *)
IsSpace(b) == b \in {9, 10, 11, 12, 13, 32}
strip(s) ==
    LET ink == {k \in DOMAIN s : ~IsSpace(s[k])}
    IN  IF ink = {} THEN <<>>
        ELSE SubSeq(s, Least(ink), CHOOSE k \in ink : \A j \in ink : j <= k)

(* Definitions named X_y are X with the defect y: what the code would be   *)
(* if it were wrong there.  They show that the properties notice it, and   *)
(* nothing else uses them.                                                 *)
Residue_eager(buf) == <<>>

(* The buffer after the inner loop: dropped when it holds no START and its *)
(* last byte is not PACKET_MIN & 0xFF, kept otherwise.                     *)
Residue(buf) ==
    IF buf # <<>> /\ StartsAt(buf) = {} /\ buf[Len(buf)] # PACKET_MIN THEN <<>> ELSE buf

Decoded(p) == IF config.decodes THEN do_decode(p) ELSE p

(* The packet handed on, and the buffer after it is cut off: the number of *)
(* bytes cut is computed from the packet as decoded, and they are taken    *)
(* from the front of the buffer wherever the packet was found.             *)
Taken(buf) == Decoded(parse(buf))
Cut_withEnd(buf) == SubSeq(buf, OVERHEAD + 2 + data_size(Taken(buf)) + 1, Len(buf))
Cut(buf) == SubSeq(buf, OVERHEAD + data_size(Taken(buf)) + 1, Len(buf))

DecodeFails(buf) == config.decodes /\ DecodeRaises(parse(buf).val_bytes)

-----------------------------------------------------------------------------
Init ==
    /\ config \in Configs
    /\ sent = <<>>
    /\ net = <<>>
    /\ recv_buffer = <<>>
    /\ phase = "select"
    /\ handled = <<>>

(* The peer's send_packet: one sendall of a whole frame. *)
Send ==
    /\ Len(sent) < MaxSent
    /\ config.network = "paced" => net = <<>>
    /\ \E p \in config.offers :
           /\ sent' = Append(sent, p)
           /\ net' = net \o Wire(p)
    /\ UNCHANGED <<config, recv_buffer, phase, handled>>

(* The network does not cut between the two bytes of a START ... *)
StartUncut(n) == ~(n < Len(net) /\ net[n] = 35 /\ net[n + 1] = 36)

(* ... nor next to white space. *)
InkedCut(n) == ~IsSpace(net[n]) /\ (n < Len(net) => ~IsSpace(net[n + 1]))

(* What a recv may return.  "any": any prefix of what is pending, which is *)
(* all that TCP promises.  "coalesced": all that is pending, as much of it *)
(* as fits: any number of frames at once, none cut unless the buffer is    *)
(* full.  "paced": the peer pauses until its last frame has been received, *)
(* which may take any number of recvs.                                     *)
Cuts ==
    {n \in 1..Len(net) :
        /\ n <= BufSize
        /\ config.network = "coalesced" => n = Least({Len(net), BufSize})
        /\ config.network = "paced" => StartUncut(n) /\ InkedCut(n)}

(* select reports data and recv returns its first n bytes; a chunk of      *)
(* nothing but white space is forgotten before the inner loop.             *)
Recv(n) ==
    LET chunk == strip(SubSeq(net, 1, n))
    IN  /\ phase = "select"
        /\ net' = SubSeq(net, n + 1, Len(net))
        /\ recv_buffer' = recv_buffer \o chunk
        /\ phase' = IF chunk = <<>> THEN "select" ELSE "drain"
        /\ UNCHANGED <<config, sent, handled>>

Receive == \E n \in Cuts : Recv(n)

(* One turn of the inner loop that finds a packet... *)
HandleOne ==
    /\ phase = "drain"
    /\ FoundAt(recv_buffer) # 0
    /\ ~DecodeFails(recv_buffer)
    /\ recv_buffer' = Cut(recv_buffer)
    /\ handled' = Append(handled, Taken(recv_buffer))
    /\ UNCHANGED <<config, sent, net, phase>>

(* ... unless do_decode throws: handle() ends before the buffer is cut. *)
HandleRaises ==
    /\ phase = "drain"
    /\ FoundAt(recv_buffer) # 0
    /\ DecodeFails(recv_buffer)
    /\ phase' = "exit"
    /\ UNCHANGED <<config, sent, net, recv_buffer, handled>>

(* The inner loop ends, without a START or with parse returning None. *)
EndDrain ==
    /\ phase = "drain"
    /\ FoundAt(recv_buffer) = 0
    /\ recv_buffer' = Residue(recv_buffer)
    /\ phase' = "select"
    /\ UNCHANGED <<config, sent, net, handled>>

Loop == HandleOne \/ HandleRaises \/ EndDrain

Next == Send \/ Receive \/ Loop
Spec == Init /\ [][Next]_vars

(* The thread polls its socket every recv_timeout seconds, TCP delivers    *)
(* what is in flight and the inner loop keeps going: neither is left       *)
(* enabled for ever.  Nothing is assumed of the peer.  LoopFairness is     *)
(* WF_vars(Loop), as Loop is enabled exactly in phase "drain".             *)
LoopFairness == []<>(phase # "drain") \/ []<><<Loop>>_vars
FairSpec == Spec /\ WF_vars(Receive) /\ LoopFairness

-----------------------------------------------------------------------------
TypeOK ==
    /\ config \in Configs
    /\ sent \in Seq(Offered)
    /\ net \in Seq(Byte)
    /\ recv_buffer \in Seq(Byte)
    /\ phase \in {"select", "drain", "exit"}
    /\ handled \in Seq(Packets)

(* The place in sent of each handled packet, matched from the left: the    *)
(* first packet that arrives as it and is not before the place of the      *)
(* previous one; past the end of sent when there is none.                  *)
Place[k \in Nat] ==
    IF k = 0 THEN 1
    ELSE LET later == {j \in Place[k - 1]..Len(sent) : Decoded(Encoded(sent[j])) = handled[k]}
         IN  IF later = {} THEN Len(sent) + 1 ELSE Least(later)

(* What reaches handle_packet is the sequence that was sent with packets   *)
(* left out or repeated: never a packet put together from pieces of        *)
(* others, never an older packet after a newer one.  This asks something   *)
(* of the values: where strip takes white space out of a frame, what is    *)
(* left may read as another packet.                                        *)
HandledFollowsSent == handled # <<>> => Place[Len(handled)] <= Len(sent)

(* When all that was sent has been received and the loop is waiting again, *)
(* every packet has been handled exactly once and in order.                *)
QuiescentDelivered == phase = "select" /\ net = <<>> => handled = sent

(* Cutting a packet off the buffer never takes a byte that follows it.     *)
CutStaysInFrame ==
    [][HandleOne =>
         Len(recv_buffer) - Len(recv_buffer')
           <= FoundAt(recv_buffer) - 1 + OVERHEAD
                + SizeAt(recv_buffer, FoundAt(recv_buffer))]_vars

(* The abstract channel this direction implements when it does. *)
Channel == INSTANCE PacketChannel WITH accepted <- sent, delivered <- handled
ChannelFairSpec == Channel!FairSpec
=============================================================================
