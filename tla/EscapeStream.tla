----------------------------- MODULE EscapeStream -----------------------------
(***************************************************************************)
(* The decoder of an endpoint with -e reading a value byte by byte, and    *)
(* the encoder of its peer writing it: the loops of Packet.bytes_encode    *)
(* and Packet.bytes_decode as steps.  When the peer runs without -e there  *)
(* is no encoder, and the decoder reads what the peer's UART received.     *)
(* The firmware's decoder reads the same bytes beside it, into an output   *)
(* that is only as long as what it has read: the least packet_do_decode    *)
(* can give it, whose output is as long as the whole value.                *)
(***************************************************************************)
EXTENDS WuartEscape

CONSTANTS
    Plain,         \* the bytes values are made of
    MaxLen         \* bound on the length of the value

ASSUME PlainAssumption == Plain \subseteq 0..255
ASSUME MaxLenAssumption == MaxLen \in Nat

VARIABLES
    peer_encodes,  \* whether the peer runs with -e
    raw_bytes,     \* the value so far, as the peer's UART received it
    wire,          \* bytes the peer has written and the decoder has not read
    d,             \* the decoder's local variables
    firmware,      \* the local variables of the firmware's decoder
    fed            \* how many bytes each decoder has read

vars == <<peer_encodes, raw_bytes, wire, d, firmware, fed>>

Init ==
    /\ peer_encodes \in BOOLEAN
    /\ raw_bytes = <<>>
    /\ wire = <<>>
    /\ d = DecoderStart
    /\ firmware = DecoderStart
    /\ fed = 0

(* The next byte of the value: one iteration of the loop of bytes_encode,  *)
(* or the byte itself.                                                     *)
WriteOne ==
    /\ wire = <<>>
    /\ Len(raw_bytes) < MaxLen
    /\ \E r \in Plain :
           /\ raw_bytes' = Append(raw_bytes, r)
           /\ wire' = IF peer_encodes THEN EncodeByte(r) ELSE <<r>>
    /\ UNCHANGED <<peer_encodes, d, firmware, fed>>

Room(e) == fed + 1 - Len(e.new_raw)

(* One iteration of the loop of each bytes_decode that is still in it. *)
DecodeOne ==
    /\ wire # <<>>
    /\ d' = IF d.raised THEN d ELSE DecodeByte(d, Head(wire))
    /\ firmware' \in IF firmware.raised THEN {firmware}
                     ELSE FirmwareByte(firmware, Head(wire), Room(firmware))
    /\ wire' = Tail(wire)
    /\ fed' = fed + 1
    /\ UNCHANGED <<peer_encodes, raw_bytes>>

Next == WriteOne \/ DecodeOne
Spec == Init /\ [][Next]_vars

-----------------------------------------------------------------------------
TypeOK ==
    /\ peer_encodes \in BOOLEAN
    /\ raw_bytes \in Seq(0..255)
    /\ wire \in Seq(0..255)
    /\ d \in Decoding
    /\ firmware \in Decoding
    /\ fed \in Nat

(* Decoding undoes encoding: whenever the decoder has read all that was    *)
(* written it is back in its normal state, holds the original bytes and    *)
(* has not thrown.                                                         *)
RoundTrip ==
    peer_encodes /\ wire = <<>> => d.state = 0 /\ d.new_raw = raw_bytes /\ ~d.raised

(* The firmware reads an encoded value exactly as a Python endpoint does,  *)
(* byte for byte: the two decoders, which part on values nobody encoded,   *)
(* agree on all that an encoder writes.                                    *)
FirmwareAgrees == peer_encodes => firmware = d

(* An encoded value is printable ASCII, so neither the terminal nor the    *)
(* line the UART is wired to interprets it.                                *)
WireIsPrintable == peer_encodes => \A k \in DOMAIN wire : wire[k] \in 32..126

(* The decoder never holds more bytes than it has read, the ones it keeps  *)
(* back in an unfinished escape included: a decoded packet is never longer *)
(* than the frame it came in.                                              *)
DecodeNeverGrows == Len(d.new_raw) + d.state <= fed

(* The output packet_do_decode allocates, as long as the input, is always  *)
(* enough: the firmware never gives up for want of room, whatever it reads.*)
FirmwareHasRoom == ~firmware.raised /\ Len(firmware.new_raw) + firmware.state <= fed
=============================================================================
