----------------------------- MODULE WuartPacket -----------------------------
(***************************************************************************)
(* The wire format shared by the server, the client and the packet         *)
(* generator: class Packet of server/wireless_uart_server.py (the client   *)
(* holds the same class, line for line).  A frame is                       *)
(*                                                                         *)
(*    START(2) | data length(4, little endian) | data | XOR checksum(1)    *)
(*                                                                         *)
(* followed by END(2) when an endpoint wrote it, and by nothing when the   *)
(* packet generator did.  Bytes are numbers 0..255 and byte strings are    *)
(* sequences of them, indexed from 1 where Python counts from 0.           *)
(***************************************************************************)
EXTENDS Integers, Sequences, FiniteSets

Byte == 0..255

SYMBOL_START_BYTES == <<35, 36>>         \* b'\x23\x24', "#$"
SYMBOL_END_BYTES == <<36, 35>>           \* b'\x24\x23', "$#"
PACKET_MIN == 8                          \* start + length + min data + checksum
OVERHEAD == 7                            \* what a caller adds to data_size: 2 + 4 + 1
EQ == 61                                 \* b'='

(* A packet object: the key before '=' and the value after it. *)
Packets == [key_str : Seq(Byte), val_bytes : Seq(Byte)]
Packet(key, val) == [key_str |-> key, val_bytes |-> val]

(* set_key_value: an empty value drops the '=' as well. *)
data_bytes(p) ==
    IF p.val_bytes = <<>> THEN p.key_str
                          ELSE p.key_str \o <<EQ>> \o p.val_bytes
data_size(p) == Len(data_bytes(p))

(* Definitions named X_y are X with the defect y: what the code would be   *)
(* if it were wrong there.  They show that the properties notice it, and   *)
(* nothing else uses them.                                                 *)
calc_checksum_sum(raw) ==
    LET sum[k \in 0..Len(raw)] == IF k = 0 THEN 0 ELSE sum[k - 1] + raw[k]
    IN  sum[Len(raw)]

(* XOR of all bytes, stated bit by bit: bit i of the result is the parity  *)
(* of the number of bytes whose bit i is set.                              *)
Bit(b, i) == (b \div 2^i) % 2
Parity(raw, i) == Cardinality({k \in DOMAIN raw : Bit(raw[k], i) = 1}) % 2
calc_checksum(raw) ==
    Parity(raw, 0) + 2 * Parity(raw, 1) + 4 * Parity(raw, 2) + 8 * Parity(raw, 3)
    + 16 * Parity(raw, 4) + 32 * Parity(raw, 5) + 64 * Parity(raw, 6) + 128 * Parity(raw, 7)

-----------------------------------------------------------------------------
(* Writing a frame. *)

(* struct.pack('<1I', n) *)
PackSize(n) == <<n % 256, (n \div 256) % 256, (n \div 65536) % 256, (n \div 16777216) % 256>>

(* The frame up to and including the checksum: what the generator writes.  *)
FrameBody(p) ==
    SYMBOL_START_BYTES \o PackSize(data_size(p)) \o data_bytes(p)
        \o <<calc_checksum(data_bytes(p))>>

(* get_bytes of the endpoints. *)
get_bytes(p) == FrameBody(p) \o SYMBOL_END_BYTES

-----------------------------------------------------------------------------
(* Reading a frame: Packet.parse.                                          *)
(*                                                                         *)
(* The loop looks for START from the left.  A frame that is whole but      *)
(* whose checksum is wrong is stepped over by cutting its START and        *)
(* looking again; anything else ends the search.  As two occurrences of    *)
(* START cannot overlap, the loop visits exactly the elements of StartsAt  *)
(* in order, and it is decided by the first one that is not stepped over.  *)

StartsAt(raw) == {i \in 1..(Len(raw) - 1) : raw[i] = 35 /\ raw[i + 1] = 36}

SizeAt(raw, i) ==
    raw[i + 2] + 256 * raw[i + 3] + 65536 * raw[i + 4] + 16777216 * raw[i + 5]

Whole(raw, i) ==
    LET rest == Len(raw) - i + 1
    IN  rest >= PACKET_MIN /\ SizeAt(raw, i) <= rest - OVERHEAD

DataAt(raw, i) == SubSeq(raw, i + 6, i + 5 + SizeAt(raw, i))

ChecksumOK_unchecked(raw, i) == TRUE
ChecksumOK(raw, i) == calc_checksum(DataAt(raw, i)) = raw[i + 6 + SizeAt(raw, i)]

Deciding(raw) == {i \in StartsAt(raw) : Whole(raw, i) => ChecksumOK(raw, i)}

Least(S) == CHOOSE i \in S : \A j \in S : i <= j

(* The first '=' separates key and value, unless it is the first byte. *)
Split(data) ==
    LET eqs == {k \in DOMAIN data : data[k] = EQ}
    IN  IF eqs # {} /\ Least(eqs) > 1
        THEN Packet(SubSeq(data, 1, Least(eqs) - 1), SubSeq(data, Least(eqs) + 1, Len(data)))
        ELSE Packet(data, <<>>)

(* Whether key.decode() succeeds; the inputs used hold no multi-byte       *)
(* characters, so a byte above 127 is a decoding error.                    *)
Decodable(key) == \A k \in DOMAIN key : key[k] < 128

(* The index where parse finds its packet, 0 when it returns None: no      *)
(* START, a frame still incomplete, or an exception while decoding the key.*)
FoundAt(raw) ==
    IF Deciding(raw) = {} THEN 0
    ELSE LET i == Least(Deciding(raw))
         IN  IF Whole(raw, i) /\ Decodable(Split(DataAt(raw, i)).key_str) THEN i ELSE 0

(* The packet parse returns when FoundAt(raw) # 0; the index is not part   *)
(* of the result.                                                          *)
parse(raw) == Split(DataAt(raw, FoundAt(raw)))
=============================================================================
