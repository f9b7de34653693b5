------------------------- MODULE WuartReceiverProofs -------------------------
(***************************************************************************)
(* Theorems about WuartReceiver, for any packets a peer may send, any      *)
(* number of them and any size of the receive buffer.                      *)
(***************************************************************************)
EXTENDS WuartReceiver, WireFormatProofs

-----------------------------------------------------------------------------
(* The operators on packets and on byte strings. *)

LEMMA ConfigFields ==
    ASSUME config \in Configs
    PROVE  /\ config.sender \in {"endpoint", "generator"}
           /\ config.encodes \in BOOLEAN
           /\ config.decodes \in BOOLEAN
           /\ config.network \in {"any", "coalesced", "paced"}
           /\ config.offers \subseteq Offered
  BY ConfigAssumption DEF Config

LEMMA OfferedPackets == Offered \subseteq Packets
  BY OfferedAssumption DEF Packets

LEMMA PacketType ==
    ASSUME NEW k \in Seq(Byte), NEW v \in Seq(Byte)
    PROVE  /\ Packet(k, v) \in Packets
           /\ Packet(k, v).key_str = k
           /\ Packet(k, v).val_bytes = v
  BY DEF Packet, Packets

LEMMA EncodedType ==
    ASSUME NEW p \in Packets
    PROVE  Encoded(p) \in Packets
  <1>1. CASE p.val_bytes = <<>>
    BY <1>1, Zenon DEF Encoded, do_encode
  <1>2. CASE p.val_bytes # <<>>
    <2>1. bytes_encode(p.val_bytes) \in Seq(Byte)
      BY PacketFields, DecodeUndoesEncode, Zenon
    <2>2. Packet(p.key_str, bytes_encode(p.val_bytes)) \in Packets
      BY <2>1, PacketFields, PacketType, Zenon
    <2>. QED  BY <1>2, <2>2, Zenon DEF Encoded, do_encode
  <1>. QED  BY <1>1, <1>2

(* do_decode never makes a packet longer. *)
LEMMA DecodedPacket ==
    ASSUME NEW p \in Packets
    PROVE  Decoded(p) \in Packets /\ data_size(Decoded(p)) <= data_size(p)
  <1>1. data_size(p) <= data_size(p)
    BY DataType
  <1>2. CASE p.val_bytes = <<>>
    BY <1>1, <1>2, Zenon DEF Decoded, do_decode
  <1>3. CASE p.val_bytes # <<>>
    <2>. DEFINE v == bytes_decode(p.val_bytes)
                q == Packet(p.key_str, v)
    <2>1. v \in Seq(Byte) /\ Len(v) <= Len(p.val_bytes)
      BY PacketFields, DecodedType, Zenon
    <2>2. q \in Packets /\ q.key_str = p.key_str /\ q.val_bytes = v
      BY <2>1, PacketFields, PacketType, Zenon
    <2>3. data_size(q) <= data_size(p)
      <3>. HIDE DEF q, v
      <3>1. data_size(q) = IF v = <<>> THEN Len(p.key_str) ELSE Len(p.key_str) + 1 + Len(v)
        BY <2>2, PacketFields
      <3>2. data_size(p) = Len(p.key_str) + 1 + Len(p.val_bytes)
        BY <1>3, PacketFields
      <3>3. Len(v) \in Nat /\ Len(p.key_str) \in Nat /\ Len(p.val_bytes) \in Nat
        BY <2>1, PacketFields
      <3>a. \A a, b, c \in Nat : a <= a + 1 + c /\ (b <= c => a + 1 + b <= a + 1 + c)
        OBVIOUS
      <3>4. Len(p.key_str) <= Len(p.key_str) + 1 + Len(p.val_bytes)
        BY <3>3, <3>a, Zenon
      <3>5. Len(p.key_str) + 1 + Len(v) <= Len(p.key_str) + 1 + Len(p.val_bytes)
        BY <2>1, <3>3, <3>a, Zenon
      <3>. QED  BY <3>1, <3>2, <3>4, <3>5
    <2>. QED  BY <1>1, <1>3, <2>2, <2>3, Zenon DEF Decoded, do_decode
  <1>. QED  BY <1>2, <1>3

LEMMA WireType ==
    ASSUME NEW p \in Packets
    PROVE  Wire(p) \in Seq(Byte)
  <1>1. FrameBody(Encoded(p)) \in Seq(Byte)
    BY EncodedType, FrameParts, Zenon
  <1>2. SYMBOL_END_BYTES \in Seq(Byte)
    BY DEF SYMBOL_END_BYTES, Byte
  <1>3. get_bytes(Encoded(p)) \in Seq(Byte)
    BY <1>1, <1>2 DEF get_bytes
  <1>. QED  BY <1>1, <1>3, Zenon DEF Wire

LEMMA StripType ==
    ASSUME NEW w \in Seq(Byte)
    PROVE  strip(w) \in Seq(Byte)
  <1>. DEFINE ink == {k \in DOMAIN w : ~IsSpace(w[k])}
              last == CHOOSE k \in ink : \A j \in ink : j <= k
  <1>1. CASE ink = {}
    <2>1. <<>> \in Seq(Byte)
      OBVIOUS
    <2>. QED  BY <1>1, <2>1, Zenon DEF strip
  <1>2. CASE ink # {}
    <2>1. ink \in SUBSET Nat /\ ink \subseteq 1..Len(w)
      OBVIOUS
    <2>2. Least(ink) \in 1..Len(w)
      BY <1>2, <2>1, LeastIs, Zenon
    <2>3. \E k \in ink : \A j \in ink : j <= k
      <3>. DEFINE back == {Len(w) - k : k \in ink}
      <3>1. back \in SUBSET Nat /\ back # {}
        BY <1>2
      <3>2. PICK b \in back : \A c \in back : b <= c
        BY <3>1, NatLeast, Zenon
      <3>3. PICK k \in ink : b = Len(w) - k
        OBVIOUS
      <3>4. \A j \in ink : Len(w) - k <= Len(w) - j
        BY <3>2, <3>3
      <3>5. Len(w) \in Nat
        OBVIOUS
      <3>6. \A j \in ink : j <= k
        <4>. SUFFICES ASSUME NEW j \in ink PROVE j <= k
          OBVIOUS
        <4>1. Len(w) - k <= Len(w) - j /\ k \in Nat /\ j \in Nat
          BY <3>4, <2>1
        <4>. QED  BY <3>5, <4>1
      <3>. QED  BY <3>6
    <2>4. last \in 1..Len(w)
      BY <2>1, <2>3, Zenon
    <2>5. strip(w) = SubSeq(w, Least(ink), last)
      BY <1>2, Zenon DEF strip
    <2>. HIDE DEF ink, last
    <2>6. SubSeq(w, Least(ink), last) \in Seq(Byte)
      BY <2>2, <2>4
    <2>. QED  BY <2>5, <2>6
  <1>. QED  BY <1>1, <1>2

LEMMA ResidueType ==
    ASSUME NEW w \in Seq(Byte)
    PROVE  Residue(w) \in Seq(Byte)
  BY DEF Residue

(* What is cut off a buffer ends with the frame the packet was found in. *)
LEMMA CutShort ==
    ASSUME NEW w \in Seq(Byte), FoundAt(w) # 0
    PROVE  /\ Taken(w) \in Packets
           /\ Cut(w) \in Seq(Byte)
           /\ Len(w) - Len(Cut(w)) <= FoundAt(w) - 1 + OVERHEAD + SizeAt(w, FoundAt(w))
  <1>. DEFINE n == data_size(Taken(w))
              i == FoundAt(w)
              z == SizeAt(w, i)
  <1>1. parse(w) \in Packets /\ i \in 1..Len(w) /\ z \in Nat /\ data_size(parse(w)) <= z
    BY ParseType
  <1>2. Taken(w) \in Packets /\ n <= data_size(parse(w))
    BY <1>1, DecodedPacket, Zenon DEF Taken
  <1>3. n \in Nat /\ data_size(parse(w)) \in Nat
    BY <1>1, <1>2, DataType
  <1>4. n <= z
    <2>. HIDE DEF n, z
    <2>. QED  BY <1>1, <1>2, <1>3
  <1>5. Cut(w) = SubSeq(w, 7 + n + 1, Len(w))
    BY DEF Cut, OVERHEAD
  <1>. HIDE DEF n, i, z
  <1>6. Cut(w) \in Seq(Byte)
    BY <1>3, <1>5
  <1>7. Len(w) - Len(Cut(w)) <= i - 1 + 7 + z
    <2>1. CASE 7 + n + 1 <= Len(w)
      <3>1. Len(Cut(w)) = Len(w) - (7 + n)
        BY <1>3, <1>5, <2>1
      <3>. QED  BY <1>1, <1>3, <1>4, <3>1
    <2>2. CASE ~(7 + n + 1 <= Len(w))
      <3>1. Len(Cut(w)) = 0 /\ Len(w) \in Nat
        BY <1>3, <1>5, <2>2
      <3>. QED  BY <1>1, <1>3, <1>4, <2>2, <3>1
    <2>. QED  BY <2>1, <2>2
  <1>. QED  BY <1>2, <1>6, <1>7 DEF OVERHEAD, i, z

-----------------------------------------------------------------------------
LEMMA TypeInit == Init => TypeOK
  BY DEF Init, TypeOK

LEMMA TypeStep == TypeOK /\ [Next]_vars => TypeOK'
  <1>. SUFFICES ASSUME TypeOK, [Next]_vars PROVE TypeOK'
    OBVIOUS
  <1>1. CASE Send
    <2>1. PICK p \in config.offers : /\ sent' = Append(sent, p)
                                     /\ net' = net \o Wire(p)
      BY <1>1 DEF Send
    <2>2. p \in Offered /\ p \in Packets
      BY ConfigFields, OfferedPackets DEF TypeOK
    <2>3. Wire(p) \in Seq(Byte)
      BY <2>2, WireType
    <2>4. sent' \in Seq(Offered)
      BY <2>1, <2>2 DEF TypeOK
    <2>5. net' \in Seq(Byte)
      BY <2>1, <2>3 DEF TypeOK
    <2>. QED  BY <1>1, <2>4, <2>5 DEF Send, TypeOK
  <1>2. CASE Receive
    <2>1. PICK n \in Cuts : Recv(n)
      BY <1>2 DEF Receive
    <2>2. n \in 1..Len(net) /\ net \in Seq(Byte)
      BY DEF Cuts, TypeOK
    <2>3. SubSeq(net, 1, n) \in Seq(Byte) /\ SubSeq(net, n + 1, Len(net)) \in Seq(Byte)
      BY <2>2
    <2>4. strip(SubSeq(net, 1, n)) \in Seq(Byte)
      BY <2>3, StripType
    <2>5. recv_buffer' \in Seq(Byte)
      BY <2>1, <2>4 DEF Recv, TypeOK
    <2>6. net' \in Seq(Byte)
      BY <2>1, <2>3 DEF Recv
    <2>7. phase' \in {"select", "drain", "exit"}
      BY <2>1 DEF Recv
    <2>. QED  BY <2>1, <2>5, <2>6, <2>7 DEF Recv, TypeOK
  <1>3. CASE HandleOne
    <2>1. Taken(recv_buffer) \in Packets /\ Cut(recv_buffer) \in Seq(Byte)
      BY <1>3, CutShort DEF HandleOne, TypeOK
    <2>2. handled' \in Seq(Packets) /\ recv_buffer' \in Seq(Byte)
      BY <1>3, <2>1 DEF HandleOne, TypeOK
    <2>. QED  BY <1>3, <2>2 DEF HandleOne, TypeOK
  <1>4. CASE HandleRaises
    BY <1>4 DEF HandleRaises, TypeOK
  <1>5. CASE EndDrain
    <2>1. recv_buffer' \in Seq(Byte)
      BY <1>5, ResidueType DEF EndDrain, TypeOK
    <2>. QED  BY <1>5, <2>1 DEF EndDrain, TypeOK
  <1>6. CASE UNCHANGED vars
    BY <1>6 DEF vars, TypeOK
  <1>. QED  BY <1>1, <1>2, <1>3, <1>4, <1>5, <1>6 DEF Next, Loop

(* What is on the wire and in the buffer is bytes, and every packet handed *)
(* to handle_packet is one, whatever arrives and however TCP cuts it.      *)
THEOREM TypeCorrect == Spec => []TypeOK
  BY TypeInit, TypeStep, PTL DEF Spec

(* The number of bytes cut off the buffer is computed from the packet as   *)
(* decoded, and it never reaches beyond the frame the packet came in: no   *)
(* byte of a following frame is lost, with or without -e.                  *)
THEOREM CutInFrame == Spec => CutStaysInFrame
  <1>1. TypeOK /\ HandleOne =>
            Len(recv_buffer) - Len(recv_buffer')
              <= FoundAt(recv_buffer) - 1 + OVERHEAD
                   + SizeAt(recv_buffer, FoundAt(recv_buffer))
    BY CutShort DEF HandleOne, TypeOK
  <1>. QED  BY <1>1, TypeCorrect, PTL DEF Spec, CutStaysInFrame
-----------------------------------------------------------------------------
(* Pieces of a frame: the k-th byte is the last one received. *)
LEMMA PieceRest ==
    ASSUME NEW w \in Seq(Byte), NEW k \in 0..Len(w), NEW x \in 0..(Len(w) - k)
    PROVE  /\ SubSeq(SubSeq(w, k + 1, Len(w)), 1, x) = SubSeq(w, k + 1, k + x)
           /\ SubSeq(SubSeq(w, k + 1, Len(w)), x + 1, Len(w) - k)
                = SubSeq(w, (k + x) + 1, Len(w))
  <1>1. SubSeq(SubSeq(w, k + 1, Len(w)), 1, x) = SubSeq(w, k + 1, k + x)
    OBVIOUS
  <1>2. SubSeq(SubSeq(w, k + 1, Len(w)), x + 1, Len(w) - k)
          = SubSeq(w, (k + x) + 1, Len(w))
    OBVIOUS
  <1>. QED  BY <1>1, <1>2

LEMMA PieceJoin ==
    ASSUME NEW w \in Seq(Byte), NEW a \in Nat, NEW k \in 0..Len(w), a <= k,
           NEW x \in 0..(Len(w) - k)
    PROVE  SubSeq(w, a + 1, k) \o SubSeq(w, k + 1, k + x) = SubSeq(w, a + 1, k + x)
  OBVIOUS

LEMMA PieceCut ==
    ASSUME NEW w \in Seq(Byte), NEW k \in 0..Len(w), NEW c \in 0..k
    PROVE  SubSeq(SubSeq(w, 1, k), c + 1, k) = SubSeq(w, c + 1, k)
  OBVIOUS

(* A chunk with ink at both ends is what strip makes of it. *)
LEMMA StripInked ==
    ASSUME NEW w \in Seq(Byte), Len(w) >= 1, ~IsSpace(w[1]), ~IsSpace(w[Len(w)])
    PROVE  strip(w) = w
  <1>. DEFINE ink == {k \in DOMAIN w : ~IsSpace(w[k])}
              last == CHOOSE k \in ink : \A j \in ink : j <= k
              n == Len(w)
  <1>1. n \in Nat /\ n >= 1 /\ ink \in SUBSET Nat /\ 1 \in ink /\ n \in ink
    OBVIOUS
  <1>2. \A j \in ink : 1 <= j /\ j <= n
    OBVIOUS
  <1>3. Least(ink) = 1
    BY <1>1, <1>2, LeastOf, Zenon
  <1>4. \E k \in ink : \A j \in ink : j <= k
    BY <1>1, <1>2, Zenon
  <1>5. last \in ink /\ \A j \in ink : j <= last
    BY <1>4, Zenon
  <1>6. last = n
    <2>. HIDE DEF last, ink
    <2>1. last <= n /\ n <= last /\ last \in Nat
      BY <1>1, <1>2, <1>5
    <2>. QED  BY <1>1, <2>1
  <1>7. ink # {}
    BY <1>1, Zenon
  <1>8. strip(w) = SubSeq(w, Least(ink), last)
    BY <1>7, Zenon DEF strip
  <1>9. SubSeq(w, 1, n) = w
    OBVIOUS
  <1>. QED  BY <1>3, <1>6, <1>8, <1>9, Zenon

(* Without a START in what stays behind, there is none in a piece of it. *)
LEMMA PieceStart ==
    ASSUME NEW w \in Seq(Byte), NEW c \in Nat, NEW b \in Nat, NEW k \in 0..Len(w),
           c <= b, b <= k, StartsAt(SubSeq(w, c + 1, Len(w))) = {}
    PROVE  StartsAt(SubSeq(w, b + 1, k)) = {}
  <1>. DEFINE whole == SubSeq(w, c + 1, Len(w))
              piece == SubSeq(w, b + 1, k)
              m == Len(w)
  <1>1. /\ m \in Nat /\ k \in Nat /\ k <= m /\ c <= m
        /\ Len(whole) = m - c /\ \A i \in 1..(m - c) : whole[i] = w[c + i]
        /\ Len(piece) = k - b /\ \A i \in 1..(k - b) : piece[i] = w[b + i]
    BY Piece
  <1>. HIDE DEF whole, piece, m
  <1>. SUFFICES ASSUME NEW i \in StartsAt(piece) PROVE FALSE
    BY DEF piece
  <1>2. i \in 1..(k - b - 1) /\ piece[i] = 35 /\ piece[i + 1] = 36
    BY <1>1 DEF StartsAt
  <1>3. w[b + i] = 35 /\ w[b + i + 1] = 36
    <2>1. i \in 1..(k - b) /\ i + 1 \in 1..(k - b) /\ b + (i + 1) = b + i + 1
      BY <1>1, <1>2
    <2>. QED  BY <1>1, <1>2, <2>1
  <1>. DEFINE j == b - c + i
  <1>4. /\ j \in 1..(m - c) /\ j + 1 \in 1..(m - c) /\ j \in 1..(m - c - 1)
        /\ c + j = b + i /\ c + (j + 1) = b + i + 1
    BY <1>1, <1>2
  <1>. HIDE DEF j
  <1>5. whole[j] = 35 /\ whole[j + 1] = 36
    BY <1>1, <1>3, <1>4
  <1>6. j \in StartsAt(whole)
    BY <1>1, <1>4, <1>5 DEF StartsAt
  <1>. QED  BY <1>6 DEF whole

LEMMA NoStart ==
    ASSUME NEW w \in Seq(Byte), StartsAt(w) = {}
    PROVE  FoundAt(w) = 0
  BY DEF FoundAt, Deciding

-----------------------------------------------------------------------------
(* A peer that pauses between its frames, and that runs with -e when this  *)
(* side does.  Body: the frame without END; Used: how much of it is cut    *)
(* off when the packet is handed on; Stray: what stays behind.             *)
Body(p) == FrameBody(Encoded(p))
Used(p) == OVERHEAD + data_size(p)
Stray(p) == SubSeq(Wire(p), Used(p) + 1, Len(Wire(p)))

(* What stays behind is dropped: without -e that is END or nothing.        *)
Paced ==
    /\ config.network = "paced"
    /\ config.encodes = config.decodes
    /\ \A p \in config.offers :
           /\ FourBytes(data_size(Encoded(p)))
           /\ Residue(Stray(p)) = <<>>

(* The invariant.  With k bytes of the frame of p, the n-th packet,        *)
(* received, net holds the rest of it; when all of it is received the peer *)
(* may have sent the next frame.                                           *)
After(p, n, k) ==
    \/ /\ n = Len(sent)
       /\ net = SubSeq(Wire(p), k + 1, Len(Wire(p)))
    \/ /\ n + 1 = Len(sent)
       /\ k = Len(Wire(p))
       /\ \E q \in config.offers : sent[n + 1] = q /\ net = Wire(q)

Between(p, n, k) ==
    /\ n \in 1..Len(sent)
    /\ sent[n] = p
    /\ k \in 2..Len(Wire(p))
    /\ k < Len(Wire(p)) => ~IsSpace(Wire(p)[k + 1])
    /\ After(p, n, k)

(* Nothing in the buffer: n packets handled, and perhaps one on its way.   *)
Idle(n) ==
    /\ n \in 0..Len(sent)
    /\ handled = SubSeq(sent, 1, n)
    /\ recv_buffer = <<>>
    /\ \/ n = Len(sent) /\ net = <<>>
       \/ /\ n + 1 = Len(sent)
          /\ \E q \in config.offers : sent[n + 1] = q /\ net = Wire(q)

(* The frame of p is in the buffer, as far as it has been received.        *)
Filling(p, n, k) ==
    /\ Between(p, n, k)
    /\ handled = SubSeq(sent, 1, n - 1)
    /\ recv_buffer = SubSeq(Wire(p), 1, k)
    /\ phase = "select" => k < Len(Body(p))

(* p has been handed on, and some of its frame from b on is in the buffer. *)
Emptying(p, n, k, b) ==
    /\ Between(p, n, k)
    /\ k >= Len(Body(p))
    /\ b \in Used(p)..k
    /\ handled = SubSeq(sent, 1, n)
    /\ recv_buffer = SubSeq(Wire(p), b + 1, k)
    /\ phase = "select" => k < Len(Wire(p))

Framed ==
    \/ \E n \in Nat : Idle(n)
    \/ \E p \in config.offers, n \in Nat, k \in Nat : Filling(p, n, k)
    \/ \E p \in config.offers, n \in Nat, k \in Nat, b \in Nat : Emptying(p, n, k, b)

PInv ==
    /\ TypeOK
    /\ Paced
    /\ sent \in Seq(config.offers)
    /\ phase # "exit"
    /\ Framed

(* What handle_packet gets of a packet, and how much of its frame is cut   *)
(* off, when both ends agree on -e.                                        *)
LEMMA Agreed ==
    ASSUME TypeOK, config.decodes = config.encodes, NEW p \in config.offers
    PROVE  /\ p \in Packets /\ Encoded(p) \in Packets
           /\ p.key_str # <<>>
           /\ \A j \in 1..Len(p.key_str) : p.key_str[j] # EQ /\ p.key_str[j] < 128
           /\ Encoded(p).key_str = p.key_str
           /\ Decoded(Encoded(p)) = p
           /\ ~(config.decodes /\ DecodeRaises(Encoded(p).val_bytes))
           /\ Wire(p) \in Seq(Byte)
           /\ Len(Wire(p)) \in Nat /\ Len(Body(p)) \in Nat /\ Used(p) \in Nat
           /\ 8 <= Used(p) /\ Used(p) <= Len(Body(p)) /\ Len(Body(p)) <= Len(Wire(p))
           /\ \A i \in 1..Len(Body(p)) : Wire(p)[i] = Body(p)[i]
           /\ Wire(p)[1] = 35 /\ Wire(p)[2] = 36
  <1>0. /\ p \in Offered /\ p \in Packets
        /\ config.encodes \in BOOLEAN /\ config.decodes = config.encodes
    BY ConfigFields, OfferedPackets DEF TypeOK
  <1>1. Encoded(p) \in Packets /\ Wire(p) \in Seq(Byte)
    BY <1>0, EncodedType, WireType
  <1>k. /\ p.key_str # <<>> /\ p.key_str \in Seq(Byte)
        /\ \A j \in 1..Len(p.key_str) : p.key_str[j] # EQ /\ p.key_str[j] < 128
    BY <1>0, OfferedAssumption, SMT DEF Packets
  <1>v. p.val_bytes \in Seq(Byte)
    BY <1>0 DEF Packets
  <1>2. /\ Encoded(p).key_str = p.key_str
        /\ Decoded(Encoded(p)) = p
        /\ ~(config.decodes /\ DecodeRaises(Encoded(p).val_bytes))
    <2>1. CASE ~config.encodes
      BY <1>0, <2>1, Zenon DEF Encoded, Decoded
    <2>2. CASE config.encodes /\ p.val_bytes = <<>>
      <3>1. Encoded(p) = p /\ Decoded(p) = p
        BY <2>2, Zenon DEF Encoded, Decoded, do_encode, do_decode
      <3>2. ~DecodeRaises(<<>>)
        BY DecoderEmpty DEF DecodeRaises, DecoderStart
      <3>. QED  BY <2>2, <3>1, <3>2, Zenon
    <2>3. CASE config.encodes /\ p.val_bytes # <<>>
      <3>. DEFINE v == bytes_encode(p.val_bytes)
      <3>1. /\ v \in Seq(Byte) /\ bytes_decode(v) = p.val_bytes
            /\ ~DecodeRaises(v) /\ v # <<>>
        BY <1>v, <2>3, DecodeUndoesEncode, EncodedNotEmpty, Zenon
      <3>. HIDE DEF v
      <3>2. Encoded(p) = Packet(p.key_str, v)
        BY <2>3, Zenon DEF Encoded, do_encode, v
      <3>3. Encoded(p).key_str = p.key_str /\ Encoded(p).val_bytes = v
        <4>1. p.key_str \in Seq(Byte) /\ v \in Seq(Byte)
          BY <1>k, <3>1, Zenon
        <4>2. Packet(p.key_str, v).key_str = p.key_str /\ Packet(p.key_str, v).val_bytes = v
          BY <4>1, PacketType, Zenon
        <4>. QED  BY <3>2, <4>2, Zenon
      <3>4. Decoded(Encoded(p)) = Packet(p.key_str, p.val_bytes)
        BY <1>0, <2>3, <3>1, <3>3, Zenon DEF Decoded, do_decode
      <3>5. Packet(p.key_str, p.val_bytes) = p
        <4>1. p \in [key_str : Seq(Byte), val_bytes : Seq(Byte)]
          BY <1>0 DEF Packets
        <4>2. p = [key_str |-> p.key_str, val_bytes |-> p.val_bytes]
          BY <4>1
        <4>. QED  BY <4>2, Zenon DEF Packet
      <3>. QED  BY <3>1, <3>3, <3>4, <3>5, Zenon
    <2>. QED  BY <1>0, <2>1, <2>2, <2>3
  <1>. DEFINE n == data_size(p)
              e == data_size(Encoded(p))
              f == Body(p)
              w == Wire(p)
              u == Used(p)
  <1>5. /\ f \in Seq(Byte) /\ Len(f) = 7 + e /\ f[1] = 35 /\ f[2] = 36
        /\ n \in Nat /\ e \in Nat
    BY <1>0, <1>1, FrameParts, DataType DEF Body, OVERHEAD
  <1>6. n <= e
    BY <1>1, <1>2, DecodedPacket
  <1>7. n >= 1
    <2>1. Len(p.key_str) \in Nat /\ Len(p.key_str) > 0 /\ Len(p.val_bytes) \in Nat
      BY <1>k, <1>v
    <2>2. n = IF p.val_bytes = <<>> THEN Len(p.key_str)
              ELSE Len(p.key_str) + 1 + Len(p.val_bytes)
      BY <1>0, PacketFields
    <2>. DEFINE a == Len(p.key_str)
                b == Len(p.val_bytes)
    <2>3. n = a \/ n = a + 1 + b
      BY <2>2, Zenon
    <2>. HIDE DEF n, a, b
    <2>4. a \in Nat /\ a > 0 /\ b \in Nat
      BY <2>1 DEF a, b
    <2>. QED  BY <2>3, <2>4
  <1>8. w = f \/ w = f \o <<36, 35>>
    BY DEF Wire, Body, get_bytes, SYMBOL_END_BYTES
  <1>9. u = 7 + n
    BY DEF Used, OVERHEAD
  <1>. HIDE DEF n, e, f, w, u
  <1>11. /\ w \in Seq(Byte) /\ Len(w) \in Nat /\ Len(f) <= Len(w)
         /\ \A i \in 1..Len(f) : w[i] = f[i]
    <2>1. w \in Seq(Byte)
      BY <1>1 DEF w
    <2>2. CASE w = f
      BY <1>5, <2>1, <2>2
    <2>3. CASE w = f \o <<36, 35>>
      BY <1>5, <2>1, <2>3
    <2>. QED  BY <1>8, <2>2, <2>3
  <1>12. /\ u \in Nat /\ 8 <= u /\ u <= Len(f) /\ Len(f) \in Nat
         /\ w[1] = 35 /\ w[2] = 36
    BY <1>5, <1>6, <1>7, <1>9, <1>11
  <1>. QED  BY <1>0, <1>1, <1>k, <1>2, <1>11, <1>12 DEF f, w, u

(* What Paced says of the frame of a packet. *)
LEMMA FrameOf ==
    ASSUME TypeOK, Paced, NEW p \in config.offers
    PROVE  /\ p \in Packets
           /\ Wire(p) \in Seq(Byte)
           /\ Len(Wire(p)) \in Nat /\ Len(Body(p)) \in Nat /\ Used(p) \in Nat
           /\ 8 <= Used(p) /\ Used(p) <= Len(Body(p)) /\ Len(Body(p)) <= Len(Wire(p))
           /\ \A i \in 1..Len(Body(p)) : Wire(p)[i] = Body(p)[i]
           /\ Wire(p)[1] = 35 /\ Wire(p)[2] = 36
           /\ Sendable(Encoded(p))
           /\ Decoded(Encoded(p)) = p
           /\ ~(config.decodes /\ DecodeRaises(Encoded(p).val_bytes))
           /\ StartsAt(Stray(p)) = {}
           /\ Used(p) < Len(Wire(p)) => Wire(p)[Len(Wire(p))] # PACKET_MIN
  <1>1. config.decodes = config.encodes
    BY DEF Paced
  <1>3. FourBytes(data_size(Encoded(p))) /\ Residue(Stray(p)) = <<>>
    BY DEF Paced
  <1>4. Sendable(Encoded(p))
    <2>1. /\ p \in Packets /\ Encoded(p) \in Packets /\ p.key_str # <<>>
          /\ \A j \in 1..Len(p.key_str) : p.key_str[j] # EQ /\ p.key_str[j] < 128
          /\ Encoded(p).key_str = p.key_str
      BY <1>1, Agreed
    <2>. QED  BY <1>3, <2>1, Zenon DEF Sendable
  <1>. DEFINE w == Wire(p)
              u == Used(p)
  <1>10. Stray(p) = SubSeq(w, u + 1, Len(w))
    BY DEF Stray
  <1>11. /\ w \in Seq(Byte) /\ Len(w) \in Nat /\ Len(Body(p)) \in Nat /\ u \in Nat
         /\ u <= Len(Body(p)) /\ Len(Body(p)) <= Len(w)
    BY <1>1, Agreed
  <1>. HIDE DEF w, u
  <1>12. u \in Nat /\ u <= Len(w)
    BY <1>11
  <1>13. StartsAt(Stray(p)) = {} /\ (u < Len(w) => w[Len(w)] # PACKET_MIN)
    <2>. DEFINE s == Stray(p)
    <2>1. /\ s \in Seq(Byte) /\ Len(s) = Len(w) - u
          /\ \A i \in 1..(Len(w) - u) : s[i] = w[u + i]
      <3>1. Len(w) \in 0..Len(w) /\ u <= Len(w)
        BY <1>11, <1>12
      <3>2. w \in Seq(Byte) /\ u \in Nat
        BY <1>11, <1>12
      <3>3. /\ SubSeq(w, u + 1, Len(w)) \in Seq(Byte)
            /\ Len(SubSeq(w, u + 1, Len(w))) = Len(w) - u
            /\ \A i \in 1..(Len(w) - u) : SubSeq(w, u + 1, Len(w))[i] = w[u + i]
        BY <3>1, <3>2, Piece, Zenon
      <3>. QED  BY <1>10, <3>3, Zenon
    <2>. HIDE DEF s
    <2>2. Residue(s) = <<>>
      BY <1>3 DEF s
    <2>3. CASE s = <<>>
      <3>1. StartsAt(s) = {} /\ ~(u < Len(w))
        BY <1>11, <1>12, <2>1, <2>3 DEF StartsAt
      <3>. QED  BY <3>1 DEF s
    <2>4. CASE s # <<>>
      <3>1. StartsAt(s) = {} /\ s[Len(s)] # PACKET_MIN
        BY <2>2, <2>4 DEF Residue
      <3>2. u < Len(w) => s[Len(s)] = w[Len(w)]
        BY <1>11, <1>12, <2>1
      <3>. QED  BY <3>1, <3>2 DEF s
    <2>. QED  BY <2>3, <2>4
  <1>. QED  BY <1>1, <1>4, <1>13, Agreed, Zenon DEF w, u

(* The operators that read config, after a step. *)
LEMMA SameConfig ==
    ASSUME config' = config
    PROVE  \A p : Encoded(p)' = Encoded(p) /\ Wire(p)' = Wire(p) /\ Body(p)' = Body(p)
  <1>. TAKE p
  <1>1. Encoded(p)' = Encoded(p)
    BY DEF Encoded
  <1>2. Wire(p)' = Wire(p)
    BY <1>1 DEF Wire
  <1>3. Body(p)' = Body(p)
    BY <1>1 DEF Body
  <1>. QED  BY <1>1, <1>2, <1>3

LEMMA StillPaced == Paced /\ config' = config => Paced'
  <1>. SUFFICES ASSUME Paced, config' = config PROVE Paced'
    OBVIOUS
  <1>1. \A p : Encoded(p)' = Encoded(p) /\ Wire(p)' = Wire(p)
    BY SameConfig
  <1>2. ASSUME NEW p \in config.offers
        PROVE  FourBytes(data_size(Encoded(p)')) /\ Residue(Stray(p)') = <<>>
    <2>1. Encoded(p)' = Encoded(p) /\ Stray(p)' = Stray(p)
      BY <1>1 DEF Stray
    <2>. QED  BY <1>2, <2>1, Zenon DEF Paced
  <1>. QED  BY <1>2 DEF Paced

LEMMA WireNotEmpty ==
    ASSUME TypeOK, Paced, NEW p \in config.offers
    PROVE  Wire(p) \in Seq(Byte) /\ Wire(p) # <<>> /\ Len(Wire(p)) \in Nat /\ Len(Wire(p)) >= 8
  <1>1. /\ Wire(p) \in Seq(Byte) /\ Len(Wire(p)) \in Nat /\ Len(Body(p)) \in Nat
        /\ Used(p) \in Nat /\ 8 <= Used(p) /\ Used(p) <= Len(Body(p))
        /\ Len(Body(p)) <= Len(Wire(p))
    BY FrameOf
  <1>2. Len(Wire(p)) >= 8
    BY <1>1
  <1>3. Len(<<>>) = 0
    OBVIOUS
  <1>. QED  BY <1>1, <1>2, <1>3

(* The peer sends: all that it sent before has been received. *)
LEMMA BetweenSend ==
    ASSUME TypeOK, Paced, NEW p \in config.offers, NEW n \in Nat, NEW k \in Nat,
           Between(p, n, k), net = <<>>, NEW q \in config.offers,
           sent \in Seq(config.offers), sent' = Append(sent, q), net' = Wire(q),
           config' = config
    PROVE  Between(p, n, k)'
  <1>. DEFINE w == Wire(p)
  <1>1. w \in Seq(Byte) /\ Len(w) \in Nat
    BY WireNotEmpty
  <1>2. /\ n \in 1..Len(sent) /\ sent[n] = p /\ k \in 2..Len(w)
        /\ k < Len(w) => ~IsSpace(w[k + 1])
    BY DEF Between
  <1>3. n = Len(sent) /\ net = SubSeq(w, k + 1, Len(w))
    <2>1. \A r \in config.offers : Wire(r) # <<>>
      BY WireNotEmpty
    <2>. QED  BY <2>1, Zenon DEF Between, After
  <1>. HIDE DEF w
  <1>4. k = Len(w)
    <2>1. CASE k < Len(w)
      <3>1. k \in Nat /\ Len(w) \in 0..Len(w) /\ k <= Len(w)
        BY <1>1, <2>1
      <3>2. Len(SubSeq(w, k + 1, Len(w))) = Len(w) - k
        BY <1>1, <3>1, Piece, ZenonT(30)
      <3>3. Len(<<>>) = 0
        OBVIOUS
      <3>4. Len(w) - k = 0
        BY <1>3, <3>2, <3>3
      <3>. QED  BY <1>1, <2>1, <3>1, <3>4
    <2>. QED  BY <1>1, <1>2, <2>1
  <1>5. /\ Len(sent') = n + 1 /\ sent'[n] = p /\ sent'[n + 1] = q /\ n \in 1..(n + 1)
    BY <1>2, <1>3
  <1>6. Wire(p)' = Wire(p) /\ Wire(q)' = Wire(q)
    BY SameConfig
  <1>7. After(p, n, k)'
    BY <1>4, <1>5, <1>6, Zenon DEF After, w
  <1>. QED  BY <1>2, <1>5, <1>6, <1>7, Zenon DEF Between, w

LEMMA SendFramed ==
    ASSUME TypeOK, Paced, sent \in Seq(config.offers), Framed, Send
    PROVE  sent' \in Seq(config.offers) /\ Framed'
  <1>1. PICK q \in config.offers : sent' = Append(sent, q) /\ net' = net \o Wire(q)
    BY DEF Send
  <1>2. /\ config' = config /\ handled' = handled
        /\ recv_buffer' = recv_buffer /\ phase' = phase /\ net = <<>>
    BY DEF Send, Paced
  <1>3. net' = Wire(q) /\ Wire(q)' = Wire(q)
    <2>1. Wire(q) \in Seq(Byte)
      BY WireNotEmpty
    <2>2. <<>> \o Wire(q) = Wire(q)
      BY <2>1
    <2>. QED  BY <1>1, <1>2, <2>2, SameConfig
  <1>4. /\ Len(sent) \in Nat /\ Len(sent') = Len(sent) + 1
        /\ sent'[Len(sent) + 1] = q /\ sent' \in Seq(config.offers)
    BY <1>1
  <1>5. \A n \in 0..Len(sent) : SubSeq(sent', 1, n) = SubSeq(sent, 1, n)
    BY <1>1
  <1>6. CASE \E n \in Nat : Idle(n)
    <2>1. PICK n \in Nat : Idle(n)
      BY <1>6
    <2>2. n = Len(sent)
      <3>1. \A r \in config.offers : Wire(r) # <<>>
        BY WireNotEmpty
      <3>. QED  BY <1>2, <2>1, <3>1, Zenon DEF Idle
    <2>3. /\ n \in 0..Len(sent') /\ handled' = SubSeq(sent', 1, n)
          /\ recv_buffer' = <<>> /\ n + 1 = Len(sent') /\ sent'[n + 1] = q
      <3>1. handled = SubSeq(sent, 1, n) /\ recv_buffer = <<>>
        BY <2>1, Zenon DEF Idle
      <3>2. n \in 0..Len(sent) /\ n \in 0..(Len(sent) + 1)
        BY <1>4, <2>2
      <3>. QED  BY <1>2, <1>4, <1>5, <2>2, <3>1, <3>2, Zenon
    <2>4. Idle(n)'
      BY <1>2, <1>3, <2>3, Zenon DEF Idle
    <2>. QED  BY <1>4, <2>4, Zenon DEF Framed
  <1>7. CASE \E p \in config.offers, n \in Nat, k \in Nat : Filling(p, n, k)
    <2>1. PICK p \in config.offers, n \in Nat, k \in Nat : Filling(p, n, k)
      BY <1>7
    <2>2. Between(p, n, k)'
      BY <1>1, <1>2, <1>3, <2>1, BetweenSend, Zenon DEF Filling
    <2>3. handled' = SubSeq(sent', 1, n - 1)
      <3>1. n \in 1..Len(sent) /\ handled = SubSeq(sent, 1, n - 1)
        BY <2>1, Zenon DEF Filling, Between
      <3>2. n - 1 \in 0..Len(sent)
        BY <1>4, <3>1
      <3>. QED  BY <1>2, <1>5, <3>1, <3>2, Zenon
    <2>4. Wire(p)' = Wire(p) /\ Body(p)' = Body(p)
      BY <1>2, SameConfig
    <2>5. Filling(p, n, k)'
      BY <1>2, <2>1, <2>2, <2>3, <2>4, Zenon DEF Filling
    <2>. QED  BY <1>2, <1>4, <2>5, Zenon DEF Framed
  <1>8. CASE \E p \in config.offers, n \in Nat, k \in Nat, b \in Nat : Emptying(p, n, k, b)
    <2>1. PICK p \in config.offers, n \in Nat, k \in Nat, b \in Nat : Emptying(p, n, k, b)
      BY <1>8
    <2>2. Between(p, n, k)'
      BY <1>1, <1>2, <1>3, <2>1, BetweenSend, Zenon DEF Emptying
    <2>3. handled' = SubSeq(sent', 1, n)
      <3>1. n \in 1..Len(sent) /\ handled = SubSeq(sent, 1, n)
        BY <2>1, Zenon DEF Emptying, Between
      <3>2. n \in 0..Len(sent)
        BY <1>4, <3>1
      <3>. QED  BY <1>2, <1>5, <3>1, <3>2, Zenon
    <2>4. Wire(p)' = Wire(p) /\ Body(p)' = Body(p)
      BY <1>2, SameConfig
    <2>5. Emptying(p, n, k, b)'
      BY <1>2, <2>1, <2>2, <2>3, <2>4, Zenon DEF Emptying
    <2>. QED  BY <1>2, <1>4, <2>5, Zenon DEF Framed
  <1>. QED  BY <1>6, <1>7, <1>8 DEF Framed

(* A chunk of a frame: strip takes nothing off it, and it joins what has   *)
(* been received before.                                                   *)
Pending(w, k) ==
    /\ w \in Seq(Byte)
    /\ k \in Nat
    /\ k < Len(w)
    /\ net = SubSeq(w, k + 1, Len(w))
    /\ ~IsSpace(w[k + 1])

Chunked(w, k, x) ==
    /\ k + x \in 1..Len(w)
    /\ strip(SubSeq(net, 1, x)) = SubSeq(w, k + 1, k + x)
    /\ SubSeq(w, k + 1, k + x) # <<>>
    /\ SubSeq(net, x + 1, Len(net)) = SubSeq(w, (k + x) + 1, Len(w))
    /\ k + x < Len(w) => ~IsSpace(w[k + x + 1])

LEMMA Chunk ==
    ASSUME NEW w, NEW k, Pending(w, k), NEW x \in 1..Len(net), InkedCut(x)
    PROVE  Chunked(w, k, x)
  <1>. DEFINE m == Len(w)
  <1>0. /\ w \in Seq(Byte) /\ k \in Nat /\ m \in Nat /\ m = Len(w) /\ k < m
        /\ net = SubSeq(w, k + 1, m) /\ ~IsSpace(w[k + 1])
    BY DEF Pending
  <1>. HIDE DEF m
  <1>1. k <= m /\ m \in 0..Len(w) /\ k \in 0..Len(w)
    BY <1>0
  <1>2. /\ net \in Seq(Byte) /\ Len(net) = m - k
        /\ \A i \in 1..(m - k) : net[i] = w[k + i]
    <2>1. /\ SubSeq(w, k + 1, m) \in Seq(Byte) /\ Len(SubSeq(w, k + 1, m)) = m - k
          /\ \A i \in 1..(m - k) : SubSeq(w, k + 1, m)[i] = w[k + i]
      <3>1. w \in Seq(Byte) /\ k \in Nat /\ m \in 0..Len(w) /\ k <= m
        BY <1>0, <1>1
      <3>. QED  BY <3>1, Piece, Zenon
    <2>. QED  BY <1>0, <2>1, Zenon
  <1>3. x \in 1..(m - k) /\ x \in 0..(Len(w) - k) /\ k + x \in 1..m /\ k + x \in 0..Len(w)
    BY <1>0, <1>1, <1>2
  <1>4. /\ SubSeq(net, 1, x) = SubSeq(w, k + 1, k + x)
        /\ SubSeq(net, x + 1, Len(net)) = SubSeq(w, (k + x) + 1, m)
    BY <1>0, <1>1, <1>2, <1>3, PieceRest
  <1>. DEFINE c == SubSeq(w, k + 1, k + x)
  <1>5. /\ c \in Seq(Byte) /\ Len(c) = (k + x) - k
        /\ \A i \in 1..((k + x) - k) : c[i] = w[k + i]
    <2>1. k <= k + x
      BY <1>0, <1>3
    <2>2. w \in Seq(Byte) /\ k \in Nat /\ k + x \in 0..Len(w)
      BY <1>0, <1>3
    <2>. QED  BY <2>1, <2>2, Piece, Zenon
  <1>. HIDE DEF c
  <1>6. Len(c) = x /\ c[1] = w[k + 1] /\ c[x] = net[x] /\ Len(c) >= 1
    <2>1. (k + x) - k = x /\ 1 \in 1..x /\ x \in 1..x /\ x >= 1
      BY <1>0, <1>3
    <2>2. c[1] = w[k + 1] /\ c[x] = w[k + x] /\ net[x] = w[k + x]
      BY <1>0, <1>2, <1>3, <1>5, <2>1
    <2>. QED  BY <1>0, <1>5, <2>1, <2>2
  <1>7. ~IsSpace(c[1]) /\ ~IsSpace(c[Len(c)])
    BY <1>0, <1>6 DEF InkedCut
  <1>8. strip(c) = c
    BY <1>0, <1>5, <1>6, <1>7, StripInked
  <1>9. c # <<>>
    BY <1>0, <1>5, <1>6
  <1>10. k + x < m => ~IsSpace(w[k + x + 1])
    <2>. SUFFICES ASSUME k + x < m PROVE ~IsSpace(w[k + x + 1])
      OBVIOUS
    <2>1. x < Len(net) /\ x + 1 \in 1..(m - k) /\ k + (x + 1) = k + x + 1
      BY <1>0, <1>2, <1>3
    <2>2. net[x + 1] = w[k + x + 1]
      BY <1>0, <1>2, <2>1
    <2>. QED  BY <1>0, <2>1, <2>2 DEF InkedCut
  <1>. QED  BY <1>3, <1>4, <1>8, <1>9, <1>10 DEF c, m, Chunked

LEMMA ReceiveFramed ==
    ASSUME TypeOK, Paced, sent \in Seq(config.offers), Framed, Receive
    PROVE  phase' # "exit" /\ Framed'
  <1>1. PICK x \in Cuts : Recv(x)
    BY DEF Receive
  <1>2. x \in 1..Len(net) /\ InkedCut(x) /\ StartUncut(x)
    BY DEF Cuts, Paced
  <1>. DEFINE chunk == strip(SubSeq(net, 1, x))
  <1>3. /\ phase = "select" /\ net' = SubSeq(net, x + 1, Len(net))
        /\ recv_buffer' = recv_buffer \o chunk
        /\ phase' = IF chunk = <<>> THEN "select" ELSE "drain"
        /\ config' = config /\ sent' = sent /\ handled' = handled
    BY <1>1 DEF Recv
  <1>4. phase' # "exit" /\ (chunk # <<>> => phase' # "select")
    BY <1>3
  <1>5. net # <<>>
    BY <1>2 DEF TypeOK
  <1>. HIDE DEF chunk
  <1>6. \A p : Wire(p)' = Wire(p) /\ Body(p)' = Body(p)
    BY <1>3, SameConfig
  <1>c. ASSUME NEW w, NEW k, Pending(w, k)
        PROVE  /\ k + x \in 1..Len(w)
               /\ chunk = SubSeq(w, k + 1, k + x)
               /\ chunk # <<>>
               /\ net' = SubSeq(w, (k + x) + 1, Len(w))
               /\ k + x < Len(w) => ~IsSpace(w[k + x + 1])
    <2>1. Chunked(w, k, x)
      BY <1>2, <1>c, Chunk, Zenon
    <2>. QED  BY <1>3, <2>1, Zenon DEF chunk, Chunked
  <1>7. CASE \E n \in Nat : Idle(n)
    <2>1. PICK n \in Nat : Idle(n)
      BY <1>7
    <2>2. PICK p \in config.offers : n + 1 = Len(sent) /\ sent[n + 1] = p /\ net = Wire(p)
      BY <1>5, <2>1, Zenon DEF Idle
    <2>. DEFINE w == Wire(p)
                m == Len(w)
    <2>3. w \in Seq(Byte) /\ m \in Nat /\ m >= 8 /\ w[1] = 35 /\ w[2] = 36
      BY FrameOf, WireNotEmpty
    <2>4. net = w /\ Wire(p) = w
      BY <2>2
    <2>. HIDE DEF w
    <2>5. /\ net = SubSeq(w, 0 + 1, m) /\ ~IsSpace(w[0 + 1]) /\ 0 < m
          /\ 0 \in Nat /\ m \in Nat /\ m = Len(w)
      BY <2>3, <2>4 DEF IsSpace
    <2>. HIDE DEF m
    <2>6. /\ 0 + x \in 1..m
          /\ chunk = SubSeq(w, 0 + 1, 0 + x)
          /\ chunk # <<>>
          /\ net' = SubSeq(w, (0 + x) + 1, m)
          /\ 0 + x < m => ~IsSpace(w[0 + x + 1])
      <3>1. Pending(w, 0)
        BY <2>3, <2>5, Zenon DEF Pending
      <3>. QED  BY <2>5, <3>1, <1>c, Zenon
    <2>7. x \in Nat /\ 0 + x = x /\ 0 + 1 = 1
      BY <1>2
    <2>8. x # 1
      <3>. SUFFICES ASSUME x = 1 PROVE FALSE
        OBVIOUS
      <3>1. 1 + 1 = 2 /\ 1 < Len(net)
        BY <2>3, <2>4, <2>5
      <3>. QED  BY <1>2, <2>3, <2>4, <3>1, Zenon DEF StartUncut
    <2>9. x \in 2..m
      BY <2>5, <2>6, <2>7, <2>8
    <2>10. recv_buffer' = SubSeq(w, 1, x)
      <3>1. recv_buffer = <<>>
        BY <2>1, Zenon DEF Idle
      <3>2. <<>> \o chunk = chunk
        <4>1. chunk \in Seq(Byte)
          BY <2>3, <2>5, <2>6, <2>7, <2>9
        <4>. QED  BY <4>1
      <3>. QED  BY <1>3, <2>6, <2>7, <3>1, <3>2
    <2>11. n + 1 \in Nat /\ (n + 1) - 1 = n /\ n + 1 \in 1..Len(sent)
      BY <2>2
    <2>12. handled' = SubSeq(sent', 1, (n + 1) - 1)
      BY <1>3, <2>1, <2>11, Zenon DEF Idle
    <2>13. /\ net' = SubSeq(w, x + 1, m)
           /\ x < m => ~IsSpace(w[x + 1])
      BY <2>6, <2>7
    <2>14. Between(p, n + 1, x)'
      BY <1>3, <1>6, <2>2, <2>4, <2>5, <2>9, <2>11, <2>13, Zenon DEF Between, After
    <2>15. Filling(p, n + 1, x)'
      BY <1>4, <1>6, <2>4, <2>6, <2>10, <2>12, <2>14, Zenon DEF Filling
    <2>. QED  BY <1>3, <1>4, <2>7, <2>11, <2>15, Zenon DEF Framed
  <1>8. ASSUME NEW p \in config.offers, NEW n \in Nat, NEW k \in Nat,
               Between(p, n, k), k < Len(Wire(p)), NEW a \in Nat, a <= k,
               recv_buffer = SubSeq(Wire(p), a + 1, k)
        PROVE  /\ Between(p, n, k + x)' /\ k + x \in Nat /\ k <= k + x
               /\ recv_buffer' = SubSeq(Wire(p), a + 1, k + x)
               /\ phase' # "select"
    <2>. DEFINE w == Wire(p)
                m == Len(w)
    <2>1. w \in Seq(Byte) /\ m \in Nat
      BY WireNotEmpty
    <2>2. /\ n \in 1..Len(sent) /\ sent[n] = p /\ k \in 2..m /\ k < m
          /\ ~IsSpace(w[k + 1])
      BY <1>8 DEF Between
    <2>3. net = SubSeq(w, k + 1, m) /\ n = Len(sent)
      BY <1>8, <2>2 DEF Between, After
    <2>w. /\ recv_buffer = SubSeq(w, a + 1, k) /\ Wire(p) = w /\ m = Len(w)
          /\ k \in Nat
      BY <1>8
    <2>. HIDE DEF w, m
    <2>4. /\ k + x \in 1..m
          /\ chunk = SubSeq(w, k + 1, k + x)
          /\ chunk # <<>>
          /\ net' = SubSeq(w, (k + x) + 1, m)
          /\ k + x < m => ~IsSpace(w[k + x + 1])
      <3>1. Pending(w, k)
        BY <2>1, <2>2, <2>3, <2>w, Zenon DEF Pending
      <3>. QED  BY <2>w, <3>1, <1>c, Zenon
    <2>5. k + x \in Nat /\ k <= k + x /\ k + x \in 2..m /\ x \in 0..(Len(w) - k) /\ k \in 0..Len(w)
      <3>1. k \in Nat /\ m \in Nat /\ x \in Nat /\ x >= 1
        BY <1>2, <2>1, <2>w
      <3>2. k \in 2..m /\ k + x \in 1..m
        BY <2>2, <2>4, Zenon
      <3>3. k + x \in Nat /\ k <= k + x /\ k + x \in 2..m /\ x \in 0..(m - k) /\ k \in 0..m
        BY <3>1, <3>2
      <3>. QED  BY <2>w, <3>3, Zenon
    <2>6. recv_buffer' = SubSeq(w, a + 1, k + x)
      <3>1. SubSeq(w, a + 1, k) \o SubSeq(w, k + 1, k + x) = SubSeq(w, a + 1, k + x)
        BY <1>8, <2>1, <2>5, PieceJoin
      <3>. QED  BY <1>3, <2>4, <2>w, <3>1
    <2>7. Between(p, n, k + x)'
      BY <1>3, <1>6, <2>2, <2>3, <2>4, <2>5, <2>w, Zenon DEF Between, After
    <2>. QED  BY <1>4, <2>4, <2>5, <2>6, <2>7, <2>w, Zenon
  <1>9. CASE \E p \in config.offers, n \in Nat, k \in Nat : Filling(p, n, k)
    <2>1. PICK p \in config.offers, n \in Nat, k \in Nat : Filling(p, n, k)
      BY <1>9
    <2>2. k < Len(Wire(p))
      <3>1. k < Len(Body(p))
        BY <1>3, <2>1 DEF Filling
      <3>2. Len(Body(p)) <= Len(Wire(p)) /\ Len(Body(p)) \in Nat /\ Len(Wire(p)) \in Nat
        BY FrameOf
      <3>. QED  BY <3>1, <3>2
    <2>3. 0 \in Nat /\ 0 <= k /\ 0 + 1 = 1
      OBVIOUS
    <2>4. /\ Between(p, n, k + x)' /\ k + x \in Nat
          /\ recv_buffer' = SubSeq(Wire(p), 0 + 1, k + x)
          /\ phase' # "select"
      <3>1. Between(p, n, k) /\ recv_buffer = SubSeq(Wire(p), 0 + 1, k)
        BY <2>1, <2>3 DEF Filling
      <3>. QED  BY <1>8, <2>2, <2>3, <3>1
    <2>5. handled' = SubSeq(sent', 1, n - 1)
      BY <1>3, <2>1, Zenon DEF Filling
    <2>6. Filling(p, n, k + x)'
      BY <1>6, <2>3, <2>4, <2>5, Zenon DEF Filling
    <2>. QED  BY <1>3, <1>4, <2>4, <2>6, Zenon DEF Framed
  <1>10. CASE \E p \in config.offers, n \in Nat, k \in Nat, b \in Nat : Emptying(p, n, k, b)
    <2>1. PICK p \in config.offers, n \in Nat, k \in Nat, b \in Nat : Emptying(p, n, k, b)
      BY <1>10
    <2>2. /\ Between(p, n, k) /\ k < Len(Wire(p)) /\ recv_buffer = SubSeq(Wire(p), b + 1, k)
          /\ b \in Used(p)..k /\ k >= Len(Body(p)) /\ handled = SubSeq(sent, 1, n)
      BY <1>3, <2>1 DEF Emptying
    <2>3. Used(p) \in Nat /\ Len(Body(p)) \in Nat
      BY FrameOf
    <2>4. b <= k
      BY <2>2, <2>3
    <2>5. /\ Between(p, n, k + x)' /\ k + x \in Nat /\ k <= k + x
          /\ recv_buffer' = SubSeq(Wire(p), b + 1, k + x)
          /\ phase' # "select"
      BY <1>8, <2>2, <2>4
    <2>6. b \in Used(p)..(k + x) /\ k + x >= Len(Body(p))
      <3>. DEFINE u == Used(p)
                  f == Len(Body(p))
      <3>1. /\ u \in Nat /\ f \in Nat /\ b \in u..k /\ k >= f
            /\ k \in Nat /\ k + x \in Nat /\ k <= k + x
        BY <2>1, <2>2, <2>3, <2>5
      <3>. DEFINE c == k + x
      <3>. HIDE DEF u, f, c
      <3>2. c \in Nat /\ k <= c
        BY <3>1 DEF c
      <3>3. b \in u..c /\ c >= f
        BY <3>1, <3>2
      <3>. QED  BY <3>3 DEF u, f, c
    <2>7. Emptying(p, n, k + x, b)'
      BY <1>3, <1>6, <2>2, <2>5, <2>6, Zenon DEF Emptying
    <2>. QED  BY <1>3, <1>4, <2>5, <2>7, Zenon DEF Framed
  <1>. QED  BY <1>4, <1>7, <1>9, <1>10 DEF Framed

(* What the parser makes of the buffer while the frame of p fills it: it   *)
(* waits until the frame is whole, and then reads the packet as sent.      *)
LEMMA BufferFilling ==
    ASSUME TypeOK, Paced, NEW p \in config.offers, NEW n \in Nat, NEW k \in Nat,
           Filling(p, n, k)
    PROVE  /\ k \in 2..Len(Wire(p)) /\ k <= Len(Wire(p))
           /\ Len(recv_buffer) = k
           /\ recv_buffer[1] = 35 /\ recv_buffer[2] = 36
           /\ k < Len(Body(p)) => FoundAt(recv_buffer) = 0
           /\ k >= Len(Body(p)) => FoundAt(recv_buffer) = 1 /\ parse(recv_buffer) = Encoded(p)
  <1>. DEFINE w == Wire(p)
              f == Body(p)
              raw == recv_buffer
  <1>1. /\ w \in Seq(Byte) /\ Len(w) \in Nat /\ Len(f) \in Nat /\ Len(f) <= Len(w)
        /\ \A i \in 1..Len(f) : w[i] = f[i]
        /\ w[1] = 35 /\ w[2] = 36 /\ Sendable(Encoded(p))
    BY FrameOf
  <1>2. k \in 2..Len(w) /\ raw = SubSeq(w, 1, k)
    BY DEF Filling, Between
  <1>3. f = FrameBody(Encoded(p))
    BY DEF Body
  <1>. HIDE DEF w, f, raw
  <1>4. raw \in Seq(Byte) /\ Len(raw) = k /\ \A i \in 1..k : raw[i] = w[i]
    BY <1>1, <1>2
  <1>5. Agree(raw, f)
    <2>. SUFFICES ASSUME NEW i \in 1..Len(raw), i <= Len(f) PROVE raw[i] = f[i]
      BY Zenon DEF Agree
    <2>1. i \in 1..Len(f) /\ i \in 1..k
      BY <1>1, <1>4
    <2>. QED  BY <1>1, <1>4, <2>1
  <1>6. k < Len(f) => FoundAt(raw) = 0
    BY <1>1, <1>3, <1>4, <1>5, ParseWaitsForFrame, Zenon
  <1>7. k >= Len(f) => FoundAt(raw) = 1 /\ parse(raw) = Encoded(p)
    BY <1>1, <1>3, <1>4, <1>5, ParseReadsFrame, Zenon
  <1>8. k <= Len(w) /\ raw[1] = 35 /\ raw[2] = 36
    BY <1>1, <1>2, <1>4
  <1>. QED  BY <1>2, <1>4, <1>6, <1>7, <1>8 DEF w, f, raw

(* ... and when p has been handed on: nothing more is found. *)
LEMMA BufferEmptying ==
    ASSUME TypeOK, Paced, NEW p \in config.offers, NEW n \in Nat, NEW k \in Nat, NEW b \in Nat,
           Emptying(p, n, k, b)
    PROVE  StartsAt(recv_buffer) = {} /\ FoundAt(recv_buffer) = 0
  <1>. DEFINE w == Wire(p)
              u == Used(p)
  <1>1. w \in Seq(Byte) /\ Len(w) \in Nat /\ u \in Nat /\ StartsAt(Stray(p)) = {}
    BY FrameOf
  <1>2. k \in 2..Len(w) /\ b \in u..k /\ recv_buffer = SubSeq(w, b + 1, k)
    BY DEF Emptying, Between
  <1>3. StartsAt(SubSeq(w, u + 1, Len(w))) = {}
    BY <1>1 DEF Stray
  <1>. HIDE DEF w, u
  <1>4. k \in 0..Len(w) /\ u <= b /\ b <= k
    BY <1>1, <1>2
  <1>5. StartsAt(recv_buffer) = {}
    BY <1>1, <1>2, <1>3, <1>4, PieceStart, Zenon
  <1>. QED  BY <1>5, NoStart DEF TypeOK

LEMMA BufferIdle ==
    ASSUME NEW n \in Nat, Idle(n)
    PROVE  StartsAt(recv_buffer) = {} /\ FoundAt(recv_buffer) = 0
  <1>1. recv_buffer = <<>>
    BY DEF Idle
  <1>2. <<>> \in Seq(Byte) /\ StartsAt(<<>>) = {}
    BY DEF StartsAt
  <1>. QED  BY <1>1, <1>2, NoStart, Zenon

(* A packet is found: it is the next of those sent. *)
LEMMA Found ==
    ASSUME TypeOK, Paced, Framed, FoundAt(recv_buffer) # 0
    PROVE  \E p \in config.offers, n \in Nat, k \in Nat :
               /\ Filling(p, n, k) /\ k >= Len(Body(p))
               /\ parse(recv_buffer) = Encoded(p) /\ Len(recv_buffer) = k
  <1>1. CASE \E n \in Nat : Idle(n)
    BY <1>1, BufferIdle, Zenon
  <1>2. CASE \E p \in config.offers, n \in Nat, k \in Nat, b \in Nat : Emptying(p, n, k, b)
    BY <1>2, BufferEmptying, Zenon
  <1>3. CASE \E p \in config.offers, n \in Nat, k \in Nat : Filling(p, n, k)
    <2>1. PICK p \in config.offers, n \in Nat, k \in Nat : Filling(p, n, k)
      BY <1>3
    <2>2. /\ Len(recv_buffer) = k
          /\ k < Len(Body(p)) => FoundAt(recv_buffer) = 0
          /\ k >= Len(Body(p)) => parse(recv_buffer) = Encoded(p)
      BY <2>1, BufferFilling
    <2>3. Len(Body(p)) \in Nat
      BY FrameOf
    <2>4. k >= Len(Body(p))
      BY <2>2, <2>3
    <2>. QED  BY <2>1, <2>2, <2>4
  <1>. QED  BY <1>1, <1>2, <1>3 DEF Framed

LEMMA HandleFramed ==
    ASSUME TypeOK, Paced, sent \in Seq(config.offers), Framed, HandleOne
    PROVE  /\ Framed'
           /\ Len(handled) < Len(sent) /\ handled = SubSeq(sent, 1, Len(handled))
           /\ handled' = Append(handled, sent[Len(handled) + 1])
  <1>1. /\ phase = "drain" /\ FoundAt(recv_buffer) # 0
        /\ recv_buffer' = Cut(recv_buffer)
        /\ handled' = Append(handled, Taken(recv_buffer))
        /\ config' = config /\ sent' = sent /\ net' = net /\ phase' = phase
    BY DEF HandleOne
  <1>2. PICK p \in config.offers, n \in Nat, k \in Nat :
            /\ Filling(p, n, k) /\ k >= Len(Body(p))
            /\ parse(recv_buffer) = Encoded(p) /\ Len(recv_buffer) = k
    BY <1>1, Found
  <1>. DEFINE w == Wire(p)
              u == Used(p)
              l == Len(Body(p))
  <1>3. /\ w \in Seq(Byte) /\ Len(w) \in Nat /\ u \in Nat /\ u <= l /\ l \in Nat
        /\ Decoded(Encoded(p)) = p
    BY FrameOf
  <1>4. /\ n \in 1..Len(sent) /\ sent[n] = p /\ k \in 2..Len(w) /\ k >= l
        /\ handled = SubSeq(sent, 1, n - 1) /\ recv_buffer = SubSeq(w, 1, k)
        /\ Between(p, n, k)
    BY <1>2, Zenon DEF Filling, Between
  <1>5. Taken(recv_buffer) = p /\ Cut(recv_buffer) = SubSeq(recv_buffer, u + 1, k)
    BY <1>2, <1>3, Zenon DEF Taken, Cut, Used
  <1>. HIDE DEF w, u, l
  <1>6. k \in 0..Len(w) /\ u \in 0..k /\ u \in u..k
    BY <1>3, <1>4
  <1>7. recv_buffer' = SubSeq(w, u + 1, k)
    BY <1>1, <1>3, <1>4, <1>5, <1>6, PieceCut
  <1>8. /\ Len(handled) = n - 1 /\ (n - 1) + 1 = n /\ n - 1 < Len(sent)
        /\ Append(SubSeq(sent, 1, n - 1), sent[n]) = SubSeq(sent, 1, n)
    BY <1>4
  <1>9. handled' = SubSeq(sent, 1, n) /\ handled' = Append(handled, sent[Len(handled) + 1])
    BY <1>1, <1>4, <1>5, <1>8
  <1>10. \A r : Wire(r)' = Wire(r) /\ Body(r)' = Body(r)
    BY <1>1, SameConfig
  <1>11. Between(p, n, k)'
    BY <1>1, <1>4, <1>10, Zenon DEF Between, After
  <1>12. Emptying(p, n, k, u)'
    <2>1. u = Used(p) /\ w = Wire(p) /\ l = Len(Body(p))
      BY DEF u, w, l
    <2>2. phase' # "select" /\ Used(p)' = Used(p)
      BY <1>1 DEF Used
    <2>. QED
      BY <1>1, <1>4, <1>6, <1>7, <1>9, <1>10, <1>11, <2>1, <2>2, Zenon DEF Emptying
  <1>13. Framed'
    BY <1>1, <1>3, <1>12, Zenon DEF Framed
  <1>. QED  BY <1>4, <1>8, <1>9, <1>13

(* The inner loop ends: a frame that is not whole stays, what is left of   *)
(* one that has been handed on goes as soon as all of it is there.         *)
LEMMA EndFramed ==
    ASSUME TypeOK, Paced, sent \in Seq(config.offers), Framed, EndDrain
    PROVE  Framed'
  <1>1. /\ FoundAt(recv_buffer) = 0 /\ recv_buffer' = Residue(recv_buffer) /\ phase' = "select"
        /\ config' = config /\ sent' = sent /\ net' = net /\ handled' = handled
    BY DEF EndDrain
  <1>2. \A r : Wire(r)' = Wire(r) /\ Body(r)' = Body(r)
    BY <1>1, SameConfig
  <1>3. CASE \E n \in Nat : Idle(n)
    <2>1. PICK n \in Nat : Idle(n)
      BY <1>3
    <2>2. recv_buffer = <<>>
      BY <2>1, Zenon DEF Idle
    <2>3. Residue(<<>>) = <<>>
      BY Zenon DEF Residue
    <2>4. Idle(n)'
      BY <1>1, <1>2, <2>1, <2>2, <2>3, Zenon DEF Idle
    <2>. QED  BY <2>4, Zenon DEF Framed
  <1>4. CASE \E p \in config.offers, n \in Nat, k \in Nat : Filling(p, n, k)
    <2>1. PICK p \in config.offers, n \in Nat, k \in Nat : Filling(p, n, k)
      BY <1>4
    <2>2. /\ k \in 2..Len(Wire(p)) /\ Len(recv_buffer) = k
          /\ recv_buffer[1] = 35 /\ recv_buffer[2] = 36
          /\ k >= Len(Body(p)) => FoundAt(recv_buffer) = 1
      BY <2>1, BufferFilling
    <2>3. k < Len(Body(p))
      <3>1. Len(Body(p)) \in Nat
        BY FrameOf
      <3>. QED  BY <1>1, <2>2, <3>1
    <2>4. 1 \in StartsAt(recv_buffer)
      <3>1. 1 \in 1..(k - 1) /\ 1 + 1 = 2
        BY <2>2
      <3>. QED  BY <2>2, <3>1, Zenon DEF StartsAt
    <2>5. Residue(recv_buffer) = recv_buffer
      BY <2>4, Zenon DEF Residue
    <2>6. Between(p, n, k)'
      BY <1>1, <1>2, <2>1, Zenon DEF Filling, Between, After
    <2>7. Filling(p, n, k)'
      BY <1>1, <1>2, <2>1, <2>3, <2>5, <2>6, Zenon DEF Filling
    <2>. QED  BY <1>1, <2>7, Zenon DEF Framed
  <1>5. CASE \E p \in config.offers, n \in Nat, k \in Nat, b \in Nat : Emptying(p, n, k, b)
    <2>1. PICK p \in config.offers, n \in Nat, k \in Nat, b \in Nat : Emptying(p, n, k, b)
      BY <1>5
    <2>. DEFINE w == Wire(p)
                u == Used(p)
                m == Len(w)
                raw == recv_buffer
    <2>2. /\ w \in Seq(Byte) /\ m \in Nat /\ u \in Nat
          /\ u < m => w[m] # PACKET_MIN
          /\ StartsAt(raw) = {}
      BY <2>1, FrameOf, BufferEmptying
    <2>3. /\ n \in 1..Len(sent) /\ k \in 2..m /\ b \in u..k /\ k >= Len(Body(p))
          /\ handled = SubSeq(sent, 1, n) /\ raw = SubSeq(w, b + 1, k)
          /\ Between(p, n, k) /\ After(p, n, k)
      BY <2>1, Zenon DEF Emptying, Between
    <2>4. Between(p, n, k)'
      BY <1>1, <1>2, <2>3, Zenon DEF Between, After
    <2>5. w = Wire(p) /\ u = Used(p) /\ m = Len(Wire(p)) /\ m = Len(w) /\ raw = recv_buffer
      OBVIOUS
    <2>. HIDE DEF w, u, m, raw
    <2>6. CASE k < m
      <3>1. CASE Residue(raw) = raw
        <4>1. Emptying(p, n, k, b)'
          BY <1>1, <1>2, <2>3, <2>4, <2>5, <2>6, <3>1, Zenon DEF Emptying, Used
        <4>. QED  BY <1>1, <4>1, Zenon DEF Framed
      <3>2. CASE Residue(raw) = <<>>
        <4>1. k \in u..k /\ SubSeq(w, k + 1, k) = <<>>
          BY <2>2, <2>3
        <4>2. Emptying(p, n, k, k)'
          BY <1>1, <1>2, <2>3, <2>4, <2>5, <2>6, <3>2, <4>1, Zenon DEF Emptying, Used
        <4>. QED  BY <1>1, <4>2, Zenon DEF Framed
      <3>. QED  BY <3>1, <3>2, Zenon DEF Residue
    <2>7. CASE k = m
      <3>1. Residue(raw) = <<>>
        <4>1. CASE raw = <<>>
          BY <4>1, Zenon DEF Residue
        <4>2. CASE raw # <<>>
          <5>1. /\ raw \in Seq(Byte) /\ Len(raw) = m - b
                /\ \A i \in 1..(m - b) : raw[i] = w[b + i]
            BY <2>2, <2>3, <2>5, <2>7, Piece, SMTT(30)
          <5>2. b < m /\ u < m /\ raw[Len(raw)] = w[m]
            <6>1. Len(raw) \in Nat /\ Len(raw) > 0
              BY <4>2, <5>1
            <6>2. b \in Nat /\ b < m /\ u < m /\ m - b \in 1..(m - b) /\ b + (m - b) = m
              BY <2>2, <2>3, <2>7, <5>1, <6>1
            <6>. QED  BY <5>1, <6>2
          <5>. QED  BY <2>2, <4>2, <5>2, Zenon DEF Residue
        <4>. QED  BY <4>1, <4>2
      <3>2. SubSeq(w, k + 1, m) = <<>>
        BY <2>2, <2>3, <2>7
      <3>3. n \in Nat /\ n \in 0..Len(sent)
        BY <2>3
      <3>4. \/ n = Len(sent) /\ net = <<>>
            \/ /\ n + 1 = Len(sent)
               /\ \E q \in config.offers : sent[n + 1] = q /\ net = Wire(q)
        BY <2>3, <2>5, <3>2, Zenon DEF After
      <3>5. Idle(n)'
        BY <1>1, <1>2, <2>3, <2>5, <3>1, <3>3, <3>4, Zenon DEF Idle
      <3>. QED  BY <3>3, <3>5, Zenon DEF Framed
    <2>. QED  BY <2>2, <2>3, <2>6, <2>7
  <1>. QED  BY <1>3, <1>4, <1>5 DEF Framed

LEMMA NeverRaises ==
    ASSUME TypeOK, Paced, Framed
    PROVE  ~HandleRaises
  <1>. SUFFICES ASSUME HandleRaises PROVE FALSE
    OBVIOUS
  <1>1. FoundAt(recv_buffer) # 0 /\ DecodeFails(recv_buffer)
    BY DEF HandleRaises
  <1>2. PICK p \in config.offers : parse(recv_buffer) = Encoded(p)
    BY <1>1, Found, Zenon
  <1>3. ~(config.decodes /\ DecodeRaises(Encoded(p).val_bytes))
    BY FrameOf
  <1>. QED  BY <1>1, <1>2, <1>3, Zenon DEF DecodeFails

LEMMA PacedInit == Init /\ Paced => PInv
  <1>. SUFFICES ASSUME Init, Paced PROVE PInv
    OBVIOUS
  <1>1. TypeOK
    BY TypeInit
  <1>2. /\ sent = <<>> /\ net = <<>> /\ recv_buffer = <<>> /\ handled = <<>>
        /\ phase = "select"
    BY DEF Init
  <1>3. sent \in Seq(config.offers) /\ SubSeq(sent, 1, 0) = <<>> /\ Len(sent) = 0 /\ 0 \in 0..0
    BY <1>2
  <1>4. Idle(0) /\ 0 \in Nat
    BY <1>2, <1>3 DEF Idle
  <1>. QED  BY <1>1, <1>2, <1>3, <1>4, Zenon DEF PInv, Framed

LEMMA PacedStep == PInv /\ [Next]_vars => PInv'
  <1>. SUFFICES ASSUME PInv, [Next]_vars PROVE PInv'
    OBVIOUS
  <1>1. TypeOK /\ Paced /\ sent \in Seq(config.offers) /\ phase # "exit" /\ Framed
    BY DEF PInv
  <1>2. TypeOK'
    BY <1>1, TypeStep
  <1>3. config' = config /\ Paced'
    BY <1>1, StillPaced
       DEF Next, Send, Receive, Recv, Loop, HandleOne, HandleRaises, EndDrain, vars
  <1>4. ~HandleRaises
    BY <1>1, NeverRaises
  <1>5. CASE Send
    <2>1. phase' = phase
      BY <1>5 DEF Send
    <2>2. sent' \in Seq(config.offers) /\ Framed'
      BY <1>1, <1>5, SendFramed
    <2>. QED  BY <1>1, <1>2, <1>3, <2>1, <2>2, Zenon DEF PInv
  <1>6. CASE Receive
    <2>1. sent' = sent
      BY <1>6 DEF Receive, Recv
    <2>2. phase' # "exit" /\ Framed'
      BY <1>1, <1>6, ReceiveFramed
    <2>. QED  BY <1>1, <1>2, <1>3, <2>1, <2>2, Zenon DEF PInv
  <1>7. CASE HandleOne
    <2>1. sent' = sent /\ phase' = phase
      BY <1>7 DEF HandleOne
    <2>2. Framed'
      BY <1>1, <1>7, HandleFramed
    <2>. QED  BY <1>1, <1>2, <1>3, <2>1, <2>2, Zenon DEF PInv
  <1>8. CASE EndDrain
    <2>1. sent' = sent /\ phase' # "exit"
      BY <1>8 DEF EndDrain
    <2>2. Framed'
      BY <1>1, <1>8, EndFramed
    <2>. QED  BY <1>1, <1>2, <1>3, <2>1, <2>2, Zenon DEF PInv
  <1>9. CASE UNCHANGED vars
    <2>1. /\ config' = config /\ sent' = sent /\ net' = net /\ handled' = handled
          /\ recv_buffer' = recv_buffer /\ phase' = phase
      BY <1>9 DEF vars
    <2>2. \A r : Wire(r)' = Wire(r) /\ Body(r)' = Body(r)
      BY <2>1, SameConfig
    <2>3. \A n : Idle(n) => Idle(n)'
      BY <2>1, <2>2, Zenon DEF Idle
    <2>4. \A p, n, k : Between(p, n, k) => Between(p, n, k)'
      BY <2>1, <2>2, ZenonT(30) DEF Between, After
    <2>5. \A p, n, k : Filling(p, n, k) => Filling(p, n, k)'
      BY <2>1, <2>2, <2>4, Zenon DEF Filling
    <2>6. \A p, n, k, b : Emptying(p, n, k, b) => Emptying(p, n, k, b)'
      BY <2>1, <2>2, <2>4, ZenonT(30) DEF Emptying, Used
    <2>7. Framed'
      <3>1. CASE \E n \in Nat : Idle(n)
        BY <2>3, <3>1, Zenon DEF Framed
      <3>2. CASE \E p \in config.offers, n \in Nat, k \in Nat : Filling(p, n, k)
        <4>1. PICK p \in config.offers, n \in Nat, k \in Nat : Filling(p, n, k)
          BY <3>2
        <4>2. Filling(p, n, k)'
          BY <2>5, <4>1, Zenon
        <4>. QED  BY <2>1, <4>2, Zenon DEF Framed
      <3>3. CASE \E p \in config.offers, n \in Nat, k \in Nat, b \in Nat : Emptying(p, n, k, b)
        <4>1. PICK p \in config.offers, n \in Nat, k \in Nat, b \in Nat : Emptying(p, n, k, b)
          BY <3>3
        <4>2. Emptying(p, n, k, b)'
          BY <2>6, <4>1, Zenon
        <4>. QED  BY <2>1, <4>2, Zenon DEF Framed
      <3>. QED  BY <1>1, <3>1, <3>2, <3>3, Zenon DEF Framed
    <2>. QED  BY <1>1, <1>2, <1>3, <2>1, <2>7, Zenon DEF PInv
  <1>. QED  BY <1>4, <1>5, <1>6, <1>7, <1>8, <1>9 DEF Next, Loop

(* The invariant of a peer that pauses between its frames. *)
THEOREM PacedHolds == Spec /\ Paced => []PInv
  BY PacedInit, PacedStep, PTL DEF Spec

(* Between the frames nothing is outstanding. *)
LEMMA PacedQuiet == PInv => QuiescentDelivered
  <1>. SUFFICES ASSUME PInv, phase = "select", net = <<>> PROVE handled = sent
    BY DEF QuiescentDelivered
  <1>1. TypeOK /\ Paced /\ sent \in Seq(config.offers) /\ Framed
    BY DEF PInv
  <1>2. \A q \in config.offers : net # Wire(q)
    BY <1>1, WireNotEmpty
  <1>3. ASSUME NEW p \in config.offers, NEW n, NEW k, Between(p, n, k), k < Len(Wire(p))
        PROVE  FALSE
    <2>. DEFINE w == Wire(p)
    <2>1. w \in Seq(Byte) /\ Len(w) \in Nat
      BY <1>1, WireNotEmpty
    <2>2. k \in 2..Len(w) /\ net = SubSeq(w, k + 1, Len(w))
      BY <1>2, <1>3, Zenon DEF Between, After
    <2>3. k < Len(w)
      BY <1>3
    <2>. HIDE DEF w
    <2>4. k \in Nat /\ Len(w) \in 0..Len(w) /\ k <= Len(w)
      BY <2>1, <2>2, <2>3
    <2>5. Len(SubSeq(w, k + 1, Len(w))) = Len(w) - k
      BY <2>1, <2>4, Piece, ZenonT(30)
    <2>6. Len(<<>>) = 0
      OBVIOUS
    <2>7. Len(w) - k = 0
      BY <2>2, <2>5, <2>6
    <2>. QED  BY <2>1, <2>3, <2>4, <2>7
  <1>4. CASE \E n \in Nat : Idle(n)
    <2>1. PICK n \in Nat : Idle(n)
      BY <1>4
    <2>2. n = Len(sent) /\ handled = SubSeq(sent, 1, n)
      BY <1>2, <2>1, Zenon DEF Idle
    <2>. QED  BY <1>1, <2>2
  <1>5. CASE \E p \in config.offers, n \in Nat, k \in Nat : Filling(p, n, k)
    <2>1. PICK p \in config.offers, n \in Nat, k \in Nat : Filling(p, n, k)
      BY <1>5
    <2>2. Between(p, n, k) /\ k < Len(Body(p))
      BY <2>1 DEF Filling
    <2>3. Len(Body(p)) <= Len(Wire(p)) /\ Len(Body(p)) \in Nat /\ Len(Wire(p)) \in Nat
      BY <1>1, FrameOf
    <2>4. k < Len(Wire(p))
      BY <2>2, <2>3
    <2>. QED  BY <1>3, <2>2, <2>4
  <1>6. CASE \E p \in config.offers, n \in Nat, k \in Nat, b \in Nat : Emptying(p, n, k, b)
    BY <1>3, <1>6 DEF Emptying
  <1>. QED  BY <1>1, <1>4, <1>5, <1>6 DEF Framed

(* A peer that pauses between its frames has every packet handled exactly  *)
(* once and in order, however TCP cuts each frame, provided that both ends *)
(* agree on -e and that handle() drops what it leaves of each frame.       *)
THEOREM PacedDelivered == Spec /\ Paced => []QuiescentDelivered
  BY PacedHolds, PacedQuiet, PTL

(* Without -e what is left of a frame is END, which is dropped. *)
LEMMA PlainIsPaced ==
    ASSUME config \in Configs, config.network = "paced", ~config.encodes, ~config.decodes
    PROVE  Paced
  <1>1. config.encodes = config.decodes /\ config.offers \subseteq Offered
    BY ConfigFields
  <1>2. ASSUME NEW p \in config.offers
        PROVE  FourBytes(data_size(Encoded(p))) /\ Residue(Stray(p)) = <<>>
    <2>1. p \in Packets /\ data_size(p) \div 16777216 < 256
      BY <1>1, OfferedPackets, OfferedAssumption, SMT
    <2>2. Encoded(p) = p
      BY Zenon DEF Encoded
    <2>. DEFINE f == FrameBody(p)
                n == data_size(p)
    <2>3. f \in Seq(Byte) /\ Len(f) = 7 + n /\ n \in Nat
      BY <2>1, FrameParts, DataType DEF OVERHEAD
    <2>4. Wire(p) = f \/ Wire(p) = f \o <<36, 35>>
      BY <2>2 DEF Wire, get_bytes, SYMBOL_END_BYTES
    <2>5. Used(p) = 7 + n
      BY DEF Used, OVERHEAD
    <2>6. FourBytes(data_size(Encoded(p)))
      <3>1. FourBytes(n)
        BY <2>1, <2>3, SMT DEF FourBytes
      <3>. QED  BY <2>2, <3>1, Zenon
    <2>. HIDE DEF f, n
    <2>7. Stray(p) = <<>> \/ Stray(p) = <<36, 35>>
      <3>1. CASE Wire(p) = f
        <4>1. SubSeq(f, 7 + n + 1, Len(f)) = <<>>
          BY <2>3
        <4>. QED  BY <2>5, <3>1, <4>1, Zenon DEF Stray
      <3>2. CASE Wire(p) = f \o <<36, 35>>
        <4>. DEFINE w == f \o <<36, 35>>
        <4>1. /\ w \in Seq(Byte) /\ Len(w) = 9 + n
              /\ w[8 + n] = 36 /\ w[9 + n] = 35
          <5>1. <<36, 35>> \in Seq(Byte) /\ Len(<<36, 35>>) = 2 /\ f \in Seq(Byte)
            BY <2>3 DEF Byte
          <5>. QED  BY <2>3, <5>1
        <4>. HIDE DEF w
        <4>. DEFINE r == SubSeq(w, 7 + n + 1, Len(w))
        <4>2. r \in Seq(Byte) /\ Len(r) = 2 /\ r[1] = 36 /\ r[2] = 35
          BY <2>3, <4>1
        <4>. HIDE DEF r
        <4>3. r = <<36, 35>>
          BY <4>2
        <4>. QED  BY <2>5, <3>2, <4>3, Zenon DEF Stray, r, w
      <3>. QED  BY <2>4, <3>1, <3>2
    <2>8. Residue(<<>>) = <<>>
      BY Zenon DEF Residue
    <2>9. Residue(<<36, 35>>) = <<>>
      BY DEF Residue, StartsAt, PACKET_MIN
    <2>. QED  BY <2>6, <2>7, <2>8, <2>9, Zenon
  <1>. QED  BY <1>1, <1>2 DEF Paced

(* So without -e nothing is asked of the packets: whatever a peer sends,   *)
(* frame by frame, has been handled once and in order when it is received. *)
THEOREM PlainDelivered ==
    /\ Spec
    /\ config.network = "paced"
    /\ ~config.encodes
    /\ ~config.decodes
    => []QuiescentDelivered
  <1>1. Init /\ config.network = "paced" /\ ~config.encodes /\ ~config.decodes => Paced
    BY PlainIsPaced DEF Init
  <1>. QED  BY <1>1, PacedDelivered, PTL DEF Spec

(* To a peer that pauses between its frames the loop is the channel that   *)
(* PacketChannel specifies: send_packet puts a packet in, handle_packet    *)
(* takes the next one out, and everything else is invisible.               *)
THEOREM PacedChannel == Spec /\ Paced => Channel!Spec
  <1>1. Init => Channel!Init
    BY DEF Init, Channel!Init
  <1>2. PInv /\ [Next]_vars => [Channel!Next]_Channel!chan
    <2>. SUFFICES ASSUME PInv, [Next]_vars PROVE Channel!Next \/ UNCHANGED <<sent, handled>>
      BY DEF Channel!chan
    <2>1. TypeOK /\ Paced /\ sent \in Seq(config.offers) /\ Framed
      BY DEF PInv
    <2>2. CASE Send
      <3>1. config.offers \subseteq Offered
        BY <2>1, ConfigFields DEF TypeOK
      <3>2. Channel!Put
        BY <2>2, <3>1 DEF Send, Channel!Put
      <3>. QED  BY <3>2 DEF Channel!Next
    <2>3. CASE Receive
      BY <2>3 DEF Receive, Recv
    <2>4. CASE HandleOne
      <3>1. sent' = sent
        BY <2>4 DEF HandleOne
      <3>2. Channel!Deliver
        BY <2>1, <2>4, <3>1, HandleFramed DEF Channel!Deliver
      <3>. QED  BY <3>2 DEF Channel!Next
    <2>5. CASE HandleRaises
      BY <2>5 DEF HandleRaises
    <2>6. CASE EndDrain
      BY <2>6 DEF EndDrain
    <2>7. CASE UNCHANGED vars
      BY <2>7 DEF vars
    <2>. QED  BY <2>2, <2>3, <2>4, <2>5, <2>6, <2>7 DEF Next, Loop
  <1>. QED  BY <1>1, <1>2, PacedHolds, PTL DEF Spec, Channel!Spec
-----------------------------------------------------------------------------
(* Any network, any number of frames at once: what is handed on is what    *)
(* was sent.                                                               *)

(* What handle_packet gets when the frame of p arrives. *)
Arrived(p) == Decoded(Encoded(p))

(* The first place at or after x where the k-th handled packet was sent. *)
MatchFrom(k, x) ==
    LET later == {j \in x..Len(sent) : Decoded(Encoded(sent[j])) = handled[k]}
    IN  IF later = {} THEN Len(sent) + 1 ELSE Least(later)

LEMMA MatchFromType ==
    ASSUME TypeOK, NEW k, NEW x \in Nat
    PROVE  MatchFrom(k, x) \in Nat
  <1>. DEFINE later == {j \in x..Len(sent) : Decoded(Encoded(sent[j])) = handled[k]}
  <1>1. later \in SUBSET Nat
    OBVIOUS
  <1>2. Len(sent) + 1 \in Nat
    BY DEF TypeOK
  <1>3. CASE later = {}
    BY <1>2, <1>3, Zenon DEF MatchFrom
  <1>4. CASE later # {}
    <2>1. Least(later) \in later
      BY <1>1, <1>4, LeastIs, Zenon
    <2>2. MatchFrom(k, x) = Least(later)
      BY <1>4, Zenon DEF MatchFrom
    <2>. QED  BY <1>1, <2>1, <2>2, Zenon
  <1>. QED  BY <1>3, <1>4

LEMMA PlaceIs ==
    ASSUME TypeOK
    PROVE  /\ Place[0] = 1
           /\ \A k \in Nat : k # 0 => Place[k] = MatchFrom(k, Place[k - 1])
           /\ \A k \in Nat : Place[k] \in Nat
  <1>. DEFINE G == [k \in Nat |-> [x \in Nat |-> MatchFrom(k, x)]]
  <1>1. G \in [Nat -> [Nat -> Nat]]
    BY MatchFromType
  <1>. HIDE DEF G
  <1>2. PICK g \in [Nat -> Nat] : g[0] = 1 /\ \A k \in Nat : k # 0 => g[k] = G[k][g[k - 1]]
    <2>1. 1 \in Nat
      OBVIOUS
    <2>2. \E g : FollowsOn(g, Nat, 1, G)
      BY <1>1, <2>1, NatRecursionExists, Zenon
    <2>. QED  BY <2>2, Zenon DEF FollowsOn
  <1>3. ASSUME NEW k \in Nat
        PROVE  g[k] = IF k = 0 THEN 1 ELSE MatchFrom(k, g[k - 1])
    <2>1. CASE k = 0
      BY <1>2, <2>1
    <2>2. CASE k # 0
      <3>1. k - 1 \in Nat
        BY <2>2
      <3>2. g[k - 1] \in Nat
        BY <1>2, <3>1, Zenon
      <3>3. G[k][g[k - 1]] = MatchFrom(k, g[k - 1])
        BY <3>2 DEF G
      <3>. QED  BY <1>2, <2>2, <3>3, Zenon
    <2>. QED  BY <2>1, <2>2
  <1>4. g = [k \in Nat |-> IF k = 0 THEN 1 ELSE MatchFrom(k, g[k - 1])]
    BY <1>2, <1>3
  <1>5. Place = [k \in Nat |-> IF k = 0 THEN 1 ELSE MatchFrom(k, Place[k - 1])]
    BY <1>4, Zenon DEF Place, MatchFrom
  <1>. DEFINE h == Place
  <1>6. h = [k \in Nat |-> IF k = 0 THEN 1 ELSE MatchFrom(k, h[k - 1])]
    BY <1>5
  <1>. HIDE DEF h
  <1>7. h[0] = 1 /\ \A k \in Nat : k # 0 => h[k] = MatchFrom(k, h[k - 1])
    BY <1>6
  <1>. DEFINE T == {k \in Nat : h[k] \in Nat}
  <1>8. ASSUME NEW n \in Nat PROVE n \in T
    <2>1. 0 \in T
      BY <1>7
    <2>2. \A i \in 1..n : i - 1 \in T => i \in T
      <3>. SUFFICES ASSUME NEW i \in 1..n, i - 1 \in T PROVE i \in T
        OBVIOUS
      <3>1. i \in Nat /\ i # 0
        OBVIOUS
      <3>2. h[i] = MatchFrom(i, h[i - 1]) /\ h[i - 1] \in Nat
        BY <1>7, <3>1
      <3>3. h[i] \in Nat
        BY <3>2, MatchFromType, Zenon
      <3>. QED  BY <3>1, <3>3
    <2>. HIDE DEF T
    <2>3. \A i \in 0..n : i \in T
      BY <2>1, <2>2, IntervalInduction, Zenon
    <2>. QED  BY <2>3
  <1>. QED  BY <1>7, <1>8 DEF h

(* A match in order, wherever it is, is reached by matching from the left. *)
LEMMA PlaceBefore ==
    ASSUME TypeOK, NEW f \in [1..Len(handled) -> 1..Len(sent)],
           \A k \in 2..Len(handled) : f[k - 1] <= f[k],
           \A k \in 1..Len(handled) : Decoded(Encoded(sent[f[k]])) = handled[k]
    PROVE  HandledFollowsSent
  <1>. DEFINE n == Len(handled)
              T == {k \in 0..n : Place[k] <= IF k = 0 THEN 1 ELSE f[k]}
  <1>1. n \in Nat /\ Len(sent) \in Nat
    BY DEF TypeOK
  <1>. HIDE DEF n
  <1>2. 0 \in T
    BY <1>1, PlaceIs
  <1>3. ASSUME NEW i \in 1..n, i - 1 \in T PROVE i \in T
    <2>1. i \in Nat /\ i # 0 /\ i - 1 \in Nat /\ i \in 0..n
      BY <1>1
    <2>2. Place[i] = MatchFrom(i, Place[i - 1]) /\ Place[i - 1] \in Nat
      BY <2>1, PlaceIs
    <2>. DEFINE x == Place[i - 1]
    <2>3. f[i] \in 1..Len(sent)
      BY DEF n
    <2>4. x <= f[i]
      <3>1. CASE i = 1
        <4>1. x <= 1
          BY <1>3, <3>1
        <4>. HIDE DEF x
        <4>. QED  BY <2>2, <2>3, <4>1 DEF x
      <3>2. CASE i # 1
        <4>1. i \in 2..n /\ i - 1 \in 1..n /\ i - 1 # 0
          BY <3>2, <1>1
        <4>2. x <= f[i - 1]
          BY <1>3, <4>1
        <4>3. f[i - 1] <= f[i] /\ f[i - 1] \in 1..Len(sent)
          BY <4>1 DEF n
        <4>4. x \in Nat
          BY <2>2
        <4>. HIDE DEF x
        <4>. QED  BY <2>3, <4>2, <4>3, <4>4
      <3>. QED  BY <3>1, <3>2
    <2>5. x \in Nat
      BY <2>2
    <2>. HIDE DEF x
    <2>. DEFINE later == {j \in x..Len(sent) : Decoded(Encoded(sent[j])) = handled[i]}
    <2>6. f[i] \in later
      <3>1. f[i] \in x..Len(sent)
        BY <2>3, <2>4, <2>5, <1>1
      <3>2. Decoded(Encoded(sent[f[i]])) = handled[i]
        BY DEF n
      <3>. QED  BY <3>1, <3>2, Zenon
    <2>7. later \in SUBSET Nat
      BY <2>5
    <2>8. Least(later) <= f[i]
      <3>1. later # {}
        BY <2>6, Zenon
      <3>. QED  BY <2>6, <2>7, <3>1, LeastIs, Zenon
    <2>9. MatchFrom(i, x) = Least(later)
      BY <2>6, Zenon DEF MatchFrom
    <2>10. Place[i] <= f[i]
      BY <2>2, <2>8, <2>9, Zenon DEF x
    <2>. QED  BY <2>1, <2>10
  <1>. HIDE DEF T
  <1>4. \A i \in 0..n : i \in T
    BY <1>1, <1>2, <1>3, IntervalInduction, Zenon
  <1>. SUFFICES ASSUME handled # <<>> PROVE Place[n] <= Len(sent)
    BY DEF HandledFollowsSent, n
  <1>5. n # 0
    BY DEF n, TypeOK
  <1>6. n \in T /\ n \in 1..n
    BY <1>1, <1>4, <1>5
  <1>7. Place[n] <= f[n]
    BY <1>5, <1>6 DEF T
  <1>8. f[n] \in 1..Len(sent) /\ Place[n] \in Nat
    BY <1>1, <1>6, PlaceIs DEF n
  <1>. QED  BY <1>1, <1>7, <1>8

(* Every frame has its size in four bytes, and no START but its own. *)
Marked ==
    \A p \in config.offers : FourBytes(data_size(Encoded(p))) /\ StartsAt(Wire(p)) = {1}

(* strip finds no white space where TCP cuts: recv moves bytes, all of them. *)
Unstripped == Receive => recv_buffer' \o net' = recv_buffer \o net

LEMMA FrameMarked ==
    ASSUME TypeOK, Marked, NEW p \in config.offers
    PROVE  /\ Sendable(Encoded(p))
           /\ Wire(p) \in Seq(Byte) /\ Len(Wire(p)) >= 2
           /\ Wire(p)[1] = 35 /\ StartsAt(Wire(p)) = {1}
           /\ Len(Body(p)) <= Len(Wire(p))
           /\ \A i \in 1..Len(Body(p)) : Wire(p)[i] = Body(p)[i]
  <1>. DEFINE w == Wire(p)
              f == Body(p)
  <1>1. p \in Offered /\ p \in Packets
    BY ConfigFields, OfferedPackets DEF TypeOK
  <1>2. Encoded(p) \in Packets /\ w \in Seq(Byte)
    BY <1>1, EncodedType, WireType
  <1>3. /\ p.key_str # <<>> /\ p.key_str \in Seq(Byte) /\ p.val_bytes \in Seq(Byte)
        /\ \A j \in 1..Len(p.key_str) : p.key_str[j] # EQ /\ p.key_str[j] < 128
    BY <1>1, OfferedAssumption, SMT DEF Packets
  <1>4. Encoded(p).key_str = p.key_str
    <2>1. CASE ~config.encodes \/ p.val_bytes = <<>>
      BY <2>1, Zenon DEF Encoded, do_encode
    <2>2. CASE config.encodes /\ p.val_bytes # <<>>
      <3>. DEFINE v == bytes_encode(p.val_bytes)
      <3>1. v \in Seq(Byte)
        BY <1>3, DecodeUndoesEncode, Zenon
      <3>2. Encoded(p) = Packet(p.key_str, v)
        BY <2>2, Zenon DEF Encoded, do_encode
      <3>. HIDE DEF v
      <3>3. Packet(p.key_str, v).key_str = p.key_str
        BY <1>3, <3>1, PacketType, Zenon
      <3>. QED  BY <3>2, <3>3, Zenon
    <2>. QED  BY <2>1, <2>2, Zenon
  <1>5. FourBytes(data_size(Encoded(p))) /\ StartsAt(w) = {1}
    BY DEF Marked
  <1>6. Sendable(Encoded(p))
    BY <1>2, <1>3, <1>4, <1>5, Zenon DEF Sendable
  <1>7. 1 \in 1..(Len(w) - 1) /\ w[1] = 35
    BY <1>5 DEF StartsAt
  <1>8. f \in Seq(Byte) /\ Len(f) \in Nat
    <2>1. f \in Seq(Byte)
      BY <1>2, FrameParts DEF Body
    <2>. QED  BY <2>1
  <1>9. w = f \/ w = f \o <<36, 35>>
    BY DEF Wire, Body, get_bytes, SYMBOL_END_BYTES
  <1>. HIDE DEF w, f
  <1>10. Len(f) <= Len(w) /\ \A i \in 1..Len(f) : w[i] = f[i]
    <2>1. CASE w = f
      BY <1>8, <2>1
    <2>2. CASE w = f \o <<36, 35>>
      BY <1>2, <1>8, <2>2
    <2>. QED  BY <1>9, <2>1, <2>2
  <1>11. Len(w) >= 2
    BY <1>2, <1>7
  <1>. QED  BY <1>2, <1>5, <1>6, <1>7, <1>10, <1>11 DEF w, f

(* The stream F of what was sent, w[m] the frame of the m-th packet, e[m]  *)
(* the packet in it, s[m] the bytes before it; b bytes of F have been      *)
(* received, and the buffer holds those behind the first a.                *)
Streamed(w, e, F, s, a, b) ==
    /\ LaidOut(w, F, s)
    /\ Holds(w, e)
    /\ Len(w) = Len(sent)
    /\ \A m \in 1..Len(sent), p \in config.offers :
           p = sent[m] => w[m] = Wire(p) /\ e[m] = Encoded(p)
    /\ b \in 0..Len(F)
    /\ a \in 0..b
    /\ recv_buffer = Stretch(F, a, b)
    /\ net = Stretch(F, b, Len(F))

(* f[k] is where the k-th handled packet was sent, and the frames before   *)
(* the last of them begin where nothing is left.                           *)
Matched(f, s, a) ==
    /\ f \in [1..Len(handled) -> 1..Len(sent)]
    /\ \A k \in 2..Len(handled) : f[k - 1] <= f[k]
    /\ \A k \in 1..Len(handled), p \in config.offers :
           p = sent[f[k]] => Arrived(p) = handled[k]
    /\ handled # <<>> => \A m \in 1..(f[Len(handled)] - 1) : s[m] < a

SInv ==
    /\ TypeOK
    /\ Marked
    /\ sent \in Seq(config.offers)
    /\ \E w, e, F, s, a, b, f : Streamed(w, e, F, s, a, b) /\ Matched(f, s, a)

LEMMA SameArrived ==
    ASSUME config' = config
    PROVE  \A p : Arrived(p)' = Arrived(p)
  <1>. TAKE p
  <1>1. Encoded(p)' = Encoded(p)
    BY SameConfig
  <1>. QED  BY <1>1 DEF Arrived, Decoded

LEMMA StillMarked == Marked /\ config' = config => Marked'
  <1>. SUFFICES ASSUME Marked, config' = config PROVE Marked'
    OBVIOUS
  <1>1. \A p : Encoded(p)' = Encoded(p) /\ Wire(p)' = Wire(p)
    BY SameConfig
  <1>. QED  BY <1>1, Zenon DEF Marked

LEMMA EmptyStream == LaidOut(<<>>, <<>>, [m \in 1..1 |-> 0])
  <1>. DEFINE s == [m \in 1..1 |-> 0]
  <1>1. s \in [1..(Len(<<>>) + 1) -> Nat] /\ s[1] = 0 /\ s[Len(<<>>) + 1] = Len(<<>>)
    OBVIOUS
  <1>2. \A j, m \in 1..(Len(<<>>) + 1) : j < m => s[j] < s[m]
    OBVIOUS
  <1>3. StartsAt(<<>>) = {}
    BY DEF StartsAt
  <1>. QED  BY <1>1, <1>2, <1>3 DEF LaidOut

LEMMA StreamInit == Init /\ Marked => SInv
  <1>. SUFFICES ASSUME Init, Marked PROVE SInv
    OBVIOUS
  <1>1. TypeOK
    BY TypeInit
  <1>2. sent = <<>> /\ net = <<>> /\ recv_buffer = <<>> /\ handled = <<>>
    BY DEF Init
  <1>. DEFINE s == [m \in 1..1 |-> 0]
  <1>3. LaidOut(<<>>, <<>>, s)
    BY EmptyStream
  <1>. HIDE DEF s
  <1>4. Stretch(<<>>, 0, 0) = <<>>
    BY DEF Stretch
  <1>5. Streamed(<<>>, <<>>, <<>>, s, 0, 0)
    BY <1>2, <1>3, <1>4 DEF Streamed, Holds
  <1>6. Matched(<<>>, s, 0)
    BY <1>2 DEF Matched
  <1>. QED  BY <1>1, <1>2, <1>5, <1>6 DEF SInv

(* t knows what s knows of the frames sent. *)
Prolongs(t, s) == \A m \in 1..(Len(sent) + 1) : t[m] = s[m]

(* A frame more: the peer sends. *)
LEMMA StreamedSend ==
    ASSUME TypeOK, Marked, sent \in Seq(config.offers), Send,
           NEW w, NEW e, NEW F, NEW s, NEW a, NEW b, Streamed(w, e, F, s, a, b)
    PROVE  \E x, y, G, t : Streamed(x, y, G, t, a, b)' /\ Prolongs(t, s)
  <1>3. PICK p \in config.offers : sent' = Append(sent, p) /\ net' = net \o Wire(p)
    BY DEF Send
  <1>4. config' = config /\ recv_buffer' = recv_buffer
    BY DEF Send
  <1>. DEFINE n == Len(sent)
              v == Wire(p)
              x == Append(w, v)
              y == [m \in 1..(n + 1) |-> IF m = n + 1 THEN Encoded(p) ELSE e[m]]
              G == F \o v
              t == Longer(s, n, Len(F) + Len(v))
  <1>5. /\ n \in Nat /\ Len(sent') = n + 1 /\ sent'[n + 1] = p
        /\ \A m \in 1..n : sent'[m] = sent[m]
        /\ sent' \in Seq(config.offers)
    BY <1>3
  <1>6. /\ v \in Seq(Byte) /\ Len(v) >= 2 /\ v[1] = 35 /\ StartsAt(v) = {1}
        /\ Sendable(Encoded(p)) /\ Len(Body(p)) <= Len(v)
        /\ \A i \in 1..Len(Body(p)) : v[i] = Body(p)[i]
    BY FrameMarked
  <1>7. LaidOut(w, F, s) /\ Holds(w, e) /\ Len(w) = n
    BY DEF Streamed
  <1>8. w \in Seq(Seq(Byte)) /\ F \in Seq(Byte)
    BY <1>7, LaidOutType
  <1>. HIDE DEF v
  <1>9. LaidOut(x, G, t)
    BY <1>6, <1>7, LaidOutMore
  <1>. HIDE DEF n, G, t
  <1>10. Len(x) = n + 1 /\ x[n + 1] = v /\ \A m \in 1..n : x[m] = w[m]
    BY <1>6, <1>7, <1>8
  <1>11. /\ y[n + 1] = Encoded(p) /\ \A m \in 1..n : y[m] = e[m]
    BY <1>5
  <1>. HIDE DEF x, y
  <1>i. \A m \in 1..(n + 1) : m = n + 1 \/ m \in 1..n
    BY <1>5
  <1>12. Holds(x, y)
    <2>. SUFFICES ASSUME NEW m \in 1..(n + 1)
                  PROVE  /\ Sendable(y[m])
                         /\ Len(FrameBody(y[m])) <= Len(x[m])
                         /\ \A i \in 1..Len(FrameBody(y[m])) : x[m][i] = FrameBody(y[m])[i]
      BY <1>10, Zenon DEF Holds
    <2>1. CASE m = n + 1
      BY <1>6, <1>10, <1>11, <2>1, Zenon DEF Body
    <2>2. CASE m \in 1..n
      BY <1>7, <1>10, <1>11, <2>2, Zenon DEF Holds
    <2>. QED  BY <1>i, <2>1, <2>2
  <1>c. \A q : Wire(q)' = Wire(q) /\ Encoded(q)' = Encoded(q)
    BY <1>4, SameConfig
  <1>13. ASSUME NEW m \in 1..Len(sent'), NEW q \in config.offers, q = sent'[m]
         PROVE  x[m] = Wire(q) /\ y[m] = Encoded(q)
    <2>1. CASE m = n + 1
      BY <1>5, <1>10, <1>11, <1>13, <2>1, Zenon DEF v
    <2>2. CASE m \in 1..n
      <3>1. w[m] = Wire(q) /\ e[m] = Encoded(q)
        BY <1>5, <1>13, <2>2, Zenon DEF Streamed, n
      <3>. QED  BY <1>10, <1>11, <2>2, <3>1, Zenon
    <2>. QED  BY <1>5, <1>i, <2>1, <2>2
  <1>14. /\ b \in 0..Len(F) /\ a \in 0..b
         /\ recv_buffer = Stretch(F, a, b) /\ net = Stretch(F, b, Len(F))
    BY DEF Streamed
  <1>15. recv_buffer' = Stretch(G, a, b) /\ net' = Stretch(G, b, Len(G))
    BY <1>3, <1>4, <1>6, <1>8, <1>14, StretchMore, Zenon DEF G, v
  <1>16. b \in 0..Len(G)
    <2>1. Len(G) = Len(F) + Len(v) /\ Len(v) \in Nat /\ Len(F) \in Nat
      BY <1>6, <1>8 DEF G
    <2>. QED  BY <1>14, <2>1
  <1>17. \A m \in 1..(n + 1) : t[m] = s[m]
    BY <1>5 DEF t, Longer
  <1>18. Len(x) = Len(sent') /\ \A m \in 1..Len(sent'), q \in config'.offers :
             q = sent'[m] => x[m] = Wire(q)' /\ y[m] = Encoded(q)'
    <2>1. Len(x) = Len(sent')
      BY <1>5, <1>10
    <2>. QED  BY <1>4, <1>13, <1>c, <2>1, Zenon
  <1>19. PICK X, Y, H, T : X = x /\ Y = y /\ H = G /\ T = t
    BY Zenon
  <1>20. Streamed(X, Y, H, T, a, b)'
    BY <1>9, <1>12, <1>14, <1>15, <1>16, <1>18, <1>19, Zenon DEF Streamed
  <1>21. Prolongs(T, s)
    BY <1>17, <1>19, Zenon DEF n, Prolongs
  <1>. QED  BY <1>20, <1>21, Zenon

LEMMA SendSequence ==
    ASSUME sent \in Seq(config.offers), Send
    PROVE  /\ sent' \in Seq(config.offers)
           /\ Len(sent') = Len(sent) + 1
           /\ \A m \in 1..Len(sent) : sent'[m] = sent[m]
  <1>1. PICK p \in config.offers : sent' = Append(sent, p)
    BY DEF Send
  <1>. QED  BY <1>1

LEMMA StreamSend ==
    ASSUME SInv, Send
    PROVE  \E w, e, F, s, a, b, f : Streamed(w, e, F, s, a, b)' /\ Matched(f, s, a)'
  <1>1. TypeOK /\ Marked /\ sent \in Seq(config.offers)
    BY DEF SInv
  <1>2. PICK w, e, F, s, a, b, f : Streamed(w, e, F, s, a, b) /\ Matched(f, s, a)
    BY DEF SInv
  <1>p. PICK x, y, G, t : Streamed(x, y, G, t, a, b)' /\ Prolongs(t, s)
    BY <1>1, <1>2, StreamedSend, Zenon
  <1>3. /\ Streamed(x, y, G, t, a, b)'
        /\ \A m \in 1..(Len(sent) + 1) : t[m] = s[m]
    BY <1>p, Zenon DEF Prolongs
  <1>4. config' = config /\ handled' = handled
    BY DEF Send
  <1>5. /\ Len(sent') = Len(sent) + 1 /\ Len(sent) \in Nat
        /\ \A m \in 1..Len(sent) : sent'[m] = sent[m]
    BY <1>1, SendSequence
  <1>c. \A q : Arrived(q)' = Arrived(q)
    BY <1>4, SameArrived
  <1>6. Matched(f, t, a)'
    <2>1. /\ f \in [1..Len(handled) -> 1..Len(sent)]
          /\ \A k \in 2..Len(handled) : f[k - 1] <= f[k]
          /\ \A k \in 1..Len(handled), q \in config.offers :
                 q = sent[f[k]] => Arrived(q) = handled[k]
          /\ handled # <<>> => \A m \in 1..(f[Len(handled)] - 1) : s[m] < a
      BY <1>2, Zenon DEF Matched
    <2>2. f \in [1..Len(handled) -> 1..(Len(sent) + 1)]
      BY <1>5, <2>1
    <2>3. \A k \in 1..Len(handled) : sent'[f[k]] = sent[f[k]]
      BY <1>5, <2>1
    <2>4. ASSUME handled # <<>> PROVE \A m \in 1..(f[Len(handled)] - 1) : t[m] < a
      <3>1. Len(handled) \in 1..Len(handled)
        BY <1>1, <2>4 DEF TypeOK
      <3>2. f[Len(handled)] \in 1..Len(sent)
        BY <2>1, <3>1
      <3>3. \A m \in 1..(f[Len(handled)] - 1) : m \in 1..(Len(sent) + 1)
        BY <1>5, <3>2
      <3>. QED  BY <1>3, <2>1, <2>4, <3>3, Zenon
    <2>5. \A k \in 1..Len(handled'), q \in config'.offers :
              q = sent'[f[k]] => Arrived(q)' = handled'[k]
      BY <1>4, <1>c, <2>1, <2>3, Zenon
    <2>6. /\ f \in [1..Len(handled') -> 1..Len(sent')]
          /\ \A k \in 2..Len(handled') : f[k - 1] <= f[k]
          /\ handled' # <<>> => \A m \in 1..(f[Len(handled')] - 1) : t[m] < a
      BY <1>4, <1>5, <2>1, <2>2, <2>4, Zenon
    <2>. QED  BY <2>5, <2>6, Zenon DEF Matched
  <1>. QED  BY <1>3, <1>6, Zenon

(* The same packets sent, and more of the stream taken. *)
LEMMA StreamedOn ==
    ASSUME NEW w, NEW e, NEW F, NEW s, NEW a, NEW b, Streamed(w, e, F, s, a, b),
           config' = config, sent' = sent,
           NEW d \in 0..Len(F), NEW c \in 0..d,
           recv_buffer' = Stretch(F, c, d), net' = Stretch(F, d, Len(F))
    PROVE  Streamed(w, e, F, s, c, d)'
  <1>1. \A q : Wire(q)' = Wire(q) /\ Encoded(q)' = Encoded(q)
    BY SameConfig
  <1>. QED  BY <1>1, Zenon DEF Streamed

LEMMA MatchedOn ==
    ASSUME NEW w, NEW F, NEW s, LaidOut(w, F, s), NEW f, NEW a \in Nat, Matched(f, s, a),
           TypeOK, Len(w) = Len(sent),
           config' = config, sent' = sent, handled' = handled,
           NEW c \in Nat, a <= c
    PROVE  Matched(f, s, c)'
  <1>1. \A q : Arrived(q)' = Arrived(q)
    BY SameArrived
  <1>2. ASSUME handled # <<>>, NEW m \in 1..(f[Len(handled)] - 1) PROVE s[m] < c
    <2>1. Len(handled) \in 1..Len(handled)
      BY <1>2 DEF TypeOK
    <2>2. f[Len(handled)] \in 1..Len(sent)
      BY <2>1 DEF Matched
    <2>3. m \in 1..Len(w)
      BY <1>2, <2>2 DEF TypeOK
    <2>4. s[m] \in Nat
      BY <2>3, LaidOutType
    <2>5. s[m] < a
      BY <1>2 DEF Matched
    <2>. QED  BY <2>4, <2>5
  <1>. QED  BY <1>1, <1>2, Zenon DEF Matched

LEMMA StreamReceive ==
    ASSUME SInv, Receive, Unstripped
    PROVE  \E w, e, F, s, a, b, f : Streamed(w, e, F, s, a, b)' /\ Matched(f, s, a)'
  <1>1. TypeOK /\ TypeOK'
    <2>1. [Next]_vars
      BY DEF Next
    <2>. QED  BY <2>1, TypeStep DEF SInv
  <1>2. PICK w, e, F, s, a, b, f : Streamed(w, e, F, s, a, b) /\ Matched(f, s, a)
    BY DEF SInv
  <1>3. PICK n \in Cuts : Recv(n)
    BY DEF Receive
  <1>4. /\ config' = config /\ sent' = sent /\ handled' = handled
        /\ net' = SubSeq(net, n + 1, Len(net))
    BY <1>3 DEF Recv
  <1>5. /\ LaidOut(w, F, s) /\ Len(w) = Len(sent) /\ b \in 0..Len(F) /\ a \in 0..b
        /\ recv_buffer = Stretch(F, a, b) /\ net = Stretch(F, b, Len(F))
    BY <1>2 DEF Streamed
  <1>6. F \in Seq(Byte) /\ Len(F) \in Nat
    BY <1>5, LaidOutType
  <1>7. a \in Nat /\ b \in Nat /\ a <= b /\ b <= Len(F) /\ Len(F) \in 0..Len(F)
    BY <1>5, <1>6
  <1>8. Len(net) = Len(F) - b
    BY <1>5, <1>6, <1>7, StretchBytes
  <1>9. n \in 0..(Len(F) - b) /\ n \in Nat
    BY <1>8, <1>7 DEF Cuts
  <1>. DEFINE d == b + n
  <1>10. d \in Nat /\ d \in 0..Len(F) /\ a \in 0..d /\ a \in 0..Len(F)
    BY <1>6, <1>7, <1>9
  <1>11. net' = Stretch(F, d, Len(F))
    BY <1>4, <1>5, <1>6, <1>7, <1>9, StretchRest
  <1>. HIDE DEF d
  <1>12. recv_buffer' \o net' = Stretch(F, a, Len(F))
    <2>1. recv_buffer' \o net' = recv_buffer \o net
      BY DEF Unstripped
    <2>2. recv_buffer \o net = Stretch(F, a, Len(F))
      BY <1>5, <1>6, <1>7, StretchJoin
    <2>. QED  BY <2>1, <2>2
  <1>13. recv_buffer' = Stretch(F, a, d)
    <2>. DEFINE x == recv_buffer'
                y == net'
                z == Stretch(F, a, Len(F))
                r == Stretch(F, a, d)
    <2>1. x \in Seq(Byte) /\ y \in Seq(Byte)
      BY <1>1 DEF TypeOK
    <2>2. /\ Len(y) = Len(F) - d
          /\ Len(z) = Len(F) - a /\ \A i \in 1..(Len(F) - a) : z[i] = F[a + i]
          /\ r \in Seq(Byte) /\ Len(r) = d - a /\ \A i \in 1..(d - a) : r[i] = F[a + i]
      BY <1>6, <1>7, <1>10, <1>11, StretchBytes
    <2>3. x \o y = z
      BY <1>12
    <2>. HIDE DEF x, y, z, r
    <2>4. Len(z) = Len(x) + Len(y) /\ \A i \in 1..Len(x) : z[i] = x[i]
      <3>1. /\ Len(x \o y) = Len(x) + Len(y)
            /\ \A i \in 1..Len(x) : (x \o y)[i] = x[i]
        BY <2>1, Joined
      <3>. QED  BY <2>3, <3>1, Zenon
    <2>5. Len(x) = d - a
      <3>1. Len(x) \in Nat /\ Len(F) - a = Len(x) + (Len(F) - d)
        BY <2>1, <2>2, <2>4
      <3>. QED  BY <1>6, <1>7, <1>10, <3>1
    <2>6. \A i \in 1..(d - a) : x[i] = r[i]
      <3>. SUFFICES ASSUME NEW i \in 1..(d - a) PROVE x[i] = r[i]
        OBVIOUS
      <3>1. i \in 1..(Len(F) - a) /\ i \in 1..Len(x)
        BY <1>6, <1>7, <1>10, <2>5
      <3>. QED  BY <2>2, <2>4, <3>1, Zenon
    <2>7. x = r
      BY <2>1, <2>2, <2>5, <2>6, SameSeq
    <2>. QED  BY <2>7 DEF x, r
  <1>14. Streamed(w, e, F, s, a, d)'
    BY <1>2, <1>4, <1>10, <1>11, <1>13, StreamedOn, Zenon
  <1>15. Matched(f, s, a)'
    <2>1. a <= a
      BY <1>7
    <2>. QED  BY <1>1, <1>2, <1>4, <1>5, <1>7, <2>1, MatchedOn, Zenon
  <1>. QED  BY <1>14, <1>15, Zenon

LEMMA StreamEnd ==
    ASSUME SInv, EndDrain
    PROVE  \E w, e, F, s, a, b, f : Streamed(w, e, F, s, a, b)' /\ Matched(f, s, a)'
  <1>1. TypeOK
    BY DEF SInv
  <1>2. PICK w, e, F, s, a, b, f : Streamed(w, e, F, s, a, b) /\ Matched(f, s, a)
    BY DEF SInv
  <1>3. /\ config' = config /\ sent' = sent /\ handled' = handled /\ net' = net
        /\ recv_buffer' = Residue(recv_buffer)
    BY DEF EndDrain
  <1>5. /\ LaidOut(w, F, s) /\ Len(w) = Len(sent) /\ b \in 0..Len(F) /\ a \in 0..b
        /\ recv_buffer = Stretch(F, a, b) /\ net = Stretch(F, b, Len(F))
    BY <1>2 DEF Streamed
  <1>7. a \in Nat /\ b \in Nat /\ a <= b /\ b \in 0..b /\ a <= a
    BY <1>5
  <1>8. CASE recv_buffer' = recv_buffer
    <2>1. Streamed(w, e, F, s, a, b)'
      BY <1>2, <1>3, <1>5, <1>8, StreamedOn, Zenon
    <2>2. Matched(f, s, a)'
      BY <1>1, <1>2, <1>3, <1>5, <1>7, MatchedOn, Zenon
    <2>. QED  BY <2>1, <2>2, Zenon
  <1>9. CASE recv_buffer' = <<>>
    <2>1. Stretch(F, b, b) = <<>>
      <3>1. F \in Seq(Byte)
        BY <1>5, LaidOutType
      <3>2. Stretch(F, b, b) \in Seq(Byte) /\ Len(Stretch(F, b, b)) = b - b
        BY <1>5, <1>7, <3>1, StretchBytes
      <3>. QED  BY <1>7, <3>2
    <2>2. Streamed(w, e, F, s, b, b)'
      BY <1>2, <1>3, <1>5, <1>7, <1>9, <2>1, StreamedOn, Zenon
    <2>3. Matched(f, s, b)'
      BY <1>1, <1>2, <1>3, <1>5, <1>7, MatchedOn, Zenon
    <2>. QED  BY <2>2, <2>3, Zenon
  <1>. QED  BY <1>3, <1>8, <1>9, Zenon DEF Residue

(* A packet is handed on: it is the first whose frame begins in the        *)
(* buffer, so it was not sent before the one handed on last.               *)
LEMMA StreamHandle ==
    ASSUME SInv, HandleOne
    PROVE  \E w, e, F, s, a, b, f : Streamed(w, e, F, s, a, b)' /\ Matched(f, s, a)'
  <1>1. TypeOK /\ sent \in Seq(config.offers)
    BY DEF SInv
  <1>2. PICK w, e, F, s, a, b, f : Streamed(w, e, F, s, a, b) /\ Matched(f, s, a)
    BY DEF SInv
  <1>3. /\ config' = config /\ sent' = sent /\ net' = net
        /\ recv_buffer' = Cut(recv_buffer)
        /\ handled' = Append(handled, Taken(recv_buffer))
        /\ FoundAt(recv_buffer) # 0
    BY DEF HandleOne
  <1>5. /\ LaidOut(w, F, s) /\ Holds(w, e) /\ Len(w) = Len(sent) /\ b \in 0..Len(F) /\ a \in 0..b
        /\ recv_buffer = Stretch(F, a, b) /\ net = Stretch(F, b, Len(F))
        /\ \A m \in 1..Len(sent), p \in config.offers :
               p = sent[m] => w[m] = Wire(p) /\ e[m] = Encoded(p)
    BY <1>2 DEF Streamed
  <1>6. /\ F \in Seq(Byte) /\ Len(F) \in Nat /\ a \in Nat /\ b \in Nat /\ a <= b
        /\ Len(sent) \in Nat /\ Len(handled) \in Nat
    BY <1>1, <1>5, LaidOutType DEF TypeOK
  <1>7. PICK m \in 1..Len(w) :
            /\ parse(Stretch(F, a, b)) = e[m]
            /\ Begins(s, a, b, m, FoundAt(Stretch(F, a, b)))
            /\ s[m] + Len(FrameBody(e[m])) <= b
            /\ \A j \in 1..(m - 1) : s[j] < a
    <2>1. FoundAt(Stretch(F, a, b)) # 0
      BY <1>3, <1>5
    <2>2. \E m \in 1..Len(w) : FoundFirst(e, F, s, a, b, m)
      BY <1>5, <2>1, FoundFrame, Zenon
    <2>. QED  BY <2>2, Zenon DEF FoundFirst, FirstWhole
  <1>8. m \in 1..Len(sent) /\ sent[m] \in config.offers
    BY <1>1, <1>5
  <1>9. PICK p \in config.offers : p = sent[m]
    BY <1>8
  <1>10. e[m] = Encoded(p) /\ Taken(recv_buffer) = Arrived(p)
    BY <1>5, <1>7, <1>8, <1>9, Zenon DEF Taken, Arrived
  <1>. DEFINE z == data_size(Taken(recv_buffer))
              c == a + (7 + z)
              n == Len(handled)
              g == [k \in 1..(n + 1) |-> IF k = n + 1 THEN m ELSE f[k]]
  <1>11. z \in Nat /\ c \in Nat /\ a <= c /\ c \in 0..b /\ 7 + z \in 0..(b - a)
    <2>1. e[m] \in Packets
      BY <1>5 DEF Holds, Sendable
    <2>2. /\ Taken(recv_buffer) \in Packets /\ z <= data_size(e[m])
          /\ Len(FrameBody(e[m])) = 7 + data_size(e[m])
      <3>1. Taken(recv_buffer) = Decoded(e[m])
        BY <1>5, <1>7, Zenon DEF Taken
      <3>. QED  BY <2>1, <3>1, DecodedPacket, FrameParts DEF OVERHEAD
    <2>3. z \in Nat /\ data_size(e[m]) \in Nat
      BY <2>1, <2>2, DataType
    <2>. DEFINE x == s[m]
                y == data_size(e[m])
    <2>4. x \in Nat /\ a <= x
      BY <1>5, <1>7, LaidOutType DEF Begins
    <2>5. x + (7 + y) <= b
      BY <1>7, <2>2
    <2>6. z <= y /\ y \in Nat
      BY <2>2, <2>3
    <2>. HIDE DEF x, y, z
    <2>. QED  BY <1>6, <2>3, <2>4, <2>5, <2>6
  <1>12. recv_buffer' = Stretch(F, c, b)
    <2>1. Cut(recv_buffer) = SubSeq(recv_buffer, (7 + z) + 1, Len(recv_buffer))
      BY DEF Cut, OVERHEAD
    <2>. HIDE DEF z, c
    <2>2. SubSeq(Stretch(F, a, b), (7 + z) + 1, Len(Stretch(F, a, b))) = Stretch(F, a + (7 + z), b)
      BY <1>5, <1>6, <1>11, StretchRest
    <2>. QED  BY <1>3, <1>5, <2>1, <2>2, Zenon DEF c
  <1>. HIDE DEF z, c
  <1>14. /\ f \in [1..n -> 1..Len(sent)]
         /\ \A k \in 2..n : f[k - 1] <= f[k]
         /\ \A k \in 1..n, q \in config.offers : q = sent[f[k]] => Arrived(q) = handled[k]
         /\ handled # <<>> => \A j \in 1..(f[n] - 1) : s[j] < a
    BY <1>2, Zenon DEF Matched
  <1>15. /\ Len(handled') = n + 1 /\ handled'[n + 1] = Arrived(p)
         /\ \A k \in 1..n : handled'[k] = handled[k]
    <2>1. Taken(recv_buffer) \in Packets
      BY <1>1, <1>3, CutShort DEF TypeOK
    <2>2. handled \in Seq(Packets)
      BY <1>1 DEF TypeOK
    <2>. DEFINE y == Taken(recv_buffer)
    <2>. HIDE DEF y
    <2>3. y \in Packets /\ handled' = Append(handled, y) /\ y = Arrived(p)
      BY <1>3, <1>10, <2>1 DEF y
    <2>. QED  BY <2>2, <2>3
  <1>n. n \in Nat
    BY <1>6
  <1>. HIDE DEF n
  <1>16. /\ g \in [1..(n + 1) -> 1..Len(sent)] /\ g[n + 1] = m
         /\ \A k \in 1..n : g[k] = f[k]
    BY <1>8, <1>14, <1>n
  <1>17. n # 0 => f[n] <= m
    <2>. SUFFICES ASSUME n # 0, ~(f[n] <= m) PROVE FALSE
      OBVIOUS
    <2>1. handled # <<>> /\ n \in 1..n
      BY <1>n DEF n
    <2>2. f[n] \in 1..Len(sent)
      BY <1>14, <2>1
    <2>3. m \in 1..(f[n] - 1)
      BY <1>8, <2>2
    <2>4. s[m] < a
      BY <1>14, <2>1, <2>3
    <2>5. a <= s[m] /\ s[m] \in Nat
      BY <1>5, <1>7, LaidOutType DEF Begins
    <2>. QED  BY <1>6, <2>4, <2>5
  <1>. HIDE DEF g
  <1>18. \A k \in 1..(n + 1) : k = n + 1 \/ k \in 1..n
    BY <1>n
  <1>19. ASSUME NEW k \in 2..(n + 1) PROVE g[k - 1] <= g[k]
    <2>1. k - 1 \in 1..n
      BY <1>n
    <2>2. CASE k = n + 1
      <3>1. k - 1 = n /\ n # 0
        BY <1>n, <2>1, <2>2
      <3>. QED  BY <1>16, <1>17, <2>1, <2>2, <3>1
    <2>3. CASE k # n + 1
      <3>1. k \in 2..n /\ k \in 1..n
        BY <1>n, <2>3
      <3>. QED  BY <1>14, <1>16, <2>1, <3>1
    <2>. QED  BY <2>2, <2>3
  <1>20. ASSUME NEW k \in 1..(n + 1), NEW q \in config.offers, q = sent[g[k]]
         PROVE  Arrived(q) = handled'[k]
    <2>1. CASE k = n + 1
      BY <1>9, <1>15, <1>16, <1>20, <2>1, Zenon
    <2>2. CASE k \in 1..n
      BY <1>14, <1>15, <1>16, <1>20, <2>2, Zenon
    <2>. QED  BY <1>18, <2>1, <2>2
  <1>21. \A j \in 1..(g[n + 1] - 1) : s[j] < c
    <2>. SUFFICES ASSUME NEW j \in 1..(m - 1) PROVE s[j] < c
      BY <1>16
    <2>1. s[j] < a /\ j \in 1..Len(w)
      BY <1>7, <1>5, <1>6
    <2>2. s[j] \in Nat
      BY <1>5, <2>1, LaidOutType
    <2>. QED  BY <1>6, <1>11, <2>1, <2>2
  <1>22. PICK h : h = g
    BY Zenon
  <1>23. PICK d : d = c
    BY Zenon
  <1>24. Streamed(w, e, F, s, d, b)' /\ Matched(h, s, d)'
    <2>1. \A q : Arrived(q)' = Arrived(q)
      BY <1>3, SameArrived
    <2>2. Streamed(w, e, F, s, d, b)'
      BY <1>2, <1>3, <1>5, <1>11, <1>12, <1>23, StreamedOn, Zenon
    <2>3. /\ h \in [1..Len(handled') -> 1..Len(sent')]
          /\ \A k \in 2..Len(handled') : h[k - 1] <= h[k]
          /\ \A k \in 1..Len(handled'), q \in config'.offers :
                 q = sent'[h[k]] => Arrived(q)' = handled'[k]
          /\ \A j \in 1..(h[Len(handled')] - 1) : s[j] < d
      BY <1>3, <1>15, <1>16, <1>19, <1>20, <1>21, <1>22, <1>23, <2>1, Zenon
    <2>4. Matched(h, s, d)'
      BY <2>3, Zenon DEF Matched
    <2>. QED  BY <2>2, <2>4
  <1>. QED  BY <1>24, Zenon

LEMMA StreamStep == SInv /\ [Next]_vars /\ [Unstripped]_vars => SInv'
  <1>. SUFFICES ASSUME SInv, [Next]_vars, [Unstripped]_vars PROVE SInv'
    OBVIOUS
  <1>1. TypeOK /\ Marked /\ sent \in Seq(config.offers)
    BY DEF SInv
  <1>2. TypeOK'
    BY <1>1, TypeStep
  <1>3. config' = config /\ Marked'
    BY <1>1, StillMarked
       DEF Next, Send, Receive, Recv, Loop, HandleOne, HandleRaises, EndDrain, vars
  <1>4. CASE Send
    BY <1>1, <1>2, <1>3, <1>4, StreamSend, SendSequence, Zenon DEF SInv
  <1>5. CASE Receive
    <2>1. Unstripped
      <3>1. CASE UNCHANGED vars
        BY <3>1 DEF vars, Unstripped
      <3>. QED  BY <3>1
    <2>2. sent' = sent
      BY <1>5 DEF Receive, Recv
    <2>. QED  BY <1>1, <1>2, <1>3, <1>5, <2>1, <2>2, StreamReceive, Zenon DEF SInv
  <1>6. CASE HandleOne
    <2>1. sent' = sent
      BY <1>6 DEF HandleOne
    <2>. QED  BY <1>1, <1>2, <1>3, <1>6, <2>1, StreamHandle, Zenon DEF SInv
  <1>7. CASE EndDrain
    <2>1. sent' = sent
      BY <1>7 DEF EndDrain
    <2>. QED  BY <1>1, <1>2, <1>3, <1>7, <2>1, StreamEnd, Zenon DEF SInv
  <1>8. CASE HandleRaises \/ UNCHANGED vars
    <2>1. /\ sent' = sent /\ net' = net /\ handled' = handled /\ recv_buffer' = recv_buffer
      BY <1>8 DEF HandleRaises, vars
    <2>2. PICK w, e, F, s, a, b, f : Streamed(w, e, F, s, a, b) /\ Matched(f, s, a)
      BY DEF SInv
    <2>3. /\ LaidOut(w, F, s) /\ Len(w) = Len(sent) /\ b \in 0..Len(F) /\ a \in 0..b
          /\ recv_buffer = Stretch(F, a, b) /\ net = Stretch(F, b, Len(F))
      BY <2>2 DEF Streamed
    <2>4. Streamed(w, e, F, s, a, b)'
      BY <1>3, <2>1, <2>2, <2>3, StreamedOn, Zenon
    <2>5. a \in Nat /\ a <= a
      BY <2>3
    <2>6. Matched(f, s, a)'
      BY <1>1, <1>3, <2>1, <2>2, <2>3, <2>5, MatchedOn, Zenon
    <2>. QED  BY <1>1, <1>2, <1>3, <2>1, <2>4, <2>6, Zenon DEF SInv
  <1>. QED  BY <1>4, <1>5, <1>6, <1>7, <1>8 DEF Next, Loop

LEMMA StreamFollows == SInv => HandledFollowsSent
  <1>. SUFFICES ASSUME SInv PROVE HandledFollowsSent
    OBVIOUS
  <1>1. TypeOK /\ sent \in Seq(config.offers)
    BY DEF SInv
  <1>2. PICK w, e, F, s, a, b, f : Streamed(w, e, F, s, a, b) /\ Matched(f, s, a)
    BY DEF SInv
  <1>3. /\ f \in [1..Len(handled) -> 1..Len(sent)]
        /\ \A k \in 2..Len(handled) : f[k - 1] <= f[k]
        /\ \A k \in 1..Len(handled), p \in config.offers :
               p = sent[f[k]] => Arrived(p) = handled[k]
    BY <1>2 DEF Matched
  <1>4. \A k \in 1..Len(handled) : Decoded(Encoded(sent[f[k]])) = handled[k]
    <2>1. \A k \in 1..Len(handled) : sent[f[k]] \in config.offers
      BY <1>1, <1>3
    <2>. QED  BY <1>3, <2>1, Zenon DEF Arrived
  <1>. QED  BY <1>1, <1>3, <1>4, PlaceBefore, Zenon

(* The invariant of a stream that TCP may cut anywhere, any number of      *)
(* frames to a recv, as long as no cut is next to white space.             *)
THEOREM StreamHolds == Spec /\ Marked /\ [][Unstripped]_vars => []SInv
  BY StreamInit, StreamStep, PTL DEF Spec

(* However TCP cuts and joins the frames of a peer, with or without -e at  *)
(* either end, and whatever handle() leaves behind or drops of them: what  *)
(* reaches handle_packet is what was sent, in the order it was sent, with  *)
(* packets left out or repeated.  Asked of the peer: that no frame holds a *)
(* second START.  Asked of the network: no cut next to white space, which  *)
(* strip would take out of the stream.                                     *)
THEOREM HandledIsSent == Spec /\ Marked /\ [][Unstripped]_vars => []HandledFollowsSent
  BY StreamHolds, StreamFollows, PTL

(* A peer that pauses between its frames, over a network that does not cut *)
(* next to white space: net begins with ink.                               *)
Inked ==
    /\ TypeOK
    /\ Marked
    /\ config.network = "paced"
    /\ net # <<>> => ~IsSpace(net[1])

(* Of a chunk with ink at its ends strip takes nothing. *)
LEMMA InkedUnstripped == Inked => Unstripped
  <1>. SUFFICES ASSUME Inked, Receive PROVE recv_buffer' \o net' = recv_buffer \o net
    BY DEF Unstripped
  <1>1. PICK n \in Cuts : Recv(n)
    BY DEF Receive
  <1>2. n \in 1..Len(net) /\ InkedCut(n) /\ net \in Seq(Byte) /\ recv_buffer \in Seq(Byte)
    BY DEF Cuts, Inked, TypeOK
  <1>. DEFINE x == SubSeq(net, 1, n)
              y == SubSeq(net, n + 1, Len(net))
  <1>3. /\ x \in Seq(Byte) /\ Len(x) = n /\ n \in Nat /\ n >= 1
        /\ x[1] = net[1] /\ x[n] = net[n] /\ y \in Seq(Byte)
    BY <1>2
  <1>4. ~IsSpace(net[1]) /\ ~IsSpace(net[n])
    <2>1. net # <<>>
      BY <1>2
    <2>. QED  BY <1>2, <2>1 DEF Inked, InkedCut
  <1>5. x \o y = net
    BY <1>2
  <1>6. recv_buffer' = recv_buffer \o strip(x) /\ net' = y
    BY <1>1 DEF Recv
  <1>. HIDE DEF x, y
  <1>7. strip(x) = x
    BY <1>3, <1>4, StripInked
  <1>8. (recv_buffer \o x) \o y = recv_buffer \o (x \o y)
    <2>1. recv_buffer \in Seq(Byte) /\ x \in Seq(Byte) /\ y \in Seq(Byte)
      BY <1>2, <1>3
    <2>2. \A q, r, t \in Seq(Byte) : (q \o r) \o t = q \o (r \o t)
      BY ConcatAssociative
    <2>. QED  BY <2>1, <2>2
  <1>. QED  BY <1>5, <1>6, <1>7, <1>8

LEMMA InkedStep == Inked /\ [Next]_vars => Inked'
  <1>. SUFFICES ASSUME Inked, [Next]_vars PROVE Inked'
    OBVIOUS
  <1>1. TypeOK /\ Marked /\ config.network = "paced" /\ net \in Seq(Byte)
    BY DEF Inked, TypeOK
  <1>2. TypeOK'
    BY <1>1, TypeStep
  <1>3. config' = config /\ Marked'
    BY <1>1, StillMarked
       DEF Next, Send, Receive, Recv, Loop, HandleOne, HandleRaises, EndDrain, vars
  <1>4. CASE Send
    <2>1. PICK p \in config.offers : net' = net \o Wire(p)
      BY <1>4 DEF Send
    <2>2. net = <<>>
      BY <1>1, <1>4 DEF Send
    <2>3. Wire(p) \in Seq(Byte) /\ Wire(p)[1] = 35
      BY <1>1, FrameMarked
    <2>4. net' = Wire(p)
      BY <2>1, <2>2, <2>3
    <2>5. ~IsSpace(35)
      BY DEF IsSpace
    <2>. QED  BY <1>1, <1>2, <1>3, <2>3, <2>4, <2>5, Zenon DEF Inked
  <1>5. CASE Receive
    <2>1. PICK n \in Cuts : Recv(n)
      BY <1>5 DEF Receive
    <2>2. n \in 1..Len(net) /\ InkedCut(n)
      BY <1>1, <2>1 DEF Cuts
    <2>3. net' = SubSeq(net, n + 1, Len(net))
      BY <2>1 DEF Recv
    <2>4. ASSUME net' # <<>> PROVE ~IsSpace(net'[1])
      <3>1. n < Len(net)
        BY <1>1, <2>2, <2>3, <2>4
      <3>2. net'[1] = net[n + 1]
        BY <1>1, <2>2, <2>3, <3>1
      <3>. QED  BY <2>2, <3>1, <3>2 DEF InkedCut
    <2>. QED  BY <1>1, <1>2, <1>3, <2>4, Zenon DEF Inked
  <1>6. CASE Loop \/ UNCHANGED vars
    <2>1. net' = net
      BY <1>6 DEF Loop, HandleOne, HandleRaises, EndDrain, vars
    <2>. QED  BY <1>1, <1>2, <1>3, <2>1, Zenon DEF Inked
  <1>. QED  BY <1>4, <1>5, <1>6 DEF Next

(* So a peer that pauses between its frames has nothing handed on that it  *)
(* did not send, and nothing out of order, even when only one of the two   *)
(* ends runs with -e and whatever handle() keeps of a frame.               *)
THEOREM PacedIsSent ==
    Spec /\ Marked /\ config.network = "paced" => []HandledFollowsSent
  <1>1. Init /\ Marked /\ config.network = "paced" => Inked
    <2>1. Init => TypeOK /\ net = <<>>
      BY TypeInit DEF Init
    <2>. QED  BY <2>1, Zenon DEF Inked
  <1>2. Inked /\ [Next]_vars => Inked'
    BY InkedStep
  <1>3. Inked => [Unstripped]_vars
    BY InkedUnstripped
  <1>. QED  BY <1>1, <1>2, <1>3, HandledIsSent, PTL DEF Spec

-----------------------------------------------------------------------------
(* Many frames to a recv, none of them cut.  handle() cuts Used(p) bytes   *)
(* off the front for each packet, so that what it leaves of the frames of  *)
(* one recv adds up: L bytes or fewer of each.                             *)
Bundled(L) ==
    /\ config.network = "coalesced"
    /\ config.decodes = config.encodes
    /\ Marked
    /\ \A p \in config.offers :
           /\ Len(Wire(p)) <= Used(p) + L
           /\ ~IsSpace(Wire(p)[Len(Wire(p))])
           /\ L # 0 => Wire(p)[Len(Wire(p))] # PACKET_MIN

(* All that is pending fits the buffer, and it is not so many packets that *)
(* what is left of their frames amounts to one.                            *)
Sparse(L) ==
    /\ Len(net) <= BufSize
    /\ \A p \in config.offers : L * (Len(sent) - Len(handled)) < Len(Wire(p))

(* g packets had been handled before the last recv, k were received by it. *)
Batch(L, s, a, b, g, k) ==
    /\ g \in Nat /\ k \in Nat
    /\ g <= Len(handled) /\ Len(handled) <= k /\ k <= Len(sent)
    /\ b = s[k + 1]
    /\ a <= s[Len(handled) + 1]
    /\ s[Len(handled) + 1] <= a + L * (Len(handled) - g)
    /\ \A p \in config.offers : L * (k - g) < Len(Wire(p))
    /\ phase = "select" => k = Len(handled) /\ a = b

Bundles(L) ==
    /\ handled = SubSeq(sent, 1, Len(handled))
    /\ \E w, e, F, s, a, b, g, k : Streamed(w, e, F, s, a, b) /\ Batch(L, s, a, b, g, k)

JInv(L) ==
    /\ TypeOK
    /\ Bundled(L)
    /\ sent \in Seq(config.offers)
    /\ phase # "exit"
    /\ Bundles(L)

LEMMA Times ==
    ASSUME NEW L \in Nat
    PROVE  /\ L * 0 = 0
           /\ \A x, y \in Nat : L * x \in Nat /\ L * (x + y) = L * x + L * y /\ L * (x + 1) = L * x + L
  OBVIOUS

LEMMA StillBundled ==
    ASSUME NEW L, Bundled(L), config' = config
    PROVE  Bundled(L)'
  <1>1. \A p : Wire(p)' = Wire(p)
    BY SameConfig
  <1>2. Marked'
    BY StillMarked DEF Bundled
  <1>3. \A p : Used(p)' = Used(p)
    BY DEF Used
  <1>. QED  BY <1>1, <1>2, <1>3, Zenon DEF Bundled

(* The frame of a handled packet does not begin in the buffer. *)
LEMMA HandledGone ==
    ASSUME NEW L \in Nat, TypeOK, Bundled(L), sent \in Seq(config.offers),
           NEW w, NEW e, NEW F, NEW s, NEW a, NEW b, Streamed(w, e, F, s, a, b),
           NEW g, NEW k, Batch(L, s, a, b, g, k),
           NEW j \in 1..Len(handled)
    PROVE  s[j] < a
  <1>. DEFINE h == Len(handled)
  <1>1. /\ LaidOut(w, F, s) /\ Len(w) = Len(sent) /\ b \in 0..Len(F) /\ a \in 0..b
        /\ \A m \in 1..Len(sent), p \in config.offers :
               p = sent[m] => w[m] = Wire(p) /\ e[m] = Encoded(p)
    BY DEF Streamed
  <1>2. /\ Len(sent) \in Nat /\ h \in Nat /\ a \in Nat
    BY <1>1 DEF TypeOK
  <1>3. /\ g \in Nat /\ k \in Nat /\ g <= h /\ h <= k /\ k <= Len(sent)
        /\ s[h + 1] <= a + L * (h - g)
        /\ \A p \in config.offers : L * (k - g) < Len(Wire(p))
    BY DEF Batch
  <1>j. j \in 1..h
    OBVIOUS
  <1>. HIDE DEF h
  <1>4. h \in 1..Len(sent) /\ h + 1 \in 1..(Len(w) + 1) /\ h \in 1..(Len(w) + 1) /\ j \in 1..(Len(w) + 1)
        /\ j <= h
    BY <1>1, <1>2, <1>3, <1>j
  <1>5. /\ s[h + 1] = s[h] + Len(w[h]) /\ s[h] \in Nat /\ s[j] \in Nat /\ s[j] <= s[h]
    BY <1>1, <1>4, LaidOutMarks
  <1>6. Len(w[h]) \in Nat
    BY <1>1, <1>4, LaidOutType
  <1>7. PICK p \in config.offers : p = sent[h]
    BY <1>4
  <1>8. L * (k - g) < Len(w[h])
    BY <1>1, <1>3, <1>4, <1>7
  <1>. DEFINE x == h - g
              y == k - h
  <1>9. x \in Nat /\ y \in Nat /\ k - g = x + y
    BY <1>2, <1>3
  <1>10. L * (k - g) = L * x + L * y /\ L * x \in Nat /\ L * y \in Nat
    BY <1>9, Times
  <1>. DEFINE c == L * x
              d == L * y
              z == Len(w[h])
              q == s[h]
              r == s[j]
  <1>11. q + z <= a + c /\ c + d < z /\ c \in Nat /\ d \in Nat /\ z \in Nat /\ q \in Nat /\ r \in Nat
         /\ r <= q /\ a \in Nat
    BY <1>2, <1>3, <1>5, <1>6, <1>8, <1>10
  <1>. HIDE DEF c, d, z, q, r
  <1>12. r < a
    BY <1>11
  <1>. QED  BY <1>12 DEF r

(* What parse finds is the frame of the next packet. *)
LEMMA FoundNext ==
    ASSUME NEW L \in Nat, TypeOK, Bundled(L), sent \in Seq(config.offers),
           NEW w, NEW e, NEW F, NEW s, NEW a, NEW b, Streamed(w, e, F, s, a, b),
           NEW g, NEW k, Batch(L, s, a, b, g, k), FoundAt(recv_buffer) # 0
    PROVE  /\ Len(handled) + 1 \in 1..Len(sent) /\ Len(handled) + 1 <= k
           /\ parse(recv_buffer) = e[Len(handled) + 1]
           /\ FirstWhole(e, s, a, b, Len(handled) + 1)
  <1>. DEFINE h == Len(handled)
  <1>1. /\ LaidOut(w, F, s) /\ Holds(w, e) /\ Len(w) = Len(sent) /\ b \in 0..Len(F) /\ a \in 0..b
        /\ recv_buffer = Stretch(F, a, b)
    BY DEF Streamed
  <1>2. /\ Len(sent) \in Nat /\ h \in Nat /\ a \in Nat /\ b \in Nat
    BY <1>1, LaidOutType DEF TypeOK
  <1>3. PICK m \in 1..Len(w) : FoundFirst(e, F, s, a, b, m)
    <2>1. FoundAt(Stretch(F, a, b)) # 0
      BY <1>1
    <2>. QED  BY <1>1, <2>1, FoundFrame, Zenon
  <1>4. /\ parse(recv_buffer) = e[m] /\ FirstWhole(e, s, a, b, m)
        /\ a <= s[m] /\ s[m] < b /\ \A j \in 1..(m - 1) : s[j] < a
    BY <1>1, <1>3, Zenon DEF FoundFirst, FirstWhole, Begins
  <1>5. /\ k \in Nat /\ h <= k /\ k <= Len(sent) /\ b = s[k + 1] /\ a <= s[h + 1]
    BY DEF Batch
  <1>6. \A j \in 1..h : s[j] < a
    BY HandledGone, Zenon
  <1>. HIDE DEF h
  <1>7. /\ m \in 1..(Len(w) + 1) /\ h + 1 \in 1..(Len(w) + 1) /\ k + 1 \in 1..(Len(w) + 1)
        /\ m \in Nat
    BY <1>1, <1>2, <1>5
  <1>8. s[m] \in Nat /\ s[h + 1] \in Nat
    BY <1>1, <1>7, LaidOutMarks
  <1>9. m < k + 1
    <2>1. s[m] < s[k + 1]
      BY <1>4, <1>5
    <2>. QED  BY <1>1, <1>7, <2>1, LaidOutMarks
  <1>10. ~(m <= h)
    <2>1. m <= h => m \in 1..h
      BY <1>2, <1>7
    <2>. QED  BY <1>2, <1>4, <1>6, <1>8, <2>1
  <1>11. ~(h + 1 < m)
    <2>1. h + 1 < m => h + 1 \in 1..(m - 1)
      BY <1>2, <1>7
    <2>. QED  BY <1>2, <1>4, <1>5, <1>8, <2>1
  <1>12. m = h + 1
    BY <1>2, <1>7, <1>10, <1>11
  <1>13. h + 1 \in 1..Len(sent) /\ h + 1 <= k
    BY <1>1, <1>2, <1>5, <1>9, <1>12
  <1>. QED  BY <1>4, <1>12, <1>13 DEF h

(* While there is a packet to hand on, parse finds one. *)
LEMMA FindsNext ==
    ASSUME NEW L \in Nat, TypeOK, Bundled(L), sent \in Seq(config.offers),
           NEW w, NEW e, NEW F, NEW s, NEW a, NEW b, Streamed(w, e, F, s, a, b),
           NEW g, NEW k, Batch(L, s, a, b, g, k), Len(handled) < k
    PROVE  FoundAt(recv_buffer) # 0
  <1>. DEFINE h == Len(handled)
  <1>1. /\ LaidOut(w, F, s) /\ Holds(w, e) /\ Len(w) = Len(sent) /\ b \in 0..Len(F) /\ a \in 0..b
        /\ recv_buffer = Stretch(F, a, b)
        /\ \A m \in 1..Len(sent), p \in config.offers :
               p = sent[m] => w[m] = Wire(p) /\ e[m] = Encoded(p)
    BY DEF Streamed
  <1>2. /\ Len(sent) \in Nat /\ h \in Nat /\ a \in Nat /\ b \in Nat
    BY <1>1, LaidOutType DEF TypeOK
  <1>3. /\ k \in Nat /\ h < k /\ k <= Len(sent) /\ b = s[k + 1] /\ a <= s[h + 1]
    BY DEF Batch
  <1>4. \A j \in 1..h : s[j] < a
    BY HandledGone, Zenon
  <1>. HIDE DEF h
  <1>. DEFINE m == h + 1
  <1>5. /\ m \in 1..Len(w) /\ m \in 1..Len(sent) /\ m + 1 \in 1..(Len(w) + 1)
        /\ k + 1 \in 1..(Len(w) + 1) /\ m + 1 <= k + 1 /\ m - 1 = h
    BY <1>1, <1>2, <1>3
  <1>. HIDE DEF m
  <1>6. s[m + 1] = s[m] + Len(w[m]) /\ s[m + 1] <= b
    <2>1. /\ \A i \in 1..Len(w) : s[i + 1] = s[i] + Len(w[i])
          /\ \A i, j \in 1..(Len(w) + 1) : i <= j => s[i] <= s[j]
      BY <1>1, LaidOutMarks
    <2>. QED  BY <1>3, <1>5, <2>1, Zenon
  <1>7. s[m] \in Nat /\ Len(w[m]) \in Nat
    BY <1>1, <1>5, LaidOutType
  <1>8. Len(FrameBody(e[m])) <= Len(w[m]) /\ Sendable(e[m])
    BY <1>1, <1>5 DEF Holds
  <1>9. e[m] \in Packets /\ FrameBody(e[m]) \in Seq(Byte) /\ Len(FrameBody(e[m])) \in Nat
        /\ data_size(e[m]) \in Nat
    <2>1. e[m] \in Packets
      BY <1>8 DEF Sendable
    <2>2. FrameBody(e[m]) \in Seq(Byte)
      BY <2>1, FrameParts
    <2>3. Len(FrameBody(e[m])) \in Nat
      BY <2>2
    <2>. QED  BY <2>1, <2>2, <2>3, DataType
  <1>10. s[m] + Len(FrameBody(e[m])) <= b
    <2>. DEFINE x == s[m]
                y == s[m + 1]
                z == Len(w[m])
                c == Len(FrameBody(e[m]))
    <2>1. x \in Nat /\ z \in Nat /\ c \in Nat /\ c <= z /\ y = x + z /\ y <= b
      BY <1>6, <1>7, <1>8, <1>9
    <2>. HIDE DEF x, y, z, c
    <2>2. x + c <= b
      BY <1>2, <2>1
    <2>. QED  BY <2>2, Zenon DEF x, c
  <1>11. data_size(e[m]) >= 1
    <2>1. PICK p \in config.offers : p = sent[m]
      BY <1>5
    <2>2. e[m] = Encoded(p) /\ config.decodes = config.encodes
      BY <1>1, <1>5, <2>1, Zenon DEF Bundled
    <2>3. 8 <= Used(p) /\ Used(p) <= Len(Body(p)) /\ Used(p) \in Nat
      BY <2>2, Agreed
    <2>4. Body(p) = FrameBody(e[m])
      BY <2>2, Zenon DEF Body
    <2>5. Len(FrameBody(e[m])) = 7 + data_size(e[m])
      BY <1>9, FrameParts DEF OVERHEAD
    <2>. DEFINE c == data_size(e[m])
                u == Used(p)
    <2>6. c \in Nat /\ u \in Nat /\ 8 <= u /\ u <= 7 + c
      BY <1>9, <2>3, <2>4, <2>5
    <2>. HIDE DEF c, u
    <2>7. c >= 1
      BY <2>6
    <2>. QED  BY <2>7 DEF c
  <1>12. FirstWhole(e, s, a, b, m)
    <2>1. a <= s[m]
      BY <1>3 DEF m
    <2>2. \A j \in 1..(m - 1) : s[j] < a
      BY <1>4, <1>5
    <2>. QED  BY <1>10, <2>1, <2>2, Zenon DEF FirstWhole
  <1>13. FoundAt(Stretch(F, a, b)) # 0
    BY <1>1, <1>5, <1>11, <1>12, FindsFrame, Zenon
  <1>. QED  BY <1>1, <1>13

LEMMA BundleInit ==
    ASSUME NEW L \in Nat, Init, Bundled(L)
    PROVE  JInv(L)
  <1>1. TypeOK /\ sent = <<>> /\ handled = <<>> /\ net = <<>> /\ recv_buffer = <<>> /\ phase = "select"
    BY TypeInit DEF Init
  <1>. DEFINE s == [m \in 1..1 |-> 0]
  <1>2. LaidOut(<<>>, <<>>, s)
    BY EmptyStream
  <1>3. s[1] = 0
    OBVIOUS
  <1>. HIDE DEF s
  <1>4. Stretch(<<>>, 0, 0) = <<>>
    BY DEF Stretch
  <1>5. Streamed(<<>>, <<>>, <<>>, s, 0, 0)
    BY <1>1, <1>2, <1>4 DEF Streamed, Holds
  <1>6. \A p \in config.offers : 0 < Len(Wire(p))
    <2>. SUFFICES ASSUME NEW p \in config.offers PROVE 0 < Len(Wire(p))
      OBVIOUS
    <2>1. Wire(p) \in Seq(Byte) /\ Len(Wire(p)) >= 2
      BY <1>1, FrameMarked DEF Bundled
    <2>. QED  BY <2>1
  <1>7. Batch(L, s, 0, 0, 0, 0)
    <2>1. Len(handled) = 0 /\ Len(sent) = 0 /\ L * (0 - 0) = 0
      BY <1>1
    <2>2. s[0 + 1] = 0
      BY <1>3
    <2>. QED  BY <1>1, <1>6, <2>1, <2>2 DEF Batch
  <1>8. handled = SubSeq(sent, 1, Len(handled))
    BY <1>1
  <1>. QED  BY <1>1, <1>5, <1>7, <1>8 DEF JInv, Bundles

(* The peer sends: what has been received is as before. *)
LEMMA BundleSend ==
    ASSUME NEW L \in Nat, JInv(L), Send
    PROVE  Bundles(L)'
  <1>1. TypeOK /\ Bundled(L) /\ Marked /\ sent \in Seq(config.offers)
        /\ handled = SubSeq(sent, 1, Len(handled))
    BY DEF JInv, Bundled, Bundles
  <1>2. PICK w, e, F, s, a, b, g, k : Streamed(w, e, F, s, a, b) /\ Batch(L, s, a, b, g, k)
    BY DEF JInv, Bundles
  <1>3. PICK x, y, G, t : Streamed(x, y, G, t, a, b)' /\ Prolongs(t, s)
    BY <1>1, <1>2, StreamedSend, Zenon
  <1>4. config' = config /\ handled' = handled /\ phase' = phase
    BY DEF Send
  <1>5. /\ sent' \in Seq(config.offers) /\ Len(sent') = Len(sent) + 1 /\ Len(sent) \in Nat
        /\ \A m \in 1..Len(sent) : sent'[m] = sent[m]
    BY <1>1, SendSequence
  <1>6. \A q : Wire(q)' = Wire(q)
    BY <1>4, SameConfig
  <1>. DEFINE h == Len(handled)
  <1>7. h \in Nat
    BY <1>1 DEF TypeOK
  <1>8. /\ g \in Nat /\ k \in Nat /\ g <= h /\ h <= k /\ k <= Len(sent)
        /\ b = s[k + 1] /\ a <= s[h + 1] /\ s[h + 1] <= a + L * (h - g)
        /\ \A p \in config.offers : L * (k - g) < Len(Wire(p))
        /\ phase = "select" => k = h /\ a = b
    BY <1>2 DEF Batch
  <1>. HIDE DEF h
  <1>9. t[k + 1] = s[k + 1] /\ t[h + 1] = s[h + 1] /\ k <= Len(sent')
    <2>1. k + 1 \in 1..(Len(sent) + 1) /\ h + 1 \in 1..(Len(sent) + 1)
      BY <1>5, <1>7, <1>8
    <2>. QED  BY <1>3, <1>5, <1>8, <2>1 DEF Prolongs
  <1>10. Batch(L, t, a, b, g, k)'
    <2>1. h = Len(handled')
      BY <1>4 DEF h
    <2>. QED  BY <1>4, <1>6, <1>8, <1>9, <2>1, Zenon DEF Batch
  <1>11. handled' = SubSeq(sent', 1, Len(handled'))
    <2>1. SubSeq(sent', 1, h) = SubSeq(sent, 1, h)
      BY <1>1, <1>5, <1>7, <1>8
    <2>. QED  BY <1>1, <1>4, <2>1, Zenon DEF h
  <1>. QED  BY <1>3, <1>10, <1>11, Zenon DEF Bundles

(* recv returns all that is pending, and strip leaves it as it is. *)
LEMMA BundleReceive ==
    ASSUME NEW L \in Nat, JInv(L), Sparse(L), Receive
    PROVE  Bundles(L)' /\ phase' # "exit"
  <1>1. TypeOK /\ Bundled(L) /\ Marked /\ sent \in Seq(config.offers) /\ net \in Seq(Byte)
        /\ handled = SubSeq(sent, 1, Len(handled))
    BY DEF JInv, Bundled, Bundles, TypeOK
  <1>2. PICK w, e, F, s, a, b, g, k : Streamed(w, e, F, s, a, b) /\ Batch(L, s, a, b, g, k)
    BY DEF JInv, Bundles
  <1>3. /\ LaidOut(w, F, s) /\ Len(w) = Len(sent) /\ b \in 0..Len(F) /\ a \in 0..b
        /\ recv_buffer = Stretch(F, a, b) /\ net = Stretch(F, b, Len(F))
        /\ \A m \in 1..Len(sent), p \in config.offers :
               p = sent[m] => w[m] = Wire(p) /\ e[m] = Encoded(p)
    BY <1>2 DEF Streamed
  <1>4. PICK n \in Cuts : Recv(n)
    BY DEF Receive
  <1>5. /\ config' = config /\ sent' = sent /\ handled' = handled /\ phase = "select"
        /\ net' = SubSeq(net, n + 1, Len(net))
        /\ recv_buffer' = recv_buffer \o strip(SubSeq(net, 1, n))
        /\ phase' = IF strip(SubSeq(net, 1, n)) = <<>> THEN "select" ELSE "drain"
    BY <1>4 DEF Recv
  <1>. DEFINE h == Len(handled)
              l == Len(F)
              q == Len(sent)
  <1>6. k = h /\ a = b /\ h <= q /\ b = s[h + 1]
    BY <1>2, <1>5 DEF Batch
  <1>7. /\ F \in Seq(Byte) /\ l \in Nat /\ q \in Nat /\ h \in Nat /\ b \in Nat /\ b <= l
        /\ l \in 0..l /\ b \in 0..b /\ l = s[q + 1]
    <2>1. F \in Seq(Byte) /\ l \in Nat
      BY <1>3, LaidOutType
    <2>2. Len(F) = s[Len(w) + 1]
      BY <1>3, LaidOutMarks
    <2>3. q \in Nat /\ h \in Nat
      BY <1>1 DEF TypeOK
    <2>. QED  BY <1>3, <2>1, <2>2, <2>3
  <1>8. /\ Len(net) = l - b /\ \A i \in 1..(l - b) : net[i] = F[b + i]
    BY <1>3, <1>7, StretchBytes
  <1>9. n = Len(net) /\ n >= 1 /\ n \in Nat
    <2>1. n \in 1..Len(net) /\ n = Least({Len(net), BufSize}) /\ Len(net) <= BufSize
      BY <1>1 DEF Cuts, Bundled, Sparse
    <2>2. Len(net) \in Nat /\ BufSize \in Nat
      BY <1>1, ConfigAssumption
    <2>3. Least({Len(net), BufSize}) = Len(net)
      <3>. DEFINE S == {Len(net), BufSize}
      <3>1. S \in SUBSET Nat /\ Len(net) \in S /\ \A j \in S : Len(net) <= j
        BY <2>1, <2>2
      <3>. HIDE DEF S
      <3>2. Least(S) = Len(net)
        BY <3>1, LeastOf, Zenon
      <3>. QED  BY <3>2 DEF S
    <2>. QED  BY <2>1, <2>2, <2>3
  <1>. HIDE DEF h, l, q
  <1>10. b < l /\ h < q
    <2>1. b < l
      BY <1>7, <1>8, <1>9
    <2>2. h + 1 \in 1..(Len(w) + 1) /\ q + 1 \in 1..(Len(w) + 1)
      BY <1>3, <1>6, <1>7 DEF q
    <2>3. s[h + 1] < s[q + 1]
      BY <1>6, <1>7, <2>1
    <2>4. h + 1 < q + 1
      BY <1>3, <2>2, <2>3, LaidOutMarks
    <2>. QED  BY <1>7, <2>1, <2>4
  <1>i. h + 1 \in 1..Len(w) /\ q \in 1..Len(w) /\ h + 1 \in 1..Len(sent) /\ q \in 1..Len(sent)
    BY <1>3, <1>7, <1>10 DEF q
  <1>e. \A m \in 1..Len(w) : F[s[m] + 1] = w[m][1] /\ F[s[m + 1]] = w[m][Len(w[m])]
    BY <1>3, FrameEnds
  <1>11. ~IsSpace(net[1])
    <2>1. PICK p \in config.offers : p = sent[h + 1]
      BY <1>1, <1>i
    <2>2. w[h + 1] = Wire(p)
      BY <1>3, <1>i, <2>1, Zenon
    <2>3. Wire(p)[1] = 35
      BY <1>1, FrameMarked
    <2>4. F[s[h + 1] + 1] = w[h + 1][1]
      BY <1>i, <1>e
    <2>5. net[1] = F[b + 1]
      BY <1>7, <1>8, <1>10
    <2>6. net[1] = 35
      BY <1>6, <2>2, <2>3, <2>4, <2>5
    <2>. QED  BY <2>6 DEF IsSpace
  <1>12. ~IsSpace(net[Len(net)])
    <2>1. PICK p \in config.offers : p = sent[q]
      BY <1>1, <1>i
    <2>2. w[q] = Wire(p) /\ ~IsSpace(Wire(p)[Len(Wire(p))])
      BY <1>1, <1>3, <1>i, <2>1, Zenon DEF Bundled
    <2>3. F[s[q + 1]] = w[q][Len(w[q])]
      BY <1>i, <1>e
    <2>4. net[Len(net)] = F[l]
      <3>1. l - b \in 1..(l - b) /\ b + (l - b) = l
        BY <1>7, <1>10
      <3>. QED  BY <1>8, <3>1
    <2>. QED  BY <1>7, <2>2, <2>3, <2>4, Zenon
  <1>13. strip(net) = net /\ net # <<>>
    <2>1. Len(net) >= 1
      BY <1>9
    <2>2. strip(net) = net
      BY <1>1, <1>11, <1>12, <2>1, StripInked
    <2>3. Len(<<>>) = 0
      OBVIOUS
    <2>. QED  BY <2>1, <2>2, <2>3
  <1>14. SubSeq(net, 1, n) = net /\ recv_buffer = <<>>
    <2>1. SubSeq(net, 1, n) = net
      BY <1>1, <1>9
    <2>2. Stretch(F, b, b) \in Seq(Byte) /\ Len(Stretch(F, b, b)) = b - b
      BY <1>3, <1>7, StretchBytes
    <2>. QED  BY <1>3, <1>6, <1>7, <2>1, <2>2
  <1>15. recv_buffer' = Stretch(F, b, l) /\ phase' = "drain"
    <2>1. recv_buffer' = net
      <3>1. recv_buffer' = <<>> \o net
        BY <1>5, <1>13, <1>14, Zenon
      <3>2. <<>> \o net = net
        BY <1>1
      <3>. QED  BY <3>1, <3>2, Zenon
    <2>. QED  BY <1>3, <1>5, <1>13, <1>14, <2>1 DEF l
  <1>16. net' = Stretch(F, l, Len(F))
    <2>1. n \in 0..(Len(F) - b) /\ b + n = l /\ Len(F) \in 0..Len(F) /\ b \in 0..Len(F)
      BY <1>7, <1>8, <1>9 DEF l
    <2>2. SubSeq(Stretch(F, b, Len(F)), n + 1, Len(Stretch(F, b, Len(F)))) = Stretch(F, b + n, Len(F))
      BY <1>7, <2>1, StretchRest
    <2>. QED  BY <1>3, <1>5, <2>1, <2>2
  <1>17. PICK d : d = l
    BY Zenon
  <1>18. Streamed(w, e, F, s, b, d)'
    <2>1. d \in 0..Len(F) /\ b \in 0..d
      BY <1>7, <1>17 DEF l
    <2>. QED  BY <1>2, <1>5, <1>15, <1>16, <1>17, <2>1, StreamedOn, Zenon
  <1>19. PICK y, z : y = h /\ z = q
    BY Zenon
  <1>20. Batch(L, s, b, d, y, z)'
    <2>1. \A p : Wire(p)' = Wire(p)
      BY <1>5, SameConfig
    <2>2. \A p \in config.offers : L * (z - y) < Len(Wire(p))
      BY <1>19 DEF Sparse, h, q
    <2>3. s[h + 1] <= b + L * (h - h)
      <3>1. h - h = 0
        BY <1>7
      <3>2. L * (h - h) = 0
        BY <3>1, Times, Zenon
      <3>. QED  BY <1>6, <1>7, <3>2
    <2>4. /\ y \in Nat /\ z \in Nat /\ y <= Len(handled') /\ Len(handled') <= z /\ z <= Len(sent')
          /\ d = s[z + 1] /\ b <= s[Len(handled') + 1]
          /\ s[Len(handled') + 1] <= b + L * (Len(handled') - y)
      BY <1>5, <1>6, <1>7, <1>10, <1>17, <1>19, <2>3 DEF h, q
    <2>5. phase' # "select"
      BY <1>15
    <2>. QED  BY <1>5, <2>1, <2>2, <2>4, <2>5, Zenon DEF Batch
  <1>. QED  BY <1>1, <1>5, <1>15, <1>18, <1>20, Zenon DEF Bundles

(* Raising would take an escape no encoder writes. *)
LEMMA BundleRaises ==
    ASSUME NEW L \in Nat, JInv(L)
    PROVE  ~HandleRaises
  <1>. SUFFICES ASSUME HandleRaises PROVE FALSE
    OBVIOUS
  <1>1. /\ FoundAt(recv_buffer) # 0 /\ config.decodes
        /\ DecodeRaises(parse(recv_buffer).val_bytes)
    BY DEF HandleRaises, DecodeFails
  <1>2. TypeOK /\ Bundled(L) /\ sent \in Seq(config.offers)
    BY DEF JInv
  <1>3. PICK w, e, F, s, a, b, g, k : Streamed(w, e, F, s, a, b) /\ Batch(L, s, a, b, g, k)
    BY DEF JInv, Bundles
  <1>4. Len(handled) + 1 \in 1..Len(sent) /\ parse(recv_buffer) = e[Len(handled) + 1]
    BY <1>1, <1>2, <1>3, FoundNext
  <1>. DEFINE m == Len(handled) + 1
  <1>5. PICK p \in config.offers : p = sent[m]
    BY <1>2, <1>4
  <1>6. e[m] = Encoded(p)
    BY <1>3, <1>4, <1>5, Zenon DEF Streamed
  <1>7. ~(config.decodes /\ DecodeRaises(Encoded(p).val_bytes))
    BY <1>2, Agreed DEF Bundled
  <1>. QED  BY <1>1, <1>4, <1>6, <1>7, Zenon

(* The next packet is handed on, and no more of the buffer goes than its   *)
(* frame takes.                                                            *)
LEMMA BundleHandle ==
    ASSUME NEW L \in Nat, JInv(L), HandleOne
    PROVE  /\ Bundles(L)'
           /\ Len(handled) < Len(sent)
           /\ handled' = Append(handled, sent[Len(handled) + 1])
  <1>1. TypeOK /\ Bundled(L) /\ sent \in Seq(config.offers)
        /\ handled = SubSeq(sent, 1, Len(handled))
    BY DEF JInv, Bundles
  <1>2. PICK w, e, F, s, a, b, g, k : Streamed(w, e, F, s, a, b) /\ Batch(L, s, a, b, g, k)
    BY DEF JInv, Bundles
  <1>3. /\ LaidOut(w, F, s) /\ Holds(w, e) /\ Len(w) = Len(sent) /\ b \in 0..Len(F) /\ a \in 0..b
        /\ recv_buffer = Stretch(F, a, b) /\ net = Stretch(F, b, Len(F))
        /\ \A m \in 1..Len(sent), p \in config.offers :
               p = sent[m] => w[m] = Wire(p) /\ e[m] = Encoded(p)
    BY <1>2 DEF Streamed
  <1>4. /\ config' = config /\ sent' = sent /\ net' = net /\ phase = "drain" /\ phase' = phase
        /\ recv_buffer' = Cut(recv_buffer)
        /\ handled' = Append(handled, Taken(recv_buffer))
        /\ FoundAt(recv_buffer) # 0
    BY DEF HandleOne
  <1>. DEFINE h == Len(handled)
              m == h + 1
  <1>5. /\ F \in Seq(Byte) /\ a \in Nat /\ b \in Nat /\ h \in Nat /\ Len(sent) \in Nat
    BY <1>1, <1>3, LaidOutType DEF TypeOK
  <1>6. /\ m \in 1..Len(sent) /\ m <= k
        /\ parse(recv_buffer) = e[m] /\ FirstWhole(e, s, a, b, m)
    BY <1>1, <1>2, <1>4, FoundNext
  <1>7. /\ g \in Nat /\ k \in Nat /\ g <= h /\ k <= Len(sent)
        /\ b = s[k + 1] /\ a <= s[m] /\ s[m] <= a + L * (h - g)
        /\ \A p \in config.offers : L * (k - g) < Len(Wire(p))
    BY <1>2 DEF Batch
  <1>8. PICK p \in config.offers : p = sent[m]
    BY <1>1, <1>6
  <1>9. e[m] = Encoded(p) /\ w[m] = Wire(p)
    BY <1>3, <1>6, <1>8, Zenon
  <1>10. /\ Used(p) \in Nat /\ Used(p) <= Len(Body(p)) /\ Len(Body(p)) \in Nat
         /\ Len(Body(p)) <= Len(Wire(p)) /\ Len(Wire(p)) \in Nat
         /\ Decoded(Encoded(p)) = p /\ p \in Packets
         /\ Len(Wire(p)) <= Used(p) + L
    BY <1>1, Agreed DEF Bundled
  <1>11. Taken(recv_buffer) = p
    BY <1>6, <1>9, <1>10, Zenon DEF Taken
  <1>12. handled' = Append(handled, p) /\ Len(handled') = h + 1
    <2>1. handled \in Seq(Packets)
      BY <1>1 DEF TypeOK
    <2>. QED  BY <1>4, <1>10, <1>11, <2>1
  <1>. DEFINE u == Used(p)
              c == a + u
  <1>13. recv_buffer' = SubSeq(recv_buffer, u + 1, Len(recv_buffer))
    BY <1>4, <1>11, Zenon DEF Cut, Used
  <1>14. s[m + 1] = s[m] + Len(Wire(p)) /\ s[m] \in Nat
    <2>1. \A i \in 1..Len(w) : s[i + 1] = s[i] + Len(w[i])
      BY <1>3, LaidOutMarks
    <2>2. \A i \in 1..Len(w) : s[i] \in Nat
      BY <1>3, LaidOutType
    <2>. HIDE DEF m
    <2>. QED  BY <1>3, <1>6, <1>9, <2>1, <2>2
  <1>15. s[m] + Len(Body(p)) <= b
    BY <1>6, <1>9, Zenon DEF FirstWhole, Body
  <1>16. L * (h - g) \in Nat /\ L * ((h + 1) - g) = L * (h - g) + L
    <2>. DEFINE x == h - g
    <2>. HIDE DEF h
    <2>1. x \in Nat /\ (h + 1) - g = x + 1
      BY <1>5, <1>7
    <2>. HIDE DEF x
    <2>2. L * x \in Nat /\ L * (x + 1) = L * x + L
      BY <2>1, Times
    <2>. QED  BY <2>1, <2>2, Zenon DEF x
  <1>. HIDE DEF h, m, u
  <1>17. /\ c \in Nat /\ c \in 0..b /\ u \in 0..(b - a) /\ u \in Nat
         /\ c <= s[m + 1] /\ s[m + 1] <= c + L * ((h + 1) - g)
    <2>. DEFINE x == s[m]
                y == s[m + 1]
                z == Len(Wire(p))
                d == Len(Body(p))
                r == L * (h - g)
                t == L * ((h + 1) - g)
    <2>1. /\ x \in Nat /\ z \in Nat /\ d \in Nat /\ u \in Nat /\ r \in Nat
          /\ y = x + z /\ x + d <= b /\ u <= d /\ d <= z /\ z <= u + L
          /\ a <= x /\ x <= a + r /\ t = r + L
      BY <1>7, <1>10, <1>14, <1>15, <1>16 DEF u
    <2>. HIDE DEF x, y, z, d, r, t
    <2>2. /\ c \in Nat /\ c \in 0..b /\ u \in 0..(b - a) /\ u \in Nat
          /\ c <= y /\ y <= c + t
      BY <1>5, <2>1
    <2>. QED  BY <2>2, Zenon DEF y, t
  <1>18. recv_buffer' = Stretch(F, c, b)
    <2>1. SubSeq(Stretch(F, a, b), u + 1, Len(Stretch(F, a, b))) = Stretch(F, a + u, b)
      BY <1>3, <1>5, <1>17, StretchRest
    <2>. QED  BY <1>3, <1>13, <2>1
  <1>. HIDE DEF c
  <1>19. PICK d : d = c
    BY Zenon
  <1>20. Streamed(w, e, F, s, d, b)'
    BY <1>2, <1>3, <1>4, <1>17, <1>18, <1>19, StreamedOn, Zenon
  <1>21. Batch(L, s, d, b, g, k)'
    <2>1. \A q : Wire(q)' = Wire(q)
      BY <1>4, SameConfig
    <2>2. Len(handled') = m /\ m = h + 1 /\ g <= m
      BY <1>5, <1>7, <1>12 DEF m
    <2>3. phase' # "select"
      BY <1>4
    <2>. QED  BY <1>4, <1>6, <1>7, <1>17, <1>19, <2>1, <2>2, <2>3, Zenon DEF Batch
  <1>22. handled' = SubSeq(sent', 1, Len(handled'))
    <2>1. SubSeq(sent, 1, h + 1) = Append(SubSeq(sent, 1, h), sent[h + 1])
      BY <1>1, <1>5, <1>6 DEF m
    <2>2. handled = SubSeq(sent, 1, h) /\ sent[h + 1] = p /\ Len(handled') = h + 1
      BY <1>1, <1>8, <1>12, Zenon DEF h, m
    <2>. QED  BY <1>4, <1>12, <2>1, <2>2, Zenon
  <1>23. Len(handled) < Len(sent)
    BY <1>5, <1>6 DEF h, m
  <1>. QED  BY <1>8, <1>12, <1>20, <1>21, <1>22, <1>23, Zenon DEF Bundles, h, m

(* The inner loop ends when all that was received is handed on, and what   *)
(* is left of the frames goes.                                             *)
LEMMA BundleEnd ==
    ASSUME NEW L \in Nat, JInv(L), EndDrain
    PROVE  Bundles(L)'
  <1>1. TypeOK /\ Bundled(L) /\ sent \in Seq(config.offers)
        /\ handled = SubSeq(sent, 1, Len(handled))
    BY DEF JInv, Bundles
  <1>2. PICK w, e, F, s, a, b, g, k : Streamed(w, e, F, s, a, b) /\ Batch(L, s, a, b, g, k)
    BY DEF JInv, Bundles
  <1>3. /\ LaidOut(w, F, s) /\ Len(w) = Len(sent) /\ b \in 0..Len(F) /\ a \in 0..b
        /\ recv_buffer = Stretch(F, a, b) /\ net = Stretch(F, b, Len(F))
        /\ \A m \in 1..Len(sent), p \in config.offers :
               p = sent[m] => w[m] = Wire(p) /\ e[m] = Encoded(p)
    BY <1>2 DEF Streamed
  <1>4. /\ config' = config /\ sent' = sent /\ net' = net /\ handled' = handled
        /\ recv_buffer' = Residue(recv_buffer) /\ phase' = "select"
        /\ FoundAt(recv_buffer) = 0
    BY DEF EndDrain
  <1>. DEFINE h == Len(handled)
  <1>5. /\ F \in Seq(Byte) /\ a \in Nat /\ b \in Nat /\ h \in Nat /\ Len(sent) \in Nat /\ a <= b
    BY <1>1, <1>3, LaidOutType DEF TypeOK
  <1>6. /\ g \in Nat /\ k \in Nat /\ g <= h /\ h <= k /\ k <= Len(sent)
        /\ b = s[k + 1] /\ a <= s[h + 1] /\ s[h + 1] <= a + L * (h - g)
        /\ \A p \in config.offers : L * (k - g) < Len(Wire(p))
    BY <1>2 DEF Batch
  <1>7. k = h
    <2>1. ~(Len(handled) < k)
      BY <1>1, <1>2, <1>4, FindsNext
    <2>. QED  BY <1>5, <1>6, <2>1
  <1>8. \A j \in 1..h : s[j] < a
    BY <1>1, <1>2, HandledGone, Zenon
  <1>. HIDE DEF h
  <1>9. h + 1 \in 1..(Len(w) + 1)
    BY <1>3, <1>5, <1>6, <1>7
  <1>10. StartsAt(recv_buffer) = {}
    <2>. SUFFICES ASSUME NEW x \in StartsAt(Stretch(F, a, b)) PROVE FALSE
      BY <1>3
    <2>1. PICK m \in 1..Len(w) : Begins(s, a, b, m, x)
      <3>1. \A y \in StartsAt(Stretch(F, a, b)) : \E m \in 1..Len(w) : Begins(s, a, b, m, y)
        BY <1>3, StartInPiece, Zenon
      <3>. QED  BY <3>1, Zenon
    <2>2. a <= s[m] /\ s[m] < s[h + 1]
      BY <1>6, <1>7, <2>1, Zenon DEF Begins
    <2>3. m \in 1..(Len(w) + 1) /\ m \in Nat
      BY <1>3, <1>5
    <2>4. m < h + 1
      BY <1>3, <1>9, <2>2, <2>3, LaidOutMarks
    <2>5. m \in 1..h
      BY <1>5, <2>3, <2>4
    <2>6. s[m] \in Nat
      BY <1>3, <2>3, LaidOutMarks
    <2>. QED  BY <1>5, <1>8, <2>2, <2>5, <2>6
  <1>11. /\ recv_buffer \in Seq(Byte) /\ Len(recv_buffer) = b - a
         /\ \A i \in 1..(b - a) : recv_buffer[i] = F[a + i]
    BY <1>3, <1>5, StretchBytes
  <1>12. recv_buffer' = <<>>
    <2>1. CASE recv_buffer = <<>>
      BY <1>4, <2>1, Zenon DEF Residue
    <2>2. CASE recv_buffer # <<>>
      <3>1. a < b
        BY <1>5, <1>11, <2>2
      <3>2. h # 0
        <4>1. s[1] = 0
          BY <1>3, LaidOutMarks
        <4>. QED  BY <1>5, <1>6, <1>7, <3>1, <4>1
      <3>3. h \in 1..Len(w) /\ h \in 1..Len(sent)
        BY <1>3, <1>5, <1>6, <1>7, <3>2
      <3>4. PICK p \in config.offers : p = sent[h]
        BY <1>1, <3>3
      <3>5. w[h] = Wire(p)
        BY <1>3, <3>3, <3>4, Zenon
      <3>6. L # 0
        <4>1. L = 0 => L * (h - g) = 0
          BY <1>5, <1>6
        <4>. QED  BY <1>5, <1>6, <1>7, <3>1, <4>1
      <3>7. Wire(p)[Len(Wire(p))] # PACKET_MIN
        BY <1>1, <3>6, Zenon DEF Bundled
      <3>8. F[s[h + 1]] = w[h][Len(w[h])]
        <4>1. \A m \in 1..Len(w) : F[s[m + 1]] = w[m][Len(w[m])]
          BY <1>3, FrameEnds
        <4>. QED  BY <3>3, <4>1
      <3>9. recv_buffer[Len(recv_buffer)] = F[b]
        <4>1. b - a \in 1..(b - a) /\ a + (b - a) = b
          BY <1>5, <3>1
        <4>. QED  BY <1>11, <4>1
      <3>10. recv_buffer[Len(recv_buffer)] # PACKET_MIN
        BY <1>6, <1>7, <3>5, <3>7, <3>8, <3>9, Zenon
      <3>. QED  BY <1>4, <1>10, <2>2, <3>10, Zenon DEF Residue
    <2>. QED  BY <2>1, <2>2
  <1>13. recv_buffer' = Stretch(F, b, b)
    <2>1. b \in 0..b
      BY <1>5
    <2>2. Stretch(F, b, b) \in Seq(Byte) /\ Len(Stretch(F, b, b)) = b - b
      BY <1>3, <1>5, <2>1, StretchBytes
    <2>. QED  BY <1>5, <1>12, <2>2
  <1>14. Streamed(w, e, F, s, b, b)'
    <2>1. b \in 0..b
      BY <1>5
    <2>. QED  BY <1>2, <1>3, <1>4, <1>13, <2>1, StreamedOn, Zenon
  <1>15. Batch(L, s, b, b, g, k)'
    <2>1. \A p : Wire(p)' = Wire(p)
      BY <1>4, SameConfig
    <2>2. b <= s[h + 1] /\ s[h + 1] <= b + L * (h - g)
      <3>. DEFINE x == h - g
      <3>1. x \in Nat
        BY <1>5, <1>6
      <3>. HIDE DEF x
      <3>2. L * x \in Nat
        BY <3>1, Times
      <3>. DEFINE y == L * x
      <3>. HIDE DEF y
      <3>3. b <= b + y /\ b <= b
        BY <1>5, <3>2 DEF y
      <3>. QED  BY <1>6, <1>7, <3>3, Zenon DEF x, y
    <2>3. h = Len(handled')
      BY <1>4 DEF h
    <2>. QED  BY <1>4, <1>6, <1>7, <2>1, <2>2, <2>3, Zenon DEF Batch
  <1>16. handled' = SubSeq(sent', 1, Len(handled'))
    BY <1>1, <1>4, Zenon
  <1>. QED  BY <1>14, <1>15, <1>16, Zenon DEF Bundles

LEMMA BundleStep ==
    ASSUME NEW L \in Nat, JInv(L), Sparse(L), [Next]_vars
    PROVE  JInv(L)'
  <1>1. TypeOK /\ Bundled(L) /\ sent \in Seq(config.offers) /\ phase # "exit" /\ Bundles(L)
    BY DEF JInv
  <1>2. TypeOK'
    BY <1>1, TypeStep
  <1>3. config' = config
    BY DEF Next, vars, Send, Receive, Recv, Loop, HandleOne, HandleRaises, EndDrain
  <1>4. Bundled(L)'
    BY <1>1, <1>3, StillBundled
  <1>5. sent' \in Seq(config'.offers) /\ phase' # "exit" /\ Bundles(L)'
    <2>1. CASE Send
      <3>1. sent' \in Seq(config.offers)
        BY <1>1, <2>1, SendSequence
      <3>. QED  BY <1>1, <1>3, <2>1, <3>1, BundleSend DEF Send
    <2>2. CASE Receive
      <3>1. sent' = sent
        BY <2>2 DEF Receive, Recv
      <3>. QED  BY <1>1, <1>3, <2>2, <3>1, BundleReceive
    <2>3. CASE HandleOne
      <3>1. sent' = sent /\ phase' = phase
        BY <2>3 DEF HandleOne
      <3>. QED  BY <1>1, <1>3, <2>3, <3>1, BundleHandle
    <2>4. CASE HandleRaises
      BY <2>4, BundleRaises
    <2>5. CASE EndDrain
      <3>1. sent' = sent /\ phase' = "select"
        BY <2>5 DEF EndDrain
      <3>. QED  BY <1>1, <1>3, <2>5, <3>1, BundleEnd
    <2>6. CASE UNCHANGED vars
      <3>1. UNCHANGED <<config, sent, net, recv_buffer, phase, handled>>
        BY <2>6 DEF vars
      <3>2. PICK w, e, F, s, a, b, g, k : Streamed(w, e, F, s, a, b) /\ Batch(L, s, a, b, g, k)
        BY <1>1 DEF Bundles
      <3>3. Streamed(w, e, F, s, a, b)'
        <4>1. /\ b \in 0..Len(F) /\ a \in 0..b
              /\ recv_buffer = Stretch(F, a, b) /\ net = Stretch(F, b, Len(F))
          BY <3>2 DEF Streamed
        <4>. QED  BY <3>1, <3>2, <4>1, StreamedOn, Zenon
      <3>4. \A p : Wire(p)' = Wire(p)
        BY <3>1, SameConfig
      <3>5. Batch(L, s, a, b, g, k)'
        BY <3>1, <3>2, <3>4, Zenon DEF Batch
      <3>6. handled' = SubSeq(sent', 1, Len(handled'))
        BY <1>1, <3>1, Zenon DEF Bundles
      <3>7. Bundles(L)'
        BY <3>3, <3>5, <3>6, Zenon DEF Bundles
      <3>. QED  BY <1>1, <3>1, <3>7
    <2>. QED  BY <2>1, <2>2, <2>3, <2>4, <2>5, <2>6 DEF Next, Loop
  <1>. QED  BY <1>2, <1>4, <1>5, Zenon DEF JInv

(* When the loop waits and nothing is on its way, all has been handed on.  *)
LEMMA BundleQuiet ==
    ASSUME NEW L \in Nat, JInv(L)
    PROVE  QuiescentDelivered
  <1>. SUFFICES ASSUME phase = "select", net = <<>> PROVE handled = sent
    BY DEF QuiescentDelivered
  <1>1. TypeOK /\ sent \in Seq(config.offers) /\ handled = SubSeq(sent, 1, Len(handled))
    BY DEF JInv, Bundles
  <1>2. PICK w, e, F, s, a, b, g, k : Streamed(w, e, F, s, a, b) /\ Batch(L, s, a, b, g, k)
    BY DEF JInv, Bundles
  <1>3. LaidOut(w, F, s) /\ Len(w) = Len(sent) /\ b \in 0..Len(F) /\ net = Stretch(F, b, Len(F))
    BY <1>2 DEF Streamed
  <1>. DEFINE h == Len(handled)
              q == Len(sent)
  <1>4. h <= q /\ b = s[h + 1]
    BY <1>2 DEF Batch
  <1>5. F \in Seq(Byte) /\ Len(F) \in Nat /\ h \in Nat /\ q \in Nat
    BY <1>1, <1>3, LaidOutType DEF TypeOK
  <1>6. Len(net) = Len(F) - b
    <2>1. Len(F) \in 0..Len(F)
      BY <1>5
    <2>. QED  BY <1>3, <1>5, <2>1, StretchBytes
  <1>7. b = s[q + 1]
    <2>1. Len(F) = s[Len(w) + 1]
      BY <1>3, LaidOutMarks
    <2>. QED  BY <1>3, <1>5, <1>6, <2>1
  <1>. HIDE DEF h, q
  <1>8. ~(h + 1 < q + 1)
    <2>1. h + 1 \in 1..(Len(w) + 1) /\ q + 1 \in 1..(Len(w) + 1)
      BY <1>3, <1>4, <1>5 DEF q
    <2>2. \A i, j \in 1..(Len(w) + 1) : i < j => s[i] < s[j]
      BY <1>3, LaidOutMarks
    <2>3. s[q + 1] \in Nat
      BY <1>3, <2>1, LaidOutMarks
    <2>4. ~(s[h + 1] < s[q + 1])
      BY <1>4, <1>7, <2>3
    <2>. QED  BY <2>1, <2>2, <2>4, Zenon
  <1>9. h = q
    BY <1>4, <1>5, <1>8
  <1>10. SubSeq(sent, 1, Len(sent)) = sent
    BY <1>1
  <1>. QED  BY <1>1, <1>9, <1>10, Zenon DEF h, q

(* A network that delivers many frames to one recv, none of them cut: as   *)
(* long as what is left of the frames of one recv amounts to less than a   *)
(* frame, every packet has been handled exactly once and in order when all *)
(* that was sent is received.  Nothing waits in the buffer for the next    *)
(* packet, nothing is handed on twice, no do_decode raises.                *)
THEOREM CoalescedDelivered ==
    ASSUME NEW L \in Nat
    PROVE  Spec /\ Bundled(L) /\ []Sparse(L) => []QuiescentDelivered
  <1>1. Init /\ Bundled(L) => JInv(L)
    BY BundleInit
  <1>2. JInv(L) /\ Sparse(L) /\ [Next]_vars => JInv(L)'
    BY BundleStep
  <1>3. JInv(L) => QuiescentDelivered
    BY BundleQuiet
  <1>. QED  BY <1>1, <1>2, <1>3, PTL DEF Spec

(* To such a peer, too, the loop is the channel of PacketChannel: every    *)
(* turn of the inner loop that finds a packet hands over the next one.     *)
THEOREM CoalescedChannel ==
    ASSUME NEW L \in Nat
    PROVE  Spec /\ Bundled(L) /\ []Sparse(L) => Channel!Spec
  <1>1. Init => Channel!Init
    BY DEF Init, Channel!Init
  <1>2. Init /\ Bundled(L) => JInv(L)
    BY BundleInit
  <1>3. JInv(L) /\ Sparse(L) /\ [Next]_vars => JInv(L)'
    BY BundleStep
  <1>4. JInv(L) /\ [Next]_vars => [Channel!Next]_Channel!chan
    <2>. SUFFICES ASSUME JInv(L), [Next]_vars PROVE Channel!Next \/ UNCHANGED <<sent, handled>>
      BY DEF Channel!chan
    <2>1. TypeOK
      BY DEF JInv
    <2>2. CASE Send
      <3>1. config.offers \subseteq Offered
        BY <2>1, ConfigFields DEF TypeOK
      <3>2. Channel!Put
        BY <2>2, <3>1 DEF Send, Channel!Put
      <3>. QED  BY <3>2 DEF Channel!Next
    <2>3. CASE Receive
      BY <2>3 DEF Receive, Recv
    <2>4. CASE HandleOne
      <3>1. sent' = sent
        BY <2>4 DEF HandleOne
      <3>2. Channel!Deliver
        BY <2>4, <3>1, BundleHandle DEF Channel!Deliver
      <3>. QED  BY <3>2 DEF Channel!Next
    <2>5. CASE HandleRaises
      BY <2>5 DEF HandleRaises
    <2>6. CASE EndDrain
      BY <2>6 DEF EndDrain
    <2>7. CASE UNCHANGED vars
      BY <2>7 DEF vars
    <2>. QED  BY <2>2, <2>3, <2>4, <2>5, <2>6, <2>7 DEF Next, Loop
  <1>. QED  BY <1>1, <1>2, <1>3, <1>4, PTL DEF Spec, Channel!Spec

(* Without -e it is END that handle() leaves of a frame.                   *)
LEMMA PlainBundled ==
    ASSUME config \in Configs, config.network = "coalesced", config.sender = "endpoint",
           ~config.encodes, ~config.decodes, Marked
    PROVE  Bundled(2)
  <1>1. config.encodes = config.decodes /\ config.offers \subseteq Offered
    BY ConfigFields
  <1>2. ASSUME NEW p \in config.offers
        PROVE  /\ Len(Wire(p)) <= Used(p) + 2
               /\ Wire(p)[Len(Wire(p))] = 35
    <2>1. p \in Packets
      BY <1>1, OfferedPackets, OfferedAssumption, SMT
    <2>2. Encoded(p) = p
      BY Zenon DEF Encoded
    <2>. DEFINE f == FrameBody(p)
                n == data_size(p)
                x == f \o <<36, 35>>
    <2>3. f \in Seq(Byte) /\ Len(f) = 7 + n /\ n \in Nat
      BY <2>1, FrameParts, DataType DEF OVERHEAD
    <2>4. Wire(p) = x
      BY <2>2 DEF Wire, get_bytes, SYMBOL_END_BYTES
    <2>5. Used(p) = 7 + n
      BY DEF Used, OVERHEAD
    <2>. HIDE DEF f, n
    <2>6. Len(x) = 9 + n /\ x[9 + n] = 35
      <3>1. <<36, 35>> \in Seq(Byte) /\ Len(<<36, 35>>) = 2 /\ <<36, 35>>[2] = 35
        BY DEF Byte
      <3>. QED  BY <2>3, <3>1
    <2>. HIDE DEF x
    <2>. QED  BY <2>3, <2>4, <2>5, <2>6
  <1>3. ASSUME NEW p \in config.offers
        PROVE  /\ Len(Wire(p)) <= Used(p) + 2
               /\ ~IsSpace(Wire(p)[Len(Wire(p))])
               /\ 2 # 0 => Wire(p)[Len(Wire(p))] # PACKET_MIN
    BY <1>2 DEF IsSpace, PACKET_MIN
  <1>. QED  BY <1>1, <1>3 DEF Bundled

(* Two endpoints without -e, then: while twice the packets not yet handled *)
(* are fewer than the bytes of the shortest frame, nothing is lost and     *)
(* nothing is handled twice.                                               *)
THEOREM PlainCoalesced ==
    /\ Spec
    /\ config.network = "coalesced"
    /\ config.sender = "endpoint"
    /\ ~config.encodes
    /\ ~config.decodes
    /\ Marked
    /\ []Sparse(2)
    => []QuiescentDelivered
  <1>1. Init /\ config.network = "coalesced" /\ config.sender = "endpoint"
             /\ ~config.encodes /\ ~config.decodes /\ Marked
        => JInv(2)
    BY PlainBundled, BundleInit DEF Init
  <1>2. JInv(2) /\ Sparse(2) /\ [Next]_vars => JInv(2)'
    BY BundleStep
  <1>3. JInv(2) => QuiescentDelivered
    BY BundleQuiet
  <1>. QED  BY <1>1, <1>2, <1>3, PTL DEF Spec
=============================================================================
