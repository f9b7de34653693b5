--------------------------- MODULE WireFormatProofs ---------------------------
(***************************************************************************)
(* Facts about the wire format (WuartPacket) and about the printable       *)
(* encoding of values (WuartEscape), for byte strings of any length: the   *)
(* lemmas the proofs about the components share, and what writing and      *)
(* reading promise each other.                                             *)
(***************************************************************************)
EXTENDS WuartPacket, WuartEscape, SequenceInduction, SequenceTheorems, FiniteSetTheorems

-----------------------------------------------------------------------------
(* Checksums are bytes.                                                    *)

LEMMA ParityBit ==
    ASSUME NEW raw \in Seq(Byte), NEW i \in Nat
    PROVE  Parity(raw, i) \in 0..1
<1> DEFINE odd == {k \in DOMAIN raw : Bit(raw[k], i) = 1}
<1>1. IsFiniteSet(1..Len(raw))
  BY FS_Interval
<1>2. odd \subseteq 1..Len(raw)
  OBVIOUS
<1>3. IsFiniteSet(odd)
  BY <1>1, <1>2, FS_Subset
<1>4. Cardinality(odd) \in Nat
  BY <1>3, FS_CardinalityType
<1>5. Parity(raw, i) = Cardinality(odd) % 2
  BY DEF Parity
<1> HIDE DEF odd
<1> QED
  BY <1>4, <1>5

LEMMA ChecksumIsByte ==
    ASSUME NEW raw \in Seq(Byte)
    PROVE  calc_checksum(raw) \in Byte
<1> DEFINE p0 == Parity(raw, 0)
<1> DEFINE p1 == Parity(raw, 1)
<1> DEFINE p2 == Parity(raw, 2)
<1> DEFINE p3 == Parity(raw, 3)
<1> DEFINE p4 == Parity(raw, 4)
<1> DEFINE p5 == Parity(raw, 5)
<1> DEFINE p6 == Parity(raw, 6)
<1> DEFINE p7 == Parity(raw, 7)
<1> DEFINE sum == p0 + 2 * p1 + 4 * p2 + 8 * p3 + 16 * p4 + 32 * p5 + 64 * p6 + 128 * p7
<1>1. /\ p0 \in 0..1 /\ p1 \in 0..1 /\ p2 \in 0..1 /\ p3 \in 0..1
      /\ p4 \in 0..1 /\ p5 \in 0..1 /\ p6 \in 0..1 /\ p7 \in 0..1
  BY ParityBit
<1>2. calc_checksum(raw) = sum
  BY DEF calc_checksum
<1> HIDE DEF p0, p1, p2, p3, p4, p5, p6, p7
<1>3. sum \in 0..255
  BY <1>1
<1> HIDE DEF sum
<1> QED
  BY <1>2, <1>3 DEF Byte

-----------------------------------------------------------------------------
(* A digit the encoder writes is a digit to the decoder, with its value.   *)
LEMMA HexDigitRead ==
    ASSUME NEW n \in 0..15
    PROVE  /\ HexDigit(n) \in 32..126
           /\ TakenAsHex(HexDigit(n))
           /\ IsHex(HexDigit(n))
           /\ HexValue(HexDigit(n)) = n
  BY DEF HexDigit, TakenAsHex, IsHex, HexValue

LEMMA Nibbles ==
    ASSUME NEW r \in 0..255
    PROVE  /\ r \div 16 \in 0..15
           /\ r % 16 \in 0..15
           /\ 16 * (r \div 16) + (r % 16) = r
  <1>1. r \div 16 \in 0..15
    OBVIOUS
  <1>2. r % 16 \in 0..15
    OBVIOUS
  <1>3. 16 * (r \div 16) + (r % 16) = r
    OBVIOUS
  <1>. QED  BY <1>1, <1>2, <1>3

(* The shapes of the encoding of one byte. *)
LEMMA EncodeByteCases ==
    ASSUME NEW r \in 0..255
    PROVE  \/ /\ ~is_word(r)
              /\ EncodeByte(r) = <<BACKSLASH, SMALL_X, HexDigit(r \div 16), HexDigit(r % 16)>>
           \/ /\ r = BACKSLASH
              /\ EncodeByte(r) = <<BACKSLASH, BACKSLASH>>
           \/ /\ r # BACKSLASH
              /\ is_word(r)
              /\ EncodeByte(r) = <<r>>
  BY DEF EncodeByte, is_word, BACKSLASH

LEMMA EncodeByteType ==
    ASSUME NEW r \in 0..255
    PROVE  /\ EncodeByte(r) \in Seq(32..126)
           /\ EncodeByte(r) \in Seq(0..255)
           /\ EncodeByte(r) \in Seq(Byte)
           /\ EncodeByte(r) # <<>>
  <1>1. CASE EncodeByte(r) = <<BACKSLASH, SMALL_X, HexDigit(r \div 16), HexDigit(r % 16)>>
    <2>. DEFINE h == HexDigit(r \div 16)
                l == HexDigit(r % 16)
    <2>1. h \in 32..126 /\ l \in 32..126
      BY Nibbles, HexDigitRead
    <2>. HIDE DEF h, l
    <2>2. EncodeByte(r) = <<92, 120, h, l>>
      BY <1>1 DEF h, l, BACKSLASH, SMALL_X
    <2>. QED  BY <2>1, <2>2 DEF Byte
  <1>2. CASE EncodeByte(r) = <<BACKSLASH, BACKSLASH>>
    BY <1>2 DEF BACKSLASH, Byte
  <1>3. CASE is_word(r) /\ EncodeByte(r) = <<r>>
    BY <1>3 DEF is_word, Byte
  <1>. QED  BY <1>1, <1>2, <1>3, EncodeByteCases

LEMMA EncodeByteBytes ==
    ASSUME NEW r \in Byte
    PROVE  EncodeByte(r) \in Seq(Byte)
  <1>1. r \in 0..255
    BY DEF Byte
  <1>. QED  BY <1>1, EncodeByteType

(* The fields of a decoder, and the four ways in which a step changes it.  *)
LEMMA DecodingFields ==
    ASSUME NEW e \in Decoding
    PROVE  /\ e.state \in 0..3
           /\ e.hex_1 \in 0..255
           /\ e.new_raw \in Seq(0..255)
           /\ Len(e.new_raw) \in Nat
           /\ e.raised \in BOOLEAN
  BY DEF Decoding

LEMMA SetState ==
    ASSUME NEW e \in Decoding, NEW k \in 0..3
    PROVE  /\ [e EXCEPT !.state = k] \in Decoding
           /\ [e EXCEPT !.state = k].state = k
           /\ [e EXCEPT !.state = k].new_raw = e.new_raw
           /\ [e EXCEPT !.state = k].raised = e.raised
  <1>. DEFINE n == [e EXCEPT !.state = k]
  <1>1. n \in Decoding
    BY DEF Decoding
  <1>2. n.state = k
    BY DEF Decoding
  <1>3. n.new_raw = e.new_raw
    BY DEF Decoding
  <1>4. n.raised = e.raised
    BY DEF Decoding
  <1>. QED  BY <1>1, <1>2, <1>3, <1>4

LEMMA SetRaised ==
    ASSUME NEW e \in Decoding
    PROVE  /\ [e EXCEPT !.raised = TRUE] \in Decoding
           /\ [e EXCEPT !.raised = TRUE].state = e.state
           /\ [e EXCEPT !.raised = TRUE].new_raw = e.new_raw
  <1>. DEFINE n == [e EXCEPT !.raised = TRUE]
  <1>1. n \in Decoding
    BY DEF Decoding
  <1>2. n.state = e.state
    BY DEF Decoding
  <1>3. n.new_raw = e.new_raw
    BY DEF Decoding
  <1>. QED  BY <1>1, <1>2, <1>3

LEMMA TakeDigitType ==
    ASSUME NEW e \in Decoding, NEW r \in 0..255
    PROVE  /\ TakeDigit(e, r) \in Decoding
           /\ TakeDigit(e, r).state = 3
           /\ TakeDigit(e, r).hex_1 = r
           /\ TakeDigit(e, r).new_raw = e.new_raw
           /\ TakeDigit(e, r).raised = e.raised
  <1>1. TakeDigit(e, r) \in Decoding
    BY DecodingFields DEF TakeDigit, Decoding
  <1>. QED  BY <1>1 DEF TakeDigit

LEMMA EmitType ==
    ASSUME NEW e \in Decoding, NEW bytes \in Seq(0..255)
    PROVE  /\ Emit(e, bytes) \in Decoding
           /\ Emit(e, bytes).state = 0
           /\ Emit(e, bytes).new_raw = e.new_raw \o bytes
           /\ Len(Emit(e, bytes).new_raw) = Len(e.new_raw) + Len(bytes)
           /\ Emit(e, bytes).raised = e.raised
  <1>1. /\ e.new_raw \o bytes \in Seq(0..255)
        /\ Len(e.new_raw \o bytes) = Len(e.new_raw) + Len(bytes)
    BY DecodingFields
  <1>2. Emit(e, bytes) \in Decoding
    BY <1>1, DecodingFields DEF Emit, Decoding
  <1>3. /\ Emit(e, bytes).state = 0
        /\ Emit(e, bytes).new_raw = e.new_raw \o bytes
        /\ Emit(e, bytes).raised = e.raised
    BY DEF Emit
  <1>. QED  BY <1>1, <1>2, <1>3

(* What a step of the decoder may turn e into. *)
Bounded(e, n) ==
    /\ n \in Decoding
    /\ Len(n.new_raw) + n.state <= Len(e.new_raw) + e.state + 1

LEMMA EmitBounded ==
    ASSUME NEW e \in Decoding, NEW bytes \in Seq(0..255), Len(bytes) <= e.state + 1
    PROVE  Bounded(e, Emit(e, bytes))
  <1>1. Len(e.new_raw) \in Nat /\ Len(bytes) \in Nat /\ e.state \in 0..3
    BY DecodingFields
  <1>2. Len(Emit(e, bytes).new_raw) + Emit(e, bytes).state = Len(e.new_raw) + Len(bytes)
    BY <1>1, EmitType
  <1>3. Len(e.new_raw) + Len(bytes) <= Len(e.new_raw) + e.state + 1
    BY <1>1
  <1>. QED  BY <1>2, <1>3, EmitType DEF Bounded

LEMMA SetStateBounded ==
    ASSUME NEW e \in Decoding, NEW k \in 0..3, k <= e.state + 1
    PROVE  Bounded(e, [e EXCEPT !.state = k])
  <1>1. Len(e.new_raw) \in Nat /\ e.state \in 0..3
    BY DecodingFields
  <1>2. Len([e EXCEPT !.state = k].new_raw) + [e EXCEPT !.state = k].state
          = Len(e.new_raw) + k
    BY SetState
  <1>3. Len(e.new_raw) + k <= Len(e.new_raw) + e.state + 1
    BY <1>1
  <1>. QED  BY <1>2, <1>3, SetState DEF Bounded

LEMMA SetRaisedBounded ==
    ASSUME NEW e \in Decoding
    PROVE  Bounded(e, [e EXCEPT !.raised = TRUE])
  <1>1. Len(e.new_raw) \in Nat /\ e.state \in 0..3
    BY DecodingFields
  <1>2. Len([e EXCEPT !.raised = TRUE].new_raw) + [e EXCEPT !.raised = TRUE].state
          = Len(e.new_raw) + e.state
    BY SetRaised
  <1>3. Len(e.new_raw) + e.state <= Len(e.new_raw) + e.state + 1
    BY <1>1
  <1>. QED  BY <1>2, <1>3, SetRaised DEF Bounded

LEMMA TakeDigitBounded ==
    ASSUME NEW e \in Decoding, NEW r \in 0..255, e.state = 2
    PROVE  Bounded(e, TakeDigit(e, r))
  <1>1. Len(e.new_raw) \in Nat
    BY DecodingFields
  <1>2. Len(TakeDigit(e, r).new_raw) + TakeDigit(e, r).state = Len(e.new_raw) + 3
    BY TakeDigitType
  <1>3. Len(e.new_raw) + 3 <= Len(e.new_raw) + e.state + 1
    BY <1>1
  <1>. QED  BY <1>2, <1>3, TakeDigitType DEF Bounded

LEMMA DecodeStep ==
    ASSUME NEW e \in Decoding, NEW r \in 0..255
    PROVE  Bounded(e, DecodeByte(e, r))
  <1>0. e.state \in 0..3 /\ e.hex_1 \in 0..255
    BY DecodingFields
  <1>1. CASE e.state = 0
    <2>1. CASE r = BACKSLASH
      <3>1. DecodeByte(e, r) = [e EXCEPT !.state = 1]
        BY <1>1, <2>1 DEF DecodeByte
      <3>2. 1 \in 0..3 /\ 1 <= e.state + 1
        BY <1>1
      <3>. QED  BY <3>1, <3>2, SetStateBounded
    <2>2. CASE r # BACKSLASH
      <3>1. DecodeByte(e, r) = Emit(e, <<r>>)
        BY <1>1, <2>2 DEF DecodeByte
      <3>2. <<r>> \in Seq(0..255) /\ Len(<<r>>) <= e.state + 1
        BY <1>1
      <3>. QED  BY <3>1, <3>2, EmitBounded
    <2>. QED  BY <2>1, <2>2
  <1>2. CASE e.state = 1
    <2>1. CASE r = BACKSLASH
      <3>1. DecodeByte(e, r) = Emit(e, <<BACKSLASH>>)
        BY <1>2, <2>1 DEF DecodeByte, BACKSLASH
      <3>2. <<BACKSLASH>> \in Seq(0..255) /\ Len(<<BACKSLASH>>) <= e.state + 1
        BY <1>2 DEF BACKSLASH
      <3>. QED  BY <3>1, <3>2, EmitBounded
    <2>2. CASE r \in {88, 120}
      <3>1. DecodeByte(e, r) = [e EXCEPT !.state = 2]
        BY <1>2, <2>2 DEF DecodeByte, BACKSLASH
      <3>2. 2 \in 0..3 /\ 2 <= e.state + 1
        BY <1>2
      <3>. QED  BY <3>1, <3>2, SetStateBounded
    <2>3. CASE r \notin {BACKSLASH, 88, 120}
      <3>1. DecodeByte(e, r) = Emit(e, <<BACKSLASH, r>>)
        BY <1>2, <2>3 DEF DecodeByte
      <3>2. <<BACKSLASH, r>> \in Seq(0..255) /\ Len(<<BACKSLASH, r>>) <= e.state + 1
        BY <1>2 DEF BACKSLASH
      <3>. QED  BY <3>1, <3>2, EmitBounded
    <2>. QED  BY <2>1, <2>2, <2>3
  <1>3. CASE e.state = 2
    <2>1. CASE TakenAsHex(r)
      <3>1. DecodeByte(e, r) = TakeDigit(e, r)
        BY <1>3, <2>1 DEF DecodeByte
      <3>. QED  BY <1>3, <3>1, TakeDigitBounded
    <2>2. CASE ~TakenAsHex(r)
      <3>1. DecodeByte(e, r) = Emit(e, <<BACKSLASH, SMALL_X, r>>)
        BY <1>3, <2>2 DEF DecodeByte
      <3>2. /\ <<BACKSLASH, SMALL_X, r>> \in Seq(0..255)
            /\ Len(<<BACKSLASH, SMALL_X, r>>) <= e.state + 1
        BY <1>3 DEF BACKSLASH, SMALL_X
      <3>. QED  BY <3>1, <3>2, EmitBounded
    <2>. QED  BY <2>1, <2>2
  <1>4. CASE e.state = 3
    <2>1. CASE ~TakenAsHex(r)
      <3>1. DecodeByte(e, r) = Emit(e, <<BACKSLASH, SMALL_X, e.hex_1, r>>)
        BY <1>4, <2>1 DEF DecodeByte
      <3>2. /\ <<BACKSLASH, SMALL_X, e.hex_1, r>> \in Seq(0..255)
            /\ Len(<<BACKSLASH, SMALL_X, e.hex_1, r>>) <= e.state + 1
        BY <1>0, <1>4 DEF BACKSLASH, SMALL_X
      <3>. QED  BY <3>1, <3>2, EmitBounded
    <2>2. CASE TakenAsHex(r) /\ IsHex(e.hex_1) /\ IsHex(r)
      <3>1. DecodeByte(e, r) = Emit(e, <<16 * HexValue(e.hex_1) + HexValue(r)>>)
        BY <1>4, <2>2 DEF DecodeByte
      <3>2. HexValue(e.hex_1) \in 0..15 /\ HexValue(r) \in 0..15
        BY <2>2 DEF IsHex, HexValue
      <3>3. 16 * HexValue(e.hex_1) + HexValue(r) \in 0..255
        BY <3>2
      <3>4. /\ <<16 * HexValue(e.hex_1) + HexValue(r)>> \in Seq(0..255)
            /\ Len(<<16 * HexValue(e.hex_1) + HexValue(r)>>) <= e.state + 1
        BY <1>4, <3>3
      <3>. QED  BY <3>1, <3>4, EmitBounded
    <2>3. CASE TakenAsHex(r) /\ ~(IsHex(e.hex_1) /\ IsHex(r))
      <3>1. DecodeByte(e, r) = [e EXCEPT !.raised = TRUE]
        BY <1>4, <2>3 DEF DecodeByte
      <3>. QED  BY <3>1, SetRaisedBounded
    <2>. QED  BY <2>1, <2>2, <2>3
  <1>. QED  BY <1>0, <1>1, <1>2, <1>3, <1>4

(* The two digits of a byte that is written as an escape. *)
High(r) == HexDigit(r \div 16)
Low(r) == HexDigit(r % 16)

LEMMA DigitsRead ==
    ASSUME NEW r \in 0..255
    PROVE  /\ High(r) \in 0..255 /\ Low(r) \in 0..255
           /\ TakenAsHex(High(r)) /\ IsHex(High(r))
           /\ TakenAsHex(Low(r)) /\ IsHex(Low(r))
           /\ 16 * HexValue(High(r)) + HexValue(Low(r)) = r
  <1>1. /\ r \div 16 \in 0..15 /\ r % 16 \in 0..15
        /\ 16 * (r \div 16) + (r % 16) = r
    BY Nibbles
  <1>2. /\ HexDigit(r \div 16) \in 32..126 /\ TakenAsHex(HexDigit(r \div 16))
        /\ IsHex(HexDigit(r \div 16)) /\ HexValue(HexDigit(r \div 16)) = r \div 16
    BY <1>1, HexDigitRead
  <1>3. /\ HexDigit(r % 16) \in 32..126 /\ TakenAsHex(HexDigit(r % 16))
        /\ IsHex(HexDigit(r % 16)) /\ HexValue(HexDigit(r % 16)) = r % 16
    BY <1>1, HexDigitRead
  <1>4. High(r) \in 0..255 /\ Low(r) \in 0..255
    BY <1>2, <1>3 DEF High, Low
  <1>. QED  BY <1>1, <1>2, <1>3, <1>4 DEF High, Low

-----------------------------------------------------------------------------
(* The loop of bytes_encode: e[i] is what it has written after i bytes.    *)
EncodeRun(e, raw) ==
    /\ e \in [0..Len(raw) -> Seq(Byte)]
    /\ e[0] = <<>>
    /\ \A i \in 1..Len(raw) : e[i] = e[i - 1] \o EncodeByte(raw[i])

LEMMA EncodeRuns ==
    ASSUME NEW raw \in Seq(Byte)
    PROVE  \E e : EncodeRun(e, raw) /\ bytes_encode(raw) = e[Len(raw)]
  <1>. DEFINE n == Len(raw)
              F == [i \in 1..n |-> [w \in Seq(Byte) |-> w \o EncodeByte(raw[i])]]
  <1>1. n \in Nat /\ \A i \in 1..n : raw[i] \in Byte
    OBVIOUS
  <1>2. \A i \in 1..n : EncodeByte(raw[i]) \in Seq(Byte)
    BY <1>1, EncodeByteBytes, Zenon
  <1>. HIDE DEF n
  <1>3. F \in Steps(Seq(Byte), n)
    BY <1>2 DEF Steps
  <1>4. \A i \in 1..n, w \in Seq(Byte) : F[i][w] = w \o EncodeByte(raw[i])
    OBVIOUS
  <1>5. <<>> \in Seq(Byte)
    OBVIOUS
  <1>. HIDE DEF F
  <1>6. PICK g : Follows(g, Seq(Byte), <<>>, n, F)
    BY <1>1, <1>3, <1>5, RecursionExists, Zenon
  <1>7. \A i \in 1..n : i - 1 \in 0..n /\ i \in 0..n
    BY <1>1
  <1>8. \A i \in 1..n : g[i] = g[i - 1] \o EncodeByte(raw[i])
    BY <1>4, <1>6, <1>7 DEF Follows
  <1>9. g = [i \in 0..n |-> IF i = 0 THEN <<>> ELSE g[i - 1] \o EncodeByte(raw[i])]
    <2>1. \A i \in 0..n : i = 0 \/ i \in 1..n
      BY <1>1
    <2>. QED  BY <1>6, <1>8, <2>1 DEF Follows
  <1>10. PICK e : /\ e = [i \in 0..n |-> IF i = 0 THEN <<>> ELSE e[i - 1] \o EncodeByte(raw[i])]
                  /\ bytes_encode(raw) = e[n]
    BY <1>9, Zenon DEF bytes_encode, n
  <1>11. e[0] = <<>> /\ \A i \in 1..n : e[i] = e[i - 1] \o EncodeByte(raw[i])
    <2>1. 0 \in 0..n /\ \A i \in 1..n : i \in 0..n /\ i # 0
      BY <1>1
    <2>2. \A i \in 0..n : e[i] = IF i = 0 THEN <<>> ELSE e[i - 1] \o EncodeByte(raw[i])
      BY <1>10, Zenon
    <2>. QED  BY <2>1, <2>2
  <1>12. \A i \in 0..n : e[i] = g[i]
    <2>1. \A i \in 1..n : e[i - 1] = g[i - 1] => e[i] = g[i]
      BY <1>8, <1>11
    <2>2. e[0] = g[0]
      BY <1>6, <1>11 DEF Follows
    <2>3. n \in Nat
      BY <1>1
    <2>4. \A f, h : f[0] = h[0] /\ (\A i \in 1..n : f[i - 1] = h[i - 1] => f[i] = h[i])
                   => \A i \in 0..n : f[i] = h[i]
      BY <2>3, RecursionUnique, Zenon
    <2>. QED  BY <2>1, <2>2, <2>4, Zenon
  <1>13. e \in [0..n -> Seq(Byte)]
    <2>1. \A i \in 0..n : e[i] \in Seq(Byte)
      BY <1>6, <1>12 DEF Follows
    <2>2. e = [i \in 0..n |-> e[i]]
      BY <1>10, Zenon
    <2>. QED  BY <2>1, <2>2
  <1>. QED  BY <1>10, <1>11, <1>13, Zenon DEF EncodeRun, n

(* The loop of bytes_decode: e[i] is the decoder after i bytes. *)
DecodeNext(x, r) == IF x.raised THEN x ELSE DecodeByte(x, r)

DecodeRun(e, raw) ==
    /\ e \in [0..Len(raw) -> Decoding]
    /\ e[0] = DecoderStart
    /\ \A i \in 1..Len(raw) : e[i] = DecodeNext(e[i - 1], raw[i])

LEMMA DecoderStartType == DecoderStart \in Decoding
  BY DEF DecoderStart, Decoding

LEMMA DecodeNextType ==
    ASSUME NEW x \in Decoding, NEW r \in Byte
    PROVE  Bounded(x, DecodeNext(x, r))
  <1>1. CASE x.raised
    <2>1. Len(x.new_raw) \in Nat /\ x.state \in 0..3
      BY DecodingFields, Zenon
    <2>2. Len(x.new_raw) + x.state <= Len(x.new_raw) + x.state + 1
      BY <2>1
    <2>. QED  BY <1>1, <2>2, Zenon DEF DecodeNext, Bounded
  <1>2. CASE ~x.raised
    BY <1>2, DecodeStep, Zenon DEF DecodeNext, Byte
  <1>. QED  BY <1>1, <1>2

LEMMA DecodeRuns ==
    ASSUME NEW raw \in Seq(Byte)
    PROVE  \E e : DecodeRun(e, raw) /\ Decoder(raw) = e[Len(raw)]
  <1>. DEFINE n == Len(raw)
              F == [i \in 1..n |-> [x \in Decoding |-> DecodeNext(x, raw[i])]]
              Loop(e) == e = [i \in 0..n |->
                                IF i = 0 THEN DecoderStart
                                ELSE IF e[i - 1].raised THEN e[i - 1]
                                ELSE DecodeByte(e[i - 1], raw[i])]
  <1>1. n \in Nat /\ \A i \in 1..n : raw[i] \in Byte
    OBVIOUS
  <1>2. \A i \in 1..n, x \in Decoding : DecodeNext(x, raw[i]) \in Decoding
    BY <1>1, DecodeNextType, Zenon DEF Bounded
  <1>3. Decoder(raw) = (CHOOSE e : Loop(e))[n]
    BY Zenon DEF Decoder
  <1>. HIDE DEF n
  <1>4. F \in Steps(Decoding, n)
    BY <1>2 DEF Steps
  <1>5. \A i \in 1..n, x \in Decoding : F[i][x] = DecodeNext(x, raw[i])
    OBVIOUS
  <1>. HIDE DEF F
  <1>6. PICK g : Follows(g, Decoding, DecoderStart, n, F)
    BY <1>1, <1>4, DecoderStartType, RecursionExists, Zenon
  <1>7. /\ 0 \in 0..n
        /\ \A i \in 1..n : i - 1 \in 0..n /\ i \in 0..n /\ i # 0
        /\ \A i \in 0..n : i = 0 \/ i \in 1..n
    BY <1>1
  <1>8. \A i \in 1..n : g[i] = DecodeNext(g[i - 1], raw[i])
    BY <1>5, <1>6, <1>7 DEF Follows
  <1>9. Loop(g)
    <2>1. \A i \in 0..n : g[i] = IF i = 0 THEN DecoderStart
                                 ELSE IF g[i - 1].raised THEN g[i - 1]
                                 ELSE DecodeByte(g[i - 1], raw[i])
      BY <1>6, <1>7, <1>8, Zenon DEF Follows, DecodeNext
    <2>2. g = [i \in 0..n |-> g[i]]
      BY <1>6 DEF Follows
    <2>. QED  BY <2>1, <2>2, Zenon
  <1>10. PICK e : Loop(e) /\ Decoder(raw) = e[n]
    BY <1>3, <1>9, Zenon
  <1>11. \A i \in 0..n : e[i] = IF i = 0 THEN DecoderStart
                                ELSE IF e[i - 1].raised THEN e[i - 1]
                                ELSE DecodeByte(e[i - 1], raw[i])
    BY <1>10, Zenon
  <1>12. e[0] = DecoderStart /\ \A i \in 1..n : e[i] = DecodeNext(e[i - 1], raw[i])
    BY <1>7, <1>11, Zenon DEF DecodeNext
  <1>13. \A i \in 0..n : e[i] = g[i]
    <2>1. \A i \in 1..n : e[i - 1] = g[i - 1] => e[i] = g[i]
      BY <1>8, <1>12
    <2>2. e[0] = g[0]
      BY <1>6, <1>12 DEF Follows
    <2>3. n \in Nat
      BY <1>1
    <2>4. \A f, h : f[0] = h[0] /\ (\A i \in 1..n : f[i - 1] = h[i - 1] => f[i] = h[i])
                   => \A i \in 0..n : f[i] = h[i]
      BY <2>3, RecursionUnique, Zenon
    <2>. QED  BY <2>1, <2>2, <2>4, Zenon
  <1>14. e \in [0..n -> Decoding]
    <2>1. \A i \in 0..n : e[i] \in Decoding
      BY <1>6, <1>13 DEF Follows
    <2>2. e = [i \in 0..n |-> e[i]]
      BY <1>10, Zenon
    <2>. QED  BY <2>1, <2>2
  <1>. QED  BY <1>10, <1>12, <1>14, Zenon DEF DecodeRun, n

(* The decoder of no bytes, and of one byte more. *)
LEMMA DecoderEmpty == Decoder(<<>>) = DecoderStart
  <1>1. <<>> \in Seq(Byte) /\ Len(<<>>) = 0
    OBVIOUS
  <1>. QED  BY <1>1, DecodeRuns, Zenon DEF DecodeRun

LEMMA DecoderAppend ==
    ASSUME NEW raw \in Seq(Byte), NEW r \in Byte
    PROVE  Decoder(Append(raw, r)) = DecodeNext(Decoder(raw), r)
  <1>. DEFINE n == Len(raw)
              more == Append(raw, r)
  <1>1. /\ n \in Nat /\ more \in Seq(Byte) /\ Len(more) = n + 1
        /\ more[n + 1] = r /\ \A i \in 1..n : more[i] = raw[i]
    OBVIOUS
  <1>. HIDE DEF n, more
  <1>2. PICK e : DecodeRun(e, raw) /\ Decoder(raw) = e[n]
    BY DecodeRuns, Zenon DEF n
  <1>3. PICK h : DecodeRun(h, more) /\ Decoder(more) = h[n + 1]
    BY <1>1, DecodeRuns, Zenon
  <1>4. /\ e[0] = DecoderStart /\ h[0] = DecoderStart
        /\ \A i \in 1..n : e[i] = DecodeNext(e[i - 1], raw[i])
        /\ \A i \in 1..(n + 1) : h[i] = DecodeNext(h[i - 1], more[i])
    BY <1>1, <1>2, <1>3, Zenon DEF DecodeRun, n
  <1>5. \A i \in 1..n : e[i - 1] = h[i - 1] => e[i] = h[i]
    BY <1>1, <1>4
  <1>6. \A i \in 0..n : e[i] = h[i]
    <2>1. e[0] = h[0]
      BY <1>4
    <2>2. n \in Nat
      BY <1>1
    <2>3. \A f, g :
             f[0] = g[0] /\ (\A i \in 1..n : f[i - 1] = g[i - 1] => f[i] = g[i])
               => \A i \in 0..n : f[i] = g[i]
      BY <2>2, RecursionUnique, Zenon
    <2>. QED  BY <1>5, <2>1, <2>3, Zenon
  <1>7. n \in 0..n /\ n + 1 \in 1..(n + 1) /\ (n + 1) - 1 = n
    BY <1>1
  <1>8. h[n + 1] = DecodeNext(h[n], r)
    BY <1>1, <1>4, <1>7
  <1>9. e[n] = h[n]
    BY <1>6, <1>7
  <1>. QED  BY <1>2, <1>3, <1>8, <1>9 DEF more

(* Whatever is decoded, the result is made of bytes and, with the escape   *)
(* still open, not longer than the input.                                  *)
LEMMA DecoderBounded ==
    ASSUME NEW raw \in Seq(Byte)
    PROVE  /\ Decoder(raw) \in Decoding
           /\ Len(Decoder(raw).new_raw) + Decoder(raw).state <= Len(raw)
  <1>. DEFINE n == Len(raw)
  <1>1. n \in Nat /\ \A i \in 1..n : raw[i] \in Byte
    OBVIOUS
  <1>. HIDE DEF n
  <1>2. PICK e : DecodeRun(e, raw) /\ Decoder(raw) = e[n]
    BY DecodeRuns, Zenon DEF n
  <1>3. /\ e[0] = DecoderStart
        /\ \A i \in 1..n : e[i] = DecodeNext(e[i - 1], raw[i])
        /\ \A i \in 0..n : e[i] \in Decoding
    BY <1>2 DEF DecodeRun, n
  <1>. DEFINE T == {i \in 0..n : Len(e[i].new_raw) + e[i].state <= i}
  <1>4. 0 \in T
    <2>1. Len(DecoderStart.new_raw) + DecoderStart.state <= 0
      BY DEF DecoderStart
    <2>. QED  BY <1>1, <1>3, <2>1
  <1>5. \A i \in 1..n : i - 1 \in T => i \in T
    <2>. SUFFICES ASSUME NEW i \in 1..n, i - 1 \in T PROVE i \in T
      OBVIOUS
    <2>1. /\ i \in 0..n /\ i \in Int /\ e[i - 1] \in Decoding /\ raw[i] \in Byte
          /\ Len(e[i - 1].new_raw) + e[i - 1].state <= i - 1
      BY <1>1, <1>3
    <2>2. e[i] = DecodeNext(e[i - 1], raw[i]) /\ e[i] \in Decoding
      BY <1>3, <2>1
    <2>3. Len(e[i].new_raw) + e[i].state <= Len(e[i - 1].new_raw) + e[i - 1].state + 1
      BY <2>1, <2>2, DecodeNextType, Zenon DEF Bounded
    <2>4. /\ Len(e[i].new_raw) \in Nat /\ e[i].state \in 0..3
          /\ Len(e[i - 1].new_raw) \in Nat /\ e[i - 1].state \in 0..3
      BY <2>1, <2>2, DecodingFields, ZenonT(30)
    <2>. DEFINE a == Len(e[i].new_raw)
                b == e[i].state
                c == Len(e[i - 1].new_raw)
                k == e[i - 1].state
    <2>5. a \in Nat /\ b \in 0..3 /\ c \in Nat /\ k \in 0..3 /\ a + b <= c + k + 1 /\ c + k <= i - 1
      BY <2>1, <2>3, <2>4, Zenon
    <2>. HIDE DEF a, b, c, k
    <2>6. a + b <= i
      BY <2>1, <2>5
    <2>. QED  BY <2>1, <2>6 DEF a, b
  <1>. HIDE DEF T
  <1>6. \A i \in 0..n : i \in T
    BY <1>1, <1>4, <1>5, IntervalInduction, Zenon
  <1>7. n \in 0..n
    BY <1>1
  <1>. QED  BY <1>2, <1>3, <1>6, <1>7 DEF T, n

LEMMA AppendFour ==
    ASSUME NEW a \in Seq(Byte), NEW p \in Byte, NEW q \in Byte, NEW u \in Byte, NEW v \in Byte
    PROVE  Append(Append(Append(Append(a, p), q), u), v) = a \o <<p, q, u, v>>
  <1>. DEFINE n == Len(a)
              a1 == Append(a, p)
              a2 == Append(a1, q)
              a3 == Append(a2, u)
              a4 == Append(a3, v)
              t == <<p, q, u, v>>
              c == a \o t
  <1>0. n \in Nat /\ a = [i \in 1..n |-> a[i]]
    OBVIOUS
  <1>1. a1 \in Seq(Byte) /\ Len(a1) = n + 1 /\ a1[n + 1] = p /\ \A i \in 1..n : a1[i] = a[i]
    OBVIOUS
  <1>5. t \in Seq(Byte) /\ Len(t) = 4 /\ t[1] = p /\ t[2] = q /\ t[3] = u /\ t[4] = v
    OBVIOUS
  <1>. HIDE DEF n, a1, t
  <1>2. /\ a2 \in Seq(Byte) /\ Len(a2) = n + 2 /\ a2[n + 1] = p /\ a2[n + 2] = q
        /\ \A i \in 1..n : a2[i] = a[i]
    BY <1>0, <1>1
  <1>. HIDE DEF a2
  <1>3. /\ a3 \in Seq(Byte) /\ Len(a3) = n + 3 /\ a3[n + 1] = p /\ a3[n + 2] = q /\ a3[n + 3] = u
        /\ \A i \in 1..n : a3[i] = a[i]
    BY <1>0, <1>2
  <1>. HIDE DEF a3
  <1>4. /\ a4 \in Seq(Byte) /\ Len(a4) = n + 4 /\ a4[n + 1] = p /\ a4[n + 2] = q
        /\ a4[n + 3] = u /\ a4[n + 4] = v
        /\ \A i \in 1..n : a4[i] = a[i]
    BY <1>0, <1>3
  <1>. HIDE DEF a4
  <1>6. /\ c \in Seq(Byte) /\ Len(c) = n + 4 /\ \A i \in 1..n : c[i] = a[i]
        /\ \A i \in 1..4 : c[n + i] = t[i]
    <2>1. /\ a \o t \in Seq(Byte) /\ Len(a \o t) = Len(a) + Len(t)
          /\ \A i \in 1..Len(a) : (a \o t)[i] = a[i]
          /\ \A i \in 1..Len(t) : (a \o t)[Len(a) + i] = t[i]
      <3>1. t \in Seq(Byte)
        BY <1>5
      <3>2. a \o t \in Seq(Byte) /\ Len(a \o t) = Len(a) + Len(t)
        BY <3>1
      <3>3. \A i \in 1..Len(a) : (a \o t)[i] = a[i]
        BY <3>1
      <3>4. \A i \in 1..Len(t) : (a \o t)[Len(a) + i] = t[i]
        BY <3>1
      <3>. QED  BY <3>2, <3>3, <3>4, Zenon
    <2>. QED  BY <1>5, <2>1 DEF n
  <1>. HIDE DEF c
  <1>7. /\ c[n + 1] = p /\ c[n + 2] = q /\ c[n + 3] = u /\ c[n + 4] = v
    BY <1>5, <1>6
  <1>8. ASSUME NEW i \in 1..(n + 4) PROVE a4[i] = c[i]
    <2>1. i \in 1..n \/ i = n + 1 \/ i = n + 2 \/ i = n + 3 \/ i = n + 4
      BY <1>0
    <2>. QED  BY <1>4, <1>6, <1>7, <2>1, Zenon
  <1>9. a4 = c
    BY <1>4, <1>6, <1>8, SameSeq, Zenon
  <1>. QED  BY <1>9, Zenon DEF a1, a2, a3, a4, c, t

(* A decoder between two values reads the encoding of one byte. *)
Ready(x) == x \in Decoding /\ x.state = 0 /\ ~x.raised

LEMMA ReadEncoded ==
    ASSUME NEW s \in Seq(Byte), NEW r \in Byte, Ready(Decoder(s))
    PROVE  /\ Ready(Decoder(s \o EncodeByte(r)))
           /\ Decoder(s \o EncodeByte(r)).new_raw = Append(Decoder(s).new_raw, r)
  <1>. DEFINE x == Decoder(s)
              Done(y) == /\ y \in Decoding /\ y.state = 0 /\ ~y.raised
                         /\ y.new_raw = Append(x.new_raw, r)
  <1>1. x \in Decoding /\ x.state = 0 /\ ~x.raised /\ x.new_raw \in Seq(0..255)
    BY DecodingFields, Zenon DEF Ready
  <1>2. BACKSLASH \in Byte /\ SMALL_X \in Byte
    BY DEF BACKSLASH, SMALL_X, Byte
  <1>r. r \in 0..255 /\ <<r>> \in Seq(0..255)
    BY DEF Byte
  <1>. HIDE DEF x
  <1>3. ASSUME NEW y \in Decoding, ~y.raised, y.new_raw = x.new_raw
        PROVE  Done(Emit(y, <<r>>))
    <2>1. x.new_raw \o <<r>> = Append(x.new_raw, r)
      BY <1>1, <1>r
    <2>2. /\ Emit(y, <<r>>) \in Decoding /\ Emit(y, <<r>>).state = 0
          /\ Emit(y, <<r>>).new_raw = y.new_raw \o <<r>>
          /\ Emit(y, <<r>>).raised = y.raised
      BY <1>3, <1>r, EmitType, Zenon
    <2>. QED  BY <1>3, <2>1, <2>2, Zenon
  <1>4. CASE r # BACKSLASH /\ is_word(r) /\ EncodeByte(r) = <<r>>
    <2>1. s \o EncodeByte(r) = Append(s, r)
      BY <1>4
    <2>2. Decoder(Append(s, r)) = DecodeByte(x, r)
      BY <1>1, DecoderAppend, Zenon DEF DecodeNext, x
    <2>3. DecodeByte(x, r) = Emit(x, <<r>>)
      BY <1>1, <1>4 DEF DecodeByte
    <2>4. Done(Emit(x, <<r>>))
      BY <1>1, <1>3, Zenon
    <2>5. Decoder(s \o EncodeByte(r)) = Emit(x, <<r>>)
      BY <2>1, <2>2, <2>3, Zenon
    <2>. QED  BY <2>4, <2>5 DEF Ready, x
  <1>5. x.state = 0 /\ DecodeByte(x, BACKSLASH) = [x EXCEPT !.state = 1]
    BY <1>1 DEF DecodeByte
  <1>. DEFINE s1 == Append(s, BACKSLASH)
              x1 == Decoder(s1)
  <1>6. x1 = [x EXCEPT !.state = 1]
    BY <1>1, <1>2, <1>5, DecoderAppend, Zenon DEF DecodeNext, x
  <1>7. s1 \in Seq(Byte)
    BY <1>2
  <1>. HIDE DEF s1, x1
  <1>8. x1 \in Decoding /\ x1.state = 1 /\ ~x1.raised /\ x1.new_raw = x.new_raw
    <2>1. 1 \in 0..3
      OBVIOUS
    <2>2. x \in Decoding /\ ~x.raised
      BY <1>1
    <2>. QED  BY <1>6, <2>1, <2>2, SetState, Zenon
  <1>9. CASE r = BACKSLASH /\ EncodeByte(r) = <<BACKSLASH, BACKSLASH>>
    <2>1. s \o EncodeByte(r) = Append(s1, r)
      BY <1>2, <1>9 DEF s1
    <2>2. Decoder(Append(s1, r)) = DecodeByte(x1, r)
      BY <1>7, <1>8, DecoderAppend, Zenon DEF DecodeNext, x1
    <2>3. DecodeByte(x1, r) = Emit(x1, <<r>>)
      BY <1>8, <1>9 DEF DecodeByte, BACKSLASH
    <2>4. Done(Emit(x1, <<r>>))
      BY <1>3, <1>8, Zenon
    <2>5. Decoder(s \o EncodeByte(r)) = Emit(x1, <<r>>)
      BY <2>1, <2>2, <2>3, Zenon
    <2>. QED  BY <2>4, <2>5, Zenon DEF Ready, x
  <1>10. CASE EncodeByte(r) = <<BACKSLASH, SMALL_X, HexDigit(r \div 16), HexDigit(r % 16)>>
    <2>. DEFINE h == High(r)
                l == Low(r)
                s2 == Append(s1, SMALL_X)
                x2 == Decoder(s2)
                s3 == Append(s2, h)
                x3 == Decoder(s3)
    <2>1. /\ h \in 0..255 /\ l \in 0..255 /\ TakenAsHex(h) /\ IsHex(h)
          /\ TakenAsHex(l) /\ IsHex(l) /\ 16 * HexValue(h) + HexValue(l) = r
      BY <1>r, DigitsRead, ZenonT(30)
    <2>2. EncodeByte(r) = <<BACKSLASH, SMALL_X, h, l>>
      BY <1>10, Zenon DEF High, Low
    <2>. HIDE DEF h, l
    <2>b. h \in Byte /\ l \in Byte
      BY <2>1 DEF Byte
    <2>3. s \o EncodeByte(r) = Append(s3, l)
      <3>1. Append(Append(Append(Append(s, BACKSLASH), SMALL_X), h), l)
              = s \o <<BACKSLASH, SMALL_X, h, l>>
        BY <2>b, <1>2, AppendFour
      <3>. QED  BY <2>2, <3>1, Zenon DEF s1
    <2>4. s2 \in Seq(Byte) /\ s3 \in Seq(Byte)
      BY <1>2, <1>7, <2>b
    <2>5. x2 = DecodeByte(x1, SMALL_X)
      BY <1>2, <1>7, <1>8, DecoderAppend, Zenon DEF DecodeNext, x1
    <2>6. x2 = [x1 EXCEPT !.state = 2]
      BY <1>8, <2>5 DEF DecodeByte, SMALL_X, BACKSLASH
    <2>7. x2 \in Decoding /\ x2.state = 2 /\ ~x2.raised /\ x2.new_raw = x.new_raw
      <3>1. 2 \in 0..3
        OBVIOUS
      <3>. HIDE DEF x2
      <3>. QED  BY <1>8, <2>6, <3>1, SetState, Zenon
    <2>8. x3 = DecodeByte(x2, h)
      BY <2>b, <2>4, <2>7, DecoderAppend, Zenon DEF DecodeNext
    <2>. HIDE DEF s2, x2, s3, x3
    <2>9. x3 = TakeDigit(x2, h)
      BY <2>1, <2>7, <2>8 DEF DecodeByte
    <2>10. /\ x3 \in Decoding /\ x3.state = 3 /\ x3.hex_1 = h
           /\ ~x3.raised /\ x3.new_raw = x.new_raw
      BY <2>1, <2>7, <2>9, TakeDigitType, ZenonT(30)
    <2>11. Decoder(Append(s3, l)) = DecodeByte(x3, l)
      BY <2>b, <2>4, <2>10, DecoderAppend, Zenon DEF DecodeNext, x3
    <2>12. DecodeByte(x3, l) = Emit(x3, <<16 * HexValue(x3.hex_1) + HexValue(l)>>)
      <3>1. x3.state = 3 /\ TakenAsHex(l) /\ IsHex(x3.hex_1) /\ IsHex(l)
        BY <2>1, <2>10, Zenon
      <3>. QED  BY <3>1 DEF DecodeByte
    <2>13. DecodeByte(x3, l) = Emit(x3, <<r>>)
      BY <2>1, <2>10, <2>12, Zenon
    <2>14. Done(Emit(x3, <<r>>))
      BY <1>3, <2>10, Zenon
    <2>15. Decoder(s \o EncodeByte(r)) = Emit(x3, <<r>>)
      BY <2>3, <2>11, <2>13, Zenon
    <2>. QED  BY <2>14, <2>15, Zenon DEF Ready, x
  <1>. QED  BY <1>r, <1>4, <1>9, <1>10, EncodeByteCases, Zenon

(* Decoding undoes encoding: bytes_decode returns every value, of any      *)
(* length and any bytes, from what bytes_encode made of it, and does not   *)
(* throw on the way.                                                       *)
THEOREM DecodeUndoesEncode ==
    ASSUME NEW v \in Seq(Byte)
    PROVE  /\ bytes_encode(v) \in Seq(Byte)
           /\ bytes_decode(bytes_encode(v)) = v
           /\ ~DecodeRaises(bytes_encode(v))
  <1>. DEFINE n == Len(v)
              Upto(i) == SubSeq(v, 1, i)
  <1>1. n \in Nat /\ \A i \in 1..n : v[i] \in Byte
    OBVIOUS
  <1>2. /\ Upto(0) = <<>>
        /\ Upto(n) = v
        /\ \A i \in 1..n : Upto(i) = Append(Upto(i - 1), v[i])
    <2>1. Upto(0) = <<>> /\ Upto(n) = v
      OBVIOUS
    <2>2. ASSUME NEW i \in 1..n PROVE Upto(i) = Append(Upto(i - 1), v[i])
      OBVIOUS
    <2>. QED  BY <2>1, <2>2
  <1>. HIDE DEF n, Upto
  <1>3. PICK e : EncodeRun(e, v) /\ bytes_encode(v) = e[n]
    BY EncodeRuns, Zenon DEF n
  <1>4. /\ e[0] = <<>>
        /\ \A i \in 1..n : e[i] = e[i - 1] \o EncodeByte(v[i])
        /\ \A i \in 0..n : e[i] \in Seq(Byte)
    BY <1>3 DEF EncodeRun, n
  <1>. DEFINE T == {i \in 0..n : Ready(Decoder(e[i])) /\ Decoder(e[i]).new_raw = Upto(i)}
  <1>5. 0 \in T
    <2>1. Ready(DecoderStart) /\ DecoderStart.new_raw = <<>>
      BY DecoderStartType DEF Ready, DecoderStart
    <2>2. 0 \in 0..n
      BY <1>1
    <2>3. Ready(Decoder(e[0])) /\ Decoder(e[0]).new_raw = Upto(0)
      BY <1>2, <1>4, <2>1, DecoderEmpty, Zenon
    <2>. QED  BY <2>2, <2>3, Zenon
  <1>6. \A i \in 1..n : i - 1 \in T => i \in T
    <2>. SUFFICES ASSUME NEW i \in 1..n, i - 1 \in T PROVE i \in T
      OBVIOUS
    <2>1. i \in 0..n /\ i - 1 \in 0..n
      BY <1>1
    <2>2. v[i] \in Byte /\ e[i - 1] \in Seq(Byte) /\ e[i] = e[i - 1] \o EncodeByte(v[i])
      BY <1>1, <1>4, <2>1
    <2>3. Ready(Decoder(e[i - 1])) /\ Decoder(e[i - 1]).new_raw = Upto(i - 1)
      OBVIOUS
    <2>4. /\ Ready(Decoder(e[i]))
          /\ Decoder(e[i]).new_raw = Append(Decoder(e[i - 1]).new_raw, v[i])
      BY <2>2, <2>3, ReadEncoded, Zenon
    <2>5. Decoder(e[i]).new_raw = Upto(i)
      BY <1>2, <2>3, <2>4
    <2>. QED  BY <2>1, <2>4, <2>5, Zenon
  <1>. HIDE DEF T
  <1>7. \A i \in 0..n : i \in T
    BY <1>1, <1>5, <1>6, IntervalInduction, Zenon
  <1>8. n \in 0..n
    BY <1>1
  <1>9. Ready(Decoder(e[n])) /\ Decoder(e[n]).new_raw = v
    BY <1>2, <1>7, <1>8 DEF T
  <1>. QED  BY <1>3, <1>4, <1>8, <1>9, Zenon DEF bytes_decode, DecodeRaises, Ready

(* What a decoder makes of bytes is bytes, and not more of them. *)
LEMMA DecodedType ==
    ASSUME NEW raw \in Seq(Byte)
    PROVE  bytes_decode(raw) \in Seq(Byte) /\ Len(bytes_decode(raw)) <= Len(raw)
  <1>1. /\ Decoder(raw) \in Decoding
        /\ Len(Decoder(raw).new_raw) + Decoder(raw).state <= Len(raw)
    BY DecoderBounded
  <1>. DEFINE a == Len(Decoder(raw).new_raw)
              b == Decoder(raw).state
  <1>2. a \in Nat /\ b \in 0..3 /\ a + b <= Len(raw) /\ Len(raw) \in Nat
    <2>1. Len(raw) \in Nat
      OBVIOUS
    <2>. QED  BY <1>1, <2>1, DecodingFields, Zenon
  <1>3. Decoder(raw).new_raw \in Seq(Byte)
    BY <1>1, DecodingFields, Zenon DEF Byte
  <1>. HIDE DEF a, b
  <1>4. a <= Len(raw)
    BY <1>2
  <1>. QED  BY <1>3, <1>4 DEF a, bytes_decode

(* An empty value is the encoding of an empty value only. *)
LEMMA EncodedNotEmpty ==
    ASSUME NEW v \in Seq(Byte), v # <<>>
    PROVE  bytes_encode(v) # <<>>
  <1>1. bytes_decode(<<>>) = <<>>
    BY DecoderEmpty DEF bytes_decode, DecoderStart
  <1>. QED  BY <1>1, DecodeUndoesEncode

-----------------------------------------------------------------------------
(* Reading a frame. *)

LEMMA LeastIs ==
    ASSUME NEW S \in SUBSET Nat, S # {}
    PROVE  Least(S) \in S /\ \A j \in S : Least(S) <= j
  <1>1. \E i \in S : \A j \in S : i <= j
    BY NatLeast, Zenon
  <1>. QED  BY <1>1, Zenon DEF Least

LEMMA LeastOf ==
    ASSUME NEW S \in SUBSET Nat, NEW i \in S, \A j \in S : i <= j
    PROVE  Least(S) = i
  <1>. DEFINE k == Least(S)
  <1>1. k \in S /\ k <= i
    BY LeastIs, Zenon
  <1>. HIDE DEF k
  <1>2. i <= k
    BY <1>1
  <1>3. i \in Nat /\ k \in Nat
    BY <1>1
  <1>4. i = k
    BY <1>1, <1>2, <1>3
  <1>. QED  BY <1>4 DEF k

LEMMA PackSizeType ==
    ASSUME NEW n \in Nat
    PROVE  PackSize(n) \in Seq(Byte) /\ Len(PackSize(n)) = 4
  <1>1. /\ n % 256 \in 0..255 /\ (n \div 256) % 256 \in 0..255
        /\ (n \div 65536) % 256 \in 0..255 /\ (n \div 16777216) % 256 \in 0..255
    OBVIOUS
  <1>. QED  BY <1>1 DEF PackSize, Byte

LEMMA PackSizeRead ==
    ASSUME NEW n \in Nat, n \div 16777216 < 256
    PROVE  (n % 256) + 256 * ((n \div 256) % 256) + 65536 * ((n \div 65536) % 256)
             + 16777216 * ((n \div 16777216) % 256) = n
  <1>. DEFINE a == n \div 256
              b == n \div 65536
              c == n \div 16777216
  <1>1. a \in Nat /\ b \in Nat /\ c \in Nat /\ c < 256
    BY SMT
  <1>2. n = 256 * a + (n % 256)
    BY SMT
  <1>3. n \div 65536 = a \div 256
    BY SMT
  <1>4. n \div 16777216 = b \div 256
    BY SMT
  <1>. HIDE DEF a, b, c
  <1>5. a = 256 * b + (a % 256)
    BY <1>1, <1>3, SMT DEF b
  <1>6. b = 256 * c + (b % 256)
    BY <1>1, <1>4, SMT DEF c
  <1>7. c % 256 = c
    BY <1>1, SMT
  <1>8. \A r, s, t \in Nat :
           /\ n = 256 * a + r
           /\ a = 256 * b + s
           /\ b = 256 * c + t
           => r + 256 * s + 65536 * t + 16777216 * c = n
    BY <1>1, SMT
  <1>9. n % 256 \in Nat /\ a % 256 \in Nat /\ b % 256 \in Nat
    BY <1>1, SMT
  <1>10. (n % 256) + 256 * (a % 256) + 65536 * (b % 256) + 16777216 * c = n
    BY <1>2, <1>5, <1>6, <1>8, <1>9, SMT
  <1>. QED  BY <1>7, <1>10, SMT DEF a, b, c

FourBytes(n) == n \div 16777216 < 256

(* What parse needs of a packet to find it in a frame: what the callers of *)
(* send_packet guarantee.                                                  *)
Sendable(p) ==
    /\ p \in Packets
    /\ p.key_str # <<>>
    /\ \A j \in 1..Len(p.key_str) : p.key_str[j] # EQ /\ p.key_str[j] < 128
    /\ FourBytes(data_size(p))

LEMMA DataType ==
    ASSUME NEW p \in Packets
    PROVE  data_bytes(p) \in Seq(Byte) /\ data_size(p) \in Nat
  <1>1. p.key_str \in Seq(Byte) /\ p.val_bytes \in Seq(Byte) /\ EQ \in Byte
    BY DEF Packets, Byte, EQ
  <1>2. p.key_str \o <<EQ>> \o p.val_bytes \in Seq(Byte)
    BY <1>1
  <1>3. data_bytes(p) \in Seq(Byte)
    BY <1>1, <1>2 DEF data_bytes
  <1>4. Len(data_bytes(p)) \in Nat
    BY <1>3
  <1>. QED  BY <1>3, <1>4 DEF data_size

LEMMA PacketFields ==
    ASSUME NEW p \in Packets
    PROVE  /\ p.key_str \in Seq(Byte) /\ p.val_bytes \in Seq(Byte)
           /\ Len(p.key_str) \in Nat /\ Len(p.val_bytes) \in Nat
           /\ data_size(p) = IF p.val_bytes = <<>> THEN Len(p.key_str)
                             ELSE Len(p.key_str) + 1 + Len(p.val_bytes)
  <1>1. p.key_str \in Seq(Byte) /\ p.val_bytes \in Seq(Byte) /\ <<EQ>> \in Seq(Byte)
    BY DEF Packets, EQ, Byte
  <1>2. Len(p.key_str) \in Nat /\ Len(p.val_bytes) \in Nat /\ Len(<<EQ>>) = 1
    BY <1>1
  <1>. DEFINE k == p.key_str
              v == p.val_bytes
              one == <<EQ>>
  <1>a. k \in Seq(Byte) /\ one \in Seq(Byte) /\ v \in Seq(Byte) /\ Len(one) = 1
    BY <1>1, <1>2
  <1>. HIDE DEF k, v, one
  <1>3. k \o one \in Seq(Byte) /\ Len(k \o one) = Len(k) + Len(one)
    BY <1>a, ConcatProperties, Zenon
  <1>b. Len(k \o one \o v) = Len(k \o one) + Len(v)
    BY <1>a, <1>3, ConcatProperties, Zenon
  <1>4. Len(p.key_str \o <<EQ>> \o p.val_bytes) = Len(p.key_str) + 1 + Len(p.val_bytes)
    BY <1>a, <1>3, <1>b DEF k, v, one
  <1>. QED  BY <1>1, <1>2, <1>4, Zenon DEF data_size, data_bytes

(* Key and value are found again in the data of a packet. *)
LEMMA SplitData ==
    ASSUME NEW p, Sendable(p)
    PROVE  Split(data_bytes(p)) = p
  <1>. DEFINE k == p.key_str
              v == p.val_bytes
              eqs == {i \in DOMAIN data_bytes(p) : data_bytes(p)[i] = EQ}
  <1>1. /\ k \in Seq(Byte) /\ v \in Seq(Byte) /\ k # <<>>
        /\ \A j \in 1..Len(k) : k[j] # EQ
        /\ p = [key_str |-> k, val_bytes |-> v]
    BY DEF Sendable, Packets
  <1>2. CASE v = <<>>
    <2>1. data_bytes(p) = k
      BY <1>2 DEF data_bytes
    <2>2. eqs = {}
      BY <1>1, <2>1
    <2>. QED  BY <1>1, <1>2, <2>1, <2>2, Zenon DEF Split, Packet
  <1>3. CASE v # <<>>
    <2>. DEFINE m == Len(k) + 1
                s == k \o <<EQ>> \o v
    <2>1. data_bytes(p) = s
      BY <1>3 DEF data_bytes
    <2>2. EQ \in Byte
      BY DEF EQ, Byte
    <2>. HIDE DEF k, v
    <2>3. /\ s \in Seq(Byte) /\ Len(s) = m + Len(v) /\ s[m] = EQ
          /\ m \in Nat /\ m > 1 /\ Len(v) \in Nat
          /\ \A j \in 1..(m - 1) : s[j] # EQ
      <3>1. \A j \in 1..Len(k) : s[j] = k[j]
        BY <1>1, <2>2
      <3>. QED  BY <1>1, <2>2, <3>1
    <2>4. SubSeq(s, 1, m - 1) = k /\ SubSeq(s, m + 1, Len(s)) = v
      BY <1>1, <2>2
    <2>. HIDE DEF m, s
    <2>5. m \in eqs /\ eqs \in SUBSET Nat /\ \A j \in eqs : m <= j
      BY <2>1, <2>3
    <2>6. Least(eqs) = m
      BY <2>5, LeastOf, Zenon
    <2>7. eqs # {} /\ Least(eqs) > 1
      BY <2>3, <2>5, <2>6
    <2>8. Split(s) = Packet(SubSeq(s, 1, Least(eqs) - 1), SubSeq(s, Least(eqs) + 1, Len(s)))
      BY <2>1, <2>7, Zenon DEF Split
    <2>. QED  BY <1>1, <2>1, <2>4, <2>6, <2>8, Zenon DEF Packet
  <1>. QED  BY <1>2, <1>3

(* Where the parts of a frame are. *)
LEMMA FrameParts ==
    ASSUME NEW p \in Packets
    PROVE  /\ FrameBody(p) \in Seq(Byte)
           /\ Len(FrameBody(p)) = OVERHEAD + data_size(p)
           /\ FrameBody(p)[1] = 35 /\ FrameBody(p)[2] = 36
           /\ \A k \in 1..4 : FrameBody(p)[k + 2] = PackSize(data_size(p))[k]
           /\ SubSeq(FrameBody(p), 7, 6 + data_size(p)) = data_bytes(p)
           /\ FrameBody(p)[7 + data_size(p)] = calc_checksum(data_bytes(p))
  <1>. DEFINE d == data_bytes(p)
              n == data_size(p)
              z == PackSize(n)
              c == calc_checksum(d)
              f == FrameBody(p)
  <1>1. d \in Seq(Byte) /\ n \in Nat /\ n = Len(d)
    BY DataType DEF data_size
  <1>2. z \in Seq(Byte) /\ Len(z) = 4
    BY <1>1, PackSizeType
  <1>3. c \in Byte
    BY <1>1, ChecksumIsByte
  <1>4. f = <<35, 36>> \o z \o d \o <<c>>
    BY DEF FrameBody, SYMBOL_START_BYTES
  <1>5. 35 \in Byte /\ 36 \in Byte
    BY DEF Byte
  <1>. HIDE DEF d, n, z, c, f
  <1>. DEFINE g == <<35, 36>> \o z
              h == g \o d
  <1>a. /\ g \in Seq(Byte) /\ Len(g) = 6 /\ g[1] = 35 /\ g[2] = 36
        /\ \A k \in 1..4 : g[2 + k] = z[k]
    <2>1. /\ <<35, 36>> \in Seq(Byte) /\ Len(<<35, 36>>) = 2
          /\ <<35, 36>>[1] = 35 /\ <<35, 36>>[2] = 36 /\ 1 \in 1..2 /\ 2 \in 1..2
      BY <1>5
    <2>. DEFINE st == <<35, 36>>
    <2>. HIDE DEF st
    <2>2. st \in Seq(Byte) /\ z \in Seq(Byte) /\ Len(st) = 2 /\ Len(z) = 4
      BY <1>2, <2>1 DEF st
    <2>c. st \in Seq(Byte) /\ z \in Seq(Byte)
      BY <2>2
    <2>3. st \o z \in Seq(Byte) /\ Len(st \o z) = Len(st) + Len(z)
      BY <2>c
    <2>a. \A i \in 1..Len(st) : (st \o z)[i] = st[i]
      BY <2>c
    <2>b. \A i \in 1..Len(z) : (st \o z)[Len(st) + i] = z[i]
      BY <2>c
    <2>4. g = st \o z
      BY DEF st
    <2>5. st[1] = 35 /\ st[2] = 36
      BY <2>1 DEF st
    <2>. HIDE DEF g
    <2>. QED  BY <2>2, <2>3, <2>4, <2>5, <2>a, <2>b, SMTT(30)
  <1>. HIDE DEF g
  <1>b. /\ h \in Seq(Byte) /\ Len(h) = 6 + n
        /\ \A k \in 1..6 : h[k] = g[k]
        /\ \A k \in 1..n : h[6 + k] = d[k]
    <2>1. g \in Seq(Byte) /\ d \in Seq(Byte)
      BY <1>1, <1>a
    <2>2. /\ g \o d \in Seq(Byte)
          /\ Len(g \o d) = Len(g) + Len(d)
          /\ \A i \in 1..Len(g) : (g \o d)[i] = g[i]
          /\ \A i \in 1..Len(d) : (g \o d)[Len(g) + i] = d[i]
      BY <2>1
    <2>. QED  BY <1>1, <1>a, <2>2
  <1>c. f = h \o <<c>>
    BY <1>4 DEF g
  <1>. HIDE DEF h
  <1>6. /\ f \in Seq(Byte) /\ Len(f) = 7 + n /\ f[7 + n] = c
        /\ \A k \in 1..(6 + n) : f[k] = h[k]
    BY <1>1, <1>3, <1>b, <1>c
  <1>7. f[1] = 35 /\ f[2] = 36
    <2>1. 1 \in 1..(6 + n) /\ 2 \in 1..(6 + n)
      BY <1>1
    <2>. QED  BY <2>1, <1>6, <1>a, <1>b
  <1>8. \A k \in 1..4 : f[k + 2] = z[k]
    <2>1. \A k \in 1..4 : k + 2 \in 1..(6 + n) /\ k + 2 \in 1..6 /\ k + 2 = 2 + k
      BY <1>1
    <2>. QED  BY <2>1, <1>6, <1>a, <1>b, SMTT(30)
  <1>9. f[7 + n] = c
    BY <1>6
  <1>10. SubSeq(f, 7, 6 + n) = d
    <2>1. SubSeq(f, 7, 6 + n) \in Seq(Byte) /\ Len(SubSeq(f, 7, 6 + n)) = n
      BY <1>1, <1>6
    <2>2. \A k \in 1..n : SubSeq(f, 7, 6 + n)[k] = d[k]
      <3>. SUFFICES ASSUME NEW k \in 1..n PROVE SubSeq(f, 7, 6 + n)[k] = d[k]
        OBVIOUS
      <3>1. SubSeq(f, 7, 6 + n)[k] = f[6 + k]
        BY <1>1, <1>6
      <3>2. f[6 + k] = d[k]
        <4>1. 6 + k \in 1..(6 + n)
          BY <1>1
        <4>. QED  BY <4>1, <1>6, <1>b
      <3>. QED  BY <3>1, <3>2
    <2>. QED  BY <1>1, <2>1, <2>2
  <1>. QED  BY <1>6, <1>7, <1>8, <1>9, <1>10 DEF OVERHEAD, d, n, z, c, f

(* raw begins with a frame, or is the beginning of one. *)
Agree(raw, f) == \A k \in 1..Len(raw) : k <= Len(f) => raw[k] = f[k]

LEMMA FrameSize ==
    ASSUME NEW p, Sendable(p), NEW raw \in Seq(Byte), Agree(raw, FrameBody(p)), Len(raw) >= 8
    PROVE  SizeAt(raw, 1) = data_size(p)
  <1>. DEFINE n == data_size(p)
              z == PackSize(n)
              f == FrameBody(p)
  <1>1. p \in Packets /\ n \in Nat /\ FourBytes(n)
    BY DataType DEF Sendable
  <1>2. /\ z[1] = n % 256 /\ z[2] = (n \div 256) % 256
        /\ z[3] = (n \div 65536) % 256 /\ z[4] = (n \div 16777216) % 256
    BY DEF PackSize
  <1>3. Len(f) = 7 + n /\ \A k \in 1..4 : f[k + 2] = z[k]
    BY <1>1, FrameParts DEF OVERHEAD
  <1>. HIDE DEF n
  <1>4. (n % 256) + 256 * ((n \div 256) % 256) + 65536 * ((n \div 65536) % 256)
          + 16777216 * ((n \div 16777216) % 256) = n
    BY <1>1, PackSizeRead, SMT DEF FourBytes
  <1>. HIDE DEF z, f
  <1>5. \A k \in 1..4 : raw[k + 2] = z[k]
    <2>. SUFFICES ASSUME NEW k \in 1..4 PROVE raw[k + 2] = z[k]
      OBVIOUS
    <2>1. k + 2 \in 1..Len(raw) /\ k + 2 <= Len(f)
      BY <1>1, <1>3
    <2>. QED  BY <1>3, <2>1 DEF Agree, f
  <1>6. raw[3] = z[1] /\ raw[4] = z[2] /\ raw[5] = z[3] /\ raw[6] = z[4]
    BY <1>5
  <1>7. SizeAt(raw, 1) = z[1] + 256 * z[2] + 65536 * z[3] + 16777216 * z[4]
    BY <1>6 DEF SizeAt
  <1>. QED  BY <1>2, <1>4, <1>7 DEF n

(* A frame at the front of the buffer is found there and read back as it   *)
(* was written, whatever stands behind it.                                 *)
THEOREM ParseReadsFrame ==
    ASSUME NEW p, Sendable(p), NEW raw \in Seq(Byte),
           Agree(raw, FrameBody(p)), Len(raw) >= Len(FrameBody(p))
    PROVE  FoundAt(raw) = 1 /\ parse(raw) = p
  <1>. DEFINE n == data_size(p)
              f == FrameBody(p)
              d == data_bytes(p)
  <1>1. p \in Packets /\ n \in Nat /\ d \in Seq(Byte) /\ n = Len(d)
    BY DataType DEF Sendable, data_size
  <1>2. n >= 1
    <2>1. p.key_str \in Seq(Byte) /\ p.val_bytes \in Seq(Byte) /\ p.key_str # <<>>
      BY DEF Sendable, Packets
    <2>2. Len(p.key_str) \in Nat /\ Len(p.key_str) > 0
      BY <2>1
    <2>3. n = IF p.val_bytes = <<>> THEN Len(p.key_str)
              ELSE Len(p.key_str) + 1 + Len(p.val_bytes)
      BY <1>1, PacketFields, Zenon
    <2>. DEFINE a == Len(p.key_str)
                b == Len(p.val_bytes)
    <2>4. n = a \/ n = a + 1 + b
      BY <2>3, Zenon
    <2>5. b \in Nat
      BY <2>1
    <2>. HIDE DEF n, a, b
    <2>6. a \in Nat /\ a > 0
      BY <2>2 DEF a
    <2>. QED  BY <2>4, <2>5, <2>6
  <1>3. /\ f \in Seq(Byte) /\ Len(f) = 7 + n /\ f[1] = 35 /\ f[2] = 36
        /\ SubSeq(f, 7, 6 + n) = d /\ f[7 + n] = calc_checksum(d)
    BY <1>1, FrameParts DEF OVERHEAD
  <1>4. Len(raw) \in Nat /\ Len(raw) >= 7 + n
    BY <1>3
  <1>5. SizeAt(raw, 1) = n
    BY <1>1, <1>2, <1>4, FrameSize
  <1>. HIDE DEF n, f, d
  <1>6. \A k \in 1..(7 + n) : raw[k] = f[k]
    BY <1>1, <1>3, <1>4 DEF Agree, f
  <1>7. SubSeq(raw, 7, 6 + n) = d
    <2>1. SubSeq(raw, 7, 6 + n) = SubSeq(f, 7, 6 + n)
      <3>1. /\ SubSeq(raw, 7, 6 + n) \in Seq(Byte) /\ Len(SubSeq(raw, 7, 6 + n)) = n
            /\ SubSeq(f, 7, 6 + n) \in Seq(Byte) /\ Len(SubSeq(f, 7, 6 + n)) = n
        BY <1>1, <1>3, <1>4
      <3>2. \A k \in 1..n : SubSeq(raw, 7, 6 + n)[k] = SubSeq(f, 7, 6 + n)[k]
        <4>1. 6 + 1 = 7 /\ 6 \in Nat /\ 6 <= 6 + n /\ 6 + n \in 0..Len(raw)
              /\ 6 + n \in 0..Len(f) /\ (6 + n) - 6 = n
          BY <1>1, <1>3, <1>4
        <4>2. /\ \A k \in 1..n : SubSeq(raw, 7, 6 + n)[k] = raw[6 + k]
              /\ \A k \in 1..n : SubSeq(f, 7, 6 + n)[k] = f[6 + k]
          <5>1. raw \in Seq(Byte) /\ f \in Seq(Byte)
            BY <1>3
          <5>2. /\ \A k \in 1..((6 + n) - 6) : SubSeq(raw, 6 + 1, 6 + n)[k] = raw[6 + k]
                /\ \A k \in 1..((6 + n) - 6) : SubSeq(f, 6 + 1, 6 + n)[k] = f[6 + k]
            BY <4>1, <5>1, Piece, Zenon
          <5>. QED  BY <4>1, <5>2
        <4>3. \A k \in 1..n : 6 + k \in 1..(7 + n)
          BY <1>1
        <4>. QED  BY <1>6, <4>2, <4>3
      <3>. QED  BY <3>1, <3>2, SameSeq, Zenon
    <2>. QED  BY <1>3, <2>1
  <1>8. DataAt(raw, 1) = d
    BY <1>1, <1>5, <1>7 DEF DataAt
  <1>9. raw[1] = 35 /\ raw[2] = 36 /\ raw[7 + n] = calc_checksum(d)
    BY <1>1, <1>3, <1>6
  <1>10. Whole(raw, 1)
    BY <1>1, <1>2, <1>4, <1>5 DEF Whole, PACKET_MIN, OVERHEAD
  <1>11. ChecksumOK(raw, 1)
    BY <1>1, <1>5, <1>8, <1>9 DEF ChecksumOK
  <1>12. 1 \in Deciding(raw)
    <2>1. 1 \in StartsAt(raw)
      BY <1>1, <1>4, <1>9 DEF StartsAt
    <2>. QED  BY <2>1, <1>11 DEF Deciding
  <1>13. Deciding(raw) \in SUBSET Nat /\ \A j \in Deciding(raw) : 1 <= j
    BY <1>4 DEF Deciding, StartsAt
  <1>14. Least(Deciding(raw)) = 1
    BY <1>12, <1>13, LeastOf, Zenon
  <1>15. Split(d) = p
    BY SplitData DEF d
  <1>16. Decodable(Split(DataAt(raw, 1)).key_str)
    <2>1. p.key_str \in Seq(Byte) /\ \A j \in 1..Len(p.key_str) : p.key_str[j] < 128
      BY DEF Sendable, Packets
    <2>. QED  BY <1>8, <1>15, <2>1 DEF Decodable
  <1>17. FoundAt(raw) = 1
    BY <1>10, <1>12, <1>14, <1>16 DEF FoundAt
  <1>. QED  BY <1>8, <1>15, <1>17 DEF parse

(* The beginning of a frame is no packet. *)
THEOREM ParseWaitsForFrame ==
    ASSUME NEW p, Sendable(p), NEW raw \in Seq(Byte),
           Agree(raw, FrameBody(p)), Len(raw) < Len(FrameBody(p))
    PROVE  FoundAt(raw) = 0
  <1>. DEFINE n == data_size(p)
              f == FrameBody(p)
  <1>1. p \in Packets /\ n \in Nat
    BY DataType DEF Sendable
  <1>2. /\ f \in Seq(Byte) /\ Len(f) = 7 + n /\ f[1] = 35 /\ f[2] = 36
    BY <1>1, FrameParts DEF OVERHEAD
  <1>3. Len(raw) \in Nat /\ Len(raw) < 7 + n
    BY <1>2
  <1>4. Deciding(raw) \in SUBSET Nat /\ \A j \in Deciding(raw) : 1 <= j
    BY <1>3 DEF Deciding, StartsAt
  <1>5. CASE Deciding(raw) = {}
    BY <1>5 DEF FoundAt
  <1>6. CASE Deciding(raw) # {}
    <2>1. Len(raw) >= 2
      BY <1>3, <1>6 DEF Deciding, StartsAt
    <2>2. ~Whole(raw, 1)
      <3>1. CASE Len(raw) < 8
        BY <1>3, <3>1 DEF Whole, PACKET_MIN
      <3>2. CASE Len(raw) >= 8
        <4>1. SizeAt(raw, 1) = n
          BY <3>2, FrameSize
        <4>. HIDE DEF n
        <4>. QED  BY <1>1, <1>3, <4>1 DEF Whole, OVERHEAD
      <3>. QED  BY <1>3, <3>1, <3>2
    <2>3. raw[1] = 35 /\ raw[2] = 36
      <3>. HIDE DEF n, f
      <3>1. 1 \in 1..Len(raw) /\ 2 \in 1..Len(raw) /\ 1 <= Len(f) /\ 2 <= Len(f)
        BY <1>1, <1>2, <1>3, <2>1
      <3>. QED  BY <1>2, <3>1 DEF Agree, f
    <2>4. 1 \in Deciding(raw)
      BY <1>3, <2>1, <2>2, <2>3 DEF Deciding, StartsAt
    <2>5. Least(Deciding(raw)) = 1
      BY <1>4, <2>4, LeastOf, Zenon
    <2>. QED  BY <1>6, <2>2, <2>5 DEF FoundAt
  <1>. QED  BY <1>5, <1>6

(* What parse returns, whatever the buffer holds: a packet that is not     *)
(* longer than the data of the frame it was found in.                      *)
LEMMA SplitType ==
    ASSUME NEW w \in Seq(Byte)
    PROVE  Split(w) \in Packets /\ data_size(Split(w)) <= Len(w)
  <1>. DEFINE eqs == {k \in DOMAIN w : w[k] = EQ}
              i == Least(eqs)
  <1>1. Len(w) \in Nat /\ <<>> \in Seq(Byte)
    OBVIOUS
  <1>2. CASE eqs # {} /\ i > 1
    <2>. DEFINE k == SubSeq(w, 1, i - 1)
                v == SubSeq(w, i + 1, Len(w))
    <2>1. i \in 1..Len(w)
      <3>1. eqs \in SUBSET Nat
        OBVIOUS
      <3>2. i \in eqs
        BY <1>2, <3>1, LeastIs, Zenon
      <3>. QED  BY <3>2
    <2>2. Split(w) = Packet(k, v)
      BY <1>2, Zenon DEF Split
    <2>. HIDE DEF i, eqs
    <2>3. k \in Seq(Byte) /\ v \in Seq(Byte) /\ Len(k) = i - 1 /\ Len(v) = Len(w) - i
      BY <2>1
    <2>. HIDE DEF k, v
    <2>4. /\ Split(w) = [key_str |-> k, val_bytes |-> v]
          /\ Split(w).key_str = k /\ Split(w).val_bytes = v
      BY <2>2 DEF Packet
    <2>5. Split(w) \in Packets
      BY <2>3, <2>4 DEF Packets
    <2>6. CASE v = <<>>
      <3>1. data_size(Split(w)) = Len(k)
        BY <2>4, <2>6 DEF data_size, data_bytes
      <3>. QED  BY <1>1, <2>1, <2>3, <2>5, <3>1
    <2>7. CASE v # <<>>
      <3>1. data_size(Split(w)) = Len(k) + 1 + Len(v)
        BY <2>4, <2>5, <2>7, PacketFields, Zenon
      <3>. QED  BY <1>1, <2>1, <2>3, <2>5, <3>1
    <2>. QED  BY <2>6, <2>7
  <1>3. CASE ~(eqs # {} /\ i > 1)
    <2>1. Split(w) = Packet(w, <<>>)
      BY <1>3, Zenon DEF Split
    <2>2. Split(w).key_str = w /\ Split(w).val_bytes = <<>> /\ Split(w) \in Packets
      BY <1>1, <2>1 DEF Packet, Packets
    <2>3. data_size(Split(w)) = Len(w)
      BY <2>2 DEF data_size, data_bytes
    <2>. QED  BY <1>1, <2>2, <2>3
  <1>. QED  BY <1>2, <1>3

LEMMA ParseType ==
    ASSUME NEW raw \in Seq(Byte), FoundAt(raw) # 0
    PROVE  /\ FoundAt(raw) \in 1..Len(raw)
           /\ SizeAt(raw, FoundAt(raw)) \in Nat
           /\ parse(raw) \in Packets
           /\ data_size(parse(raw)) <= SizeAt(raw, FoundAt(raw))
  <1>. DEFINE i == FoundAt(raw)
              n == SizeAt(raw, i)
  <1>1. i \in Deciding(raw) /\ Whole(raw, i)
    <2>. DEFINE m == Least(Deciding(raw))
    <2>1. Deciding(raw) # {} /\ i = m /\ Whole(raw, i)
      BY DEF FoundAt
    <2>2. Deciding(raw) \in SUBSET Nat
      BY DEF Deciding, StartsAt
    <2>3. m \in Deciding(raw)
      BY <2>1, <2>2, LeastIs, Zenon
    <2>. QED  BY <2>1, <2>3
  <1>2. i \in 1..(Len(raw) - 1) /\ Len(raw) \in Nat
    BY <1>1 DEF Deciding, StartsAt
  <1>3. Len(raw) - i + 1 >= 8 /\ n <= Len(raw) - i - 6
    BY <1>1, <1>2 DEF Whole, PACKET_MIN, OVERHEAD
  <1>. HIDE DEF i
  <1>4. n \in Nat
    <2>1. /\ raw[i + 2] \in Byte /\ raw[i + 3] \in Byte
          /\ raw[i + 4] \in Byte /\ raw[i + 5] \in Byte
      BY <1>2, <1>3
    <2>. DEFINE x == raw[i + 2]
                y == raw[i + 3]
                z == raw[i + 4]
                u == raw[i + 5]
    <2>2. n = x + 256 * y + 65536 * z + 16777216 * u
      BY SMT DEF SizeAt
    <2>3. x \in 0..255 /\ y \in 0..255 /\ z \in 0..255 /\ u \in 0..255
      BY <2>1 DEF Byte
    <2>. HIDE DEF n, x, y, z, u
    <2>. QED  BY <2>2, <2>3, SMT
  <1>. HIDE DEF n
  <1>5. DataAt(raw, i) \in Seq(Byte) /\ Len(DataAt(raw, i)) = n
    <2>1. DataAt(raw, i) = SubSeq(raw, i + 6, i + 5 + n)
      BY DEF DataAt, n
    <2>. QED  BY <1>2, <1>3, <1>4, <2>1
  <1>6. parse(raw) = Split(DataAt(raw, i))
    BY DEF parse, i
  <1>7. i \in 1..Len(raw)
    BY <1>2
  <1>. QED  BY <1>4, <1>5, <1>6, <1>7, SplitType DEF i, n

-----------------------------------------------------------------------------
(* A frame anywhere in a buffer is read like one at its front: what parse  *)
(* looks at lies behind the START.                                         *)
From(raw, i) == SubSeq(raw, i, Len(raw))

LEMMA FromBytes ==
    ASSUME NEW raw \in Seq(Byte), NEW i \in 1..Len(raw)
    PROVE  /\ From(raw, i) \in Seq(Byte)
           /\ Len(From(raw, i)) = Len(raw) - i + 1
           /\ \A k \in 1..(Len(raw) - i + 1) : From(raw, i)[k] = raw[i - 1 + k]
  <1>. DEFINE a == i - 1
  <1>1. a \in Nat /\ Len(raw) \in 0..Len(raw) /\ a <= Len(raw) /\ a + 1 = i
        /\ Len(raw) - a = Len(raw) - i + 1
    OBVIOUS
  <1>. HIDE DEF a
  <1>2. /\ SubSeq(raw, a + 1, Len(raw)) \in Seq(Byte)
        /\ Len(SubSeq(raw, a + 1, Len(raw))) = Len(raw) - a
        /\ \A k \in 1..(Len(raw) - a) : SubSeq(raw, a + 1, Len(raw))[k] = raw[a + k]
    BY <1>1, Piece, Zenon
  <1>3. From(raw, i) = SubSeq(raw, a + 1, Len(raw))
    BY <1>1 DEF From
  <1>. QED  BY <1>1, <1>2, <1>3 DEF a

LEMMA FromReads ==
    ASSUME NEW raw \in Seq(Byte), NEW i \in 1..Len(raw), Whole(raw, i)
    PROVE  /\ SizeAt(raw, i) \in Nat
           /\ SizeAt(From(raw, i), 1) = SizeAt(raw, i)
           /\ Whole(From(raw, i), 1)
           /\ DataAt(From(raw, i), 1) = DataAt(raw, i)
           /\ ChecksumOK(From(raw, i), 1) => ChecksumOK(raw, i)
  <1>. DEFINE t == From(raw, i)
              n == SizeAt(raw, i)
              r == Len(raw) - i + 1
  <1>1. /\ t \in Seq(Byte) /\ Len(t) = r
        /\ \A k \in 1..r : t[k] = raw[i - 1 + k]
    BY FromBytes
  <1>2. r \in Nat /\ r >= 8 /\ n <= r - 7
    BY DEF Whole, PACKET_MIN, OVERHEAD
  <1>3. /\ t[3] = raw[i + 2] /\ t[4] = raw[i + 3] /\ t[5] = raw[i + 4] /\ t[6] = raw[i + 5]
        /\ t[3] \in Byte /\ t[4] \in Byte /\ t[5] \in Byte /\ t[6] \in Byte
    BY <1>1, <1>2
  <1>4. SizeAt(t, 1) = n /\ n \in Nat
    <2>. DEFINE x == t[3]
                y == t[4]
                z == t[5]
                u == t[6]
                m == SizeAt(t, 1)
    <2>1. m = x + 256 * y + 65536 * z + 16777216 * u
      BY SMT DEF SizeAt
    <2>2. n = x + 256 * y + 65536 * z + 16777216 * u
      BY <1>3, SMT DEF SizeAt
    <2>3. x \in 0..255 /\ y \in 0..255 /\ z \in 0..255 /\ u \in 0..255
      BY <1>3 DEF Byte
    <2>. HIDE DEF n, x, y, z, u, m
    <2>4. m = n /\ n \in Nat
      BY <2>1, <2>2, <2>3, SMT
    <2>. QED  BY <2>4 DEF m
  <1>5. Whole(t, 1)
    <2>. HIDE DEF t, n, r
    <2>. QED  BY <1>1, <1>2, <1>4 DEF Whole, PACKET_MIN, OVERHEAD
  <1>6. /\ DataAt(t, 1) = SubSeq(t, 7, 6 + n)
        /\ DataAt(raw, i) = SubSeq(raw, i + 6, i + 5 + n)
    <2>. HIDE DEF t
    <2>1. 1 + 6 = 7 /\ 1 + 5 + n = 6 + n
      BY <1>4
    <2>. QED  BY <1>4, <2>1 DEF DataAt
  <1>7. SubSeq(t, 7, 6 + n) = SubSeq(raw, i + 6, i + 5 + n)
    <2>. HIDE DEF t, n, r
    <2>. DEFINE x == SubSeq(t, 7, 6 + n)
                y == SubSeq(raw, i + 6, i + 5 + n)
    <2>1. x \in Seq(Byte) /\ Len(x) = n /\ \A k \in 1..n : x[k] = t[6 + k]
      BY <1>1, <1>2, <1>4
    <2>2. y \in Seq(Byte) /\ Len(y) = n /\ \A k \in 1..n : y[k] = raw[i + 5 + k]
      <3>1. i + 6 \in 1..(Len(raw) + 1) /\ i + 5 + n \in 0..Len(raw) /\ i \in Nat
        BY <1>2, <1>4 DEF r
      <3>. QED  BY <1>4, <3>1
    <2>3. \A k \in 1..n : t[6 + k] = raw[i + 5 + k]
      <3>1. \A k \in 1..n : 6 + k \in 1..r /\ i - 1 + (6 + k) = i + 5 + k
        BY <1>2, <1>4
      <3>. QED  BY <1>1, <3>1
    <2>4. \A k \in 1..n : x[k] = y[k]
      BY <2>1, <2>2, <2>3
    <2>. HIDE DEF x, y
    <2>5. x = y
      BY <2>1, <2>2, <2>4, SameSeq, Zenon
    <2>. QED  BY <2>5 DEF x, y
  <1>8. t[7 + n] = raw[i + 6 + n]
    <2>. HIDE DEF t, n
    <2>. QED  BY <1>1, <1>2, <1>4
  <1>9. ChecksumOK(t, 1) => ChecksumOK(raw, i)
    <2>. HIDE DEF t
    <2>1. 1 + 6 + n = 7 + n
      BY <1>4
    <2>. QED  BY <1>4, <1>6, <1>7, <1>8, <2>1 DEF ChecksumOK
  <1>. QED  BY <1>4, <1>5, <1>6, <1>7, <1>9

(* A frame that is whole in a buffer, wherever it begins there, is read as *)
(* the packet it was made of, and its checksum is right.                   *)
THEOREM FrameReadAnywhere ==
    ASSUME NEW p, Sendable(p), NEW raw \in Seq(Byte), NEW i \in 1..Len(raw),
           Agree(From(raw, i), FrameBody(p)), Whole(raw, i)
    PROVE  /\ ChecksumOK(raw, i)
           /\ Split(DataAt(raw, i)) = p
           /\ Decodable(p.key_str)
           /\ SizeAt(raw, i) = data_size(p)
           /\ Len(FrameBody(p)) <= Len(raw) - i + 1
  <1>. DEFINE t == From(raw, i)
              f == FrameBody(p)
  <1>1. /\ t \in Seq(Byte) /\ Len(t) = Len(raw) - i + 1
    BY FromBytes
  <1>2. /\ SizeAt(raw, i) \in Nat /\ SizeAt(t, 1) = SizeAt(raw, i)
        /\ Whole(t, 1) /\ DataAt(t, 1) = DataAt(raw, i)
        /\ ChecksumOK(t, 1) => ChecksumOK(raw, i)
    BY FromReads, Zenon
  <1>. HIDE DEF t
  <1>3. Len(t) \in Nat /\ Len(t) >= 8 /\ SizeAt(t, 1) <= Len(t) - 7
    BY <1>1, <1>2 DEF Whole, PACKET_MIN, OVERHEAD
  <1>4. SizeAt(t, 1) = data_size(p)
    BY <1>1, <1>3, FrameSize DEF t
  <1>5. p \in Packets /\ data_size(p) \in Nat /\ Len(f) = 7 + data_size(p)
    BY DataType, FrameParts DEF Sendable, OVERHEAD
  <1>6. Len(t) >= Len(f)
    BY <1>3, <1>4, <1>5
  <1>7. FoundAt(t) = 1 /\ parse(t) = p
    BY <1>1, <1>6, ParseReadsFrame DEF t
  <1>8. 1 \in Deciding(t) /\ Decodable(Split(DataAt(t, 1)).key_str)
    <2>. DEFINE m == Least(Deciding(t))
    <2>1. Deciding(t) # {} /\ m = 1 /\ Decodable(Split(DataAt(t, m)).key_str)
      BY <1>7 DEF FoundAt
    <2>2. Deciding(t) \in SUBSET Nat
      BY <1>1 DEF Deciding, StartsAt
    <2>3. m \in Deciding(t)
      BY <2>1, <2>2, LeastIs, Zenon
    <2>. QED  BY <2>1, <2>3
  <1>9. ChecksumOK(t, 1)
    BY <1>2, <1>8, Zenon DEF Deciding
  <1>10. Split(DataAt(t, 1)) = p
    BY <1>7, Zenon DEF parse
  <1>. QED  BY <1>1, <1>2, <1>4, <1>6, <1>8, <1>9, <1>10

-----------------------------------------------------------------------------
(* A stream F of frames: w[m] is the m-th of them, and s[m] bytes of F come *)
(* before it.  START is found where frames begin and nowhere else.         *)
LaidOut(w, F, s) ==
    /\ w \in Seq(Seq(Byte))
    /\ F \in Seq(Byte)
    /\ s \in [1..(Len(w) + 1) -> Nat]
    /\ s[1] = 0
    /\ s[Len(w) + 1] = Len(F)
    /\ \A m \in 1..Len(w) :
           /\ s[m + 1] = s[m] + Len(w[m])
           /\ \A i \in 1..Len(w[m]) : F[s[m] + i] = w[m][i]
    /\ \A j, m \in 1..(Len(w) + 1) : j < m => s[j] < s[m]
    /\ \A x \in StartsAt(F) : \E m \in 1..Len(w) : x = s[m] + 1

(* The stream goes on with a frame v. *)
Longer(s, n, k) == [m \in 1..(n + 2) |-> IF m = n + 2 THEN k ELSE s[m]]

(* No START comes about where two frames meet, as they begin with '#'. *)
LEMMA StartsJoined ==
    ASSUME NEW F \in Seq(Byte), NEW v \in Seq(Byte), Len(v) >= 2, v[1] = 35,
           NEW x \in StartsAt(F \o v)
    PROVE  x \in StartsAt(F) \/ (x - Len(F) \in StartsAt(v))
  <1>. DEFINE G == F \o v
              n == Len(F)
  <1>1. /\ G \in Seq(Byte) /\ Len(G) = n + Len(v)
        /\ \A i \in 1..n : G[i] = F[i]
        /\ \A i \in 1..Len(v) : G[n + i] = v[i]
    BY Joined
  <1>2. n \in Nat /\ Len(v) \in Nat
    OBVIOUS
  <1>. HIDE DEF G
  <1>3. x \in 1..(n + Len(v) - 1) /\ G[x] = 35 /\ G[x + 1] = 36
    BY <1>1 DEF StartsAt, G
  <1>. HIDE DEF n
  <1>4. CASE x < n
    <2>1. F[x] = 35 /\ F[x + 1] = 36 /\ x \in 1..(n - 1)
      BY <1>1, <1>2, <1>3, <1>4
    <2>. QED  BY <2>1 DEF StartsAt, n
  <1>5. CASE x = n
    BY <1>1, <1>2, <1>3, <1>5
  <1>6. CASE x > n
    <2>1. x - n \in 1..(Len(v) - 1) /\ x = n + (x - n) /\ x + 1 = n + (x - n + 1)
          /\ x - n \in 1..Len(v) /\ x - n + 1 \in 1..Len(v)
      BY <1>2, <1>3, <1>6
    <2>2. v[x - n] = 35 /\ v[x - n + 1] = 36
      BY <1>1, <1>3, <2>1
    <2>. QED  BY <2>1, <2>2 DEF StartsAt, n
  <1>. QED  BY <1>2, <1>3, <1>4, <1>5, <1>6

LEMMA LaidOutMore ==
    ASSUME NEW w, NEW F, NEW s, LaidOut(w, F, s),
           NEW v \in Seq(Byte), Len(v) >= 2, v[1] = 35, StartsAt(v) = {1}
    PROVE  LaidOut(Append(w, v), F \o v, Longer(s, Len(w), Len(F) + Len(v)))
  <1>. DEFINE n == Len(w)
              x == Append(w, v)
              G == F \o v
              k == Len(F) + Len(v)
              t == Longer(s, n, k)
  <1>1. /\ w \in Seq(Seq(Byte)) /\ F \in Seq(Byte) /\ s \in [1..(n + 1) -> Nat]
        /\ s[1] = 0 /\ s[n + 1] = Len(F)
        /\ \A m \in 1..n : /\ s[m + 1] = s[m] + Len(w[m])
                           /\ \A i \in 1..Len(w[m]) : F[s[m] + i] = w[m][i]
        /\ \A j, m \in 1..(n + 1) : j < m => s[j] < s[m]
        /\ \A y \in StartsAt(F) : \E m \in 1..n : y = s[m] + 1
    BY Zenon DEF LaidOut
  <1>w. \A m \in 1..n : w[m] \in Seq(Byte) /\ Len(w[m]) \in Nat
    BY <1>1
  <1>2. /\ n \in Nat /\ Len(F) \in Nat /\ Len(v) \in Nat /\ k \in Nat /\ k = Len(F) + Len(v)
        /\ Len(F) < k
    BY <1>1
  <1>3. /\ x \in Seq(Seq(Byte)) /\ Len(x) = n + 1 /\ x[n + 1] = v
        /\ \A m \in 1..n : x[m] = w[m]
    BY <1>1
  <1>4. /\ G \in Seq(Byte) /\ Len(G) = k
        /\ \A i \in 1..Len(F) : G[i] = F[i]
        /\ \A i \in 1..Len(v) : G[Len(F) + i] = v[i]
    BY <1>1, Joined
  <1>. HIDE DEF n, x, G, k
  <1>5. /\ t \in [1..(n + 2) -> Nat] /\ t[n + 2] = k
        /\ \A m \in 1..(n + 1) : t[m] = s[m]
    BY <1>1, <1>2 DEF Longer
  <1>. HIDE DEF t
  <1>6. /\ t \in [1..(Len(x) + 1) -> Nat] /\ t[1] = 0 /\ t[Len(x) + 1] = Len(G)
    BY <1>1, <1>2, <1>3, <1>4, <1>5
  <1>7. ASSUME NEW m \in 1..Len(x)
        PROVE  t[m + 1] = t[m] + Len(x[m]) /\ \A i \in 1..Len(x[m]) : G[t[m] + i] = x[m][i]
    <2>1. CASE m = n + 1
      <3>1. t[m] = Len(F) /\ t[m + 1] = k /\ x[m] = v
        BY <1>1, <1>2, <1>3, <1>5, <2>1
      <3>. QED  BY <1>2, <1>4, <3>1
    <2>2. CASE m # n + 1
      <3>1. m \in 1..n /\ m \in 1..(n + 1) /\ m + 1 \in 1..(n + 1)
        BY <1>2, <1>3, <2>2
      <3>2. t[m] = s[m] /\ t[m + 1] = s[m + 1] /\ x[m] = w[m]
        BY <1>3, <1>5, <3>1
      <3>3. s[m + 1] <= Len(F)
        <4>1. m + 1 = n + 1 \/ m + 1 < n + 1
          BY <1>2, <3>1
        <4>2. n + 1 \in 1..(n + 1) /\ s[m + 1] \in Nat
          BY <1>1, <1>2, <3>1
        <4>. QED  BY <1>1, <1>2, <3>1, <4>1, <4>2
      <3>4. s[m + 1] = s[m] + Len(w[m]) /\ \A i \in 1..Len(w[m]) : F[s[m] + i] = w[m][i]
        BY <1>1, <3>1
      <3>5. s[m] \in Nat /\ Len(w[m]) \in Nat
        BY <1>1, <1>w, <3>1
      <3>6. \A i \in 1..Len(w[m]) : s[m] + i \in 1..Len(F)
        BY <1>2, <3>3, <3>4, <3>5
      <3>7. \A i \in 1..Len(w[m]) : G[s[m] + i] = F[s[m] + i]
        BY <1>4, <3>6
      <3>8. t[m + 1] = t[m] + Len(x[m])
        BY <3>2, <3>4
      <3>9. ASSUME NEW i \in 1..Len(x[m]) PROVE G[t[m] + i] = x[m][i]
        <4>1. i \in 1..Len(w[m])
          BY <3>2
        <4>2. G[s[m] + i] = F[s[m] + i] /\ F[s[m] + i] = w[m][i]
          BY <3>4, <3>7, <4>1
        <4>. QED  BY <3>2, <4>2
      <3>. QED  BY <3>8, <3>9, Zenon
    <2>. QED  BY <2>1, <2>2
  <1>8. ASSUME NEW j \in 1..(Len(x) + 1), NEW m \in 1..(Len(x) + 1), j < m PROVE t[j] < t[m]
    <2>1. j \in 1..(n + 1) /\ t[j] = s[j]
      BY <1>2, <1>3, <1>5, <1>8
    <2>2. CASE m = n + 2
      <3>1. j = n + 1 \/ j < n + 1
        BY <1>2, <2>1
      <3>2. n + 1 \in 1..(n + 1) /\ s[j] \in Nat
        BY <1>1, <1>2, <2>1
      <3>3. s[j] <= Len(F)
        BY <1>1, <1>2, <2>1, <3>1, <3>2
      <3>. QED  BY <1>2, <1>5, <2>1, <2>2, <3>2, <3>3
    <2>3. CASE m # n + 2
      <3>1. m \in 1..(n + 1) /\ t[m] = s[m]
        BY <1>2, <1>3, <1>5, <2>3
      <3>. QED  BY <1>1, <1>8, <2>1, <3>1
    <2>. QED  BY <2>2, <2>3
  <1>9. ASSUME NEW y \in StartsAt(G) PROVE \E m \in 1..Len(x) : y = t[m] + 1
    <2>1. y \in StartsAt(F) \/ y - Len(F) \in StartsAt(v)
      BY <1>1, <1>9, StartsJoined DEF G
    <2>2. CASE y \in StartsAt(F)
      <3>1. PICK m \in 1..n : y = s[m] + 1
        BY <1>1, <2>2
      <3>2. m \in 1..Len(x) /\ t[m] = s[m]
        BY <1>2, <1>3, <1>5
      <3>. QED  BY <3>1, <3>2
    <2>3. CASE y - Len(F) \in StartsAt(v)
      <3>1. y - Len(F) = 1 /\ y \in Int
        <4>1. y - Len(F) \in {1}
          BY <2>3
        <4>2. y \in 1..(Len(G) - 1)
          BY <1>9 DEF StartsAt
        <4>. QED  BY <4>1, <4>2
      <3>2. n + 1 \in 1..Len(x) /\ t[n + 1] = Len(F)
        BY <1>1, <1>2, <1>3, <1>5
      <3>. QED  BY <1>2, <3>1, <3>2
    <2>. QED  BY <2>1, <2>2, <2>3
  <1>10. LaidOut(x, G, t)
    BY <1>3, <1>4, <1>6, <1>7, <1>8, <1>9, Zenon DEF LaidOut
  <1>. QED  BY <1>10 DEF x, G, t, n, k

LEMMA LaidOutType ==
    ASSUME NEW w, NEW F, NEW s, LaidOut(w, F, s)
    PROVE  /\ w \in Seq(Seq(Byte)) /\ Len(w) \in Nat /\ F \in Seq(Byte) /\ Len(F) \in Nat
           /\ \A m \in 1..Len(w) :
                  /\ w[m] \in Seq(Byte) /\ Len(w[m]) \in Nat
                  /\ s[m] \in Nat /\ s[m + 1] \in Nat /\ s[m + 1] <= Len(F)
                  /\ s[m + 1] = s[m] + Len(w[m])
           /\ \A j, m \in 1..Len(w) : j < m => s[j] < s[m]
  <1>. DEFINE n == Len(w)
  <1>1. /\ w \in Seq(Seq(Byte)) /\ F \in Seq(Byte) /\ s \in [1..(n + 1) -> Nat]
        /\ s[n + 1] = Len(F)
        /\ \A m \in 1..n : s[m + 1] = s[m] + Len(w[m])
        /\ \A j, m \in 1..(n + 1) : j < m => s[j] < s[m]
    BY Zenon DEF LaidOut
  <1>2. n \in Nat /\ Len(F) \in Nat /\ \A m \in 1..n : w[m] \in Seq(Byte) /\ Len(w[m]) \in Nat
    BY <1>1
  <1>. HIDE DEF n
  <1>3. /\ \A m \in 1..n : m \in 1..(n + 1) /\ m + 1 \in 1..(n + 1)
        /\ n + 1 \in 1..(n + 1)
    BY <1>2
  <1>4. \A m \in 1..n : s[m] \in Nat /\ s[m + 1] \in Nat
    BY <1>1, <1>3
  <1>5. ASSUME NEW m \in 1..n PROVE s[m + 1] <= Len(F)
    <2>1. m + 1 = n + 1 \/ m + 1 < n + 1
      BY <1>2
    <2>2. CASE m + 1 = n + 1
      BY <1>1, <1>2, <2>2
    <2>3. CASE m + 1 < n + 1
      <3>1. s[m + 1] < s[n + 1]
        BY <1>1, <1>3, <2>3
      <3>. QED  BY <1>1, <1>2, <1>4, <3>1
    <2>. QED  BY <2>1, <2>2, <2>3
  <1>6. \A j, m \in 1..n : j < m => s[j] < s[m]
    BY <1>1, <1>3
  <1>. QED  BY <1>1, <1>2, <1>4, <1>5, <1>6 DEF n

(* The frame of e[m] is at the front of w[m]; what follows it is END. *)
Holds(w, e) ==
    \A m \in 1..Len(w) :
        /\ Sendable(e[m])
        /\ Len(FrameBody(e[m])) <= Len(w[m])
        /\ \A i \in 1..Len(FrameBody(e[m])) : w[m][i] = FrameBody(e[m])[i]

(* The bytes of a stream from behind byte a to byte b. *)
Stretch(F, a, b) == SubSeq(F, a + 1, b)

LEMMA StretchBytes ==
    ASSUME NEW F \in Seq(Byte), NEW b \in 0..Len(F), NEW a \in 0..b
    PROVE  /\ Stretch(F, a, b) \in Seq(Byte)
           /\ Len(Stretch(F, a, b)) = b - a
           /\ \A i \in 1..(b - a) : Stretch(F, a, b)[i] = F[a + i]
  <1>1. a \in Nat /\ a <= b
    OBVIOUS
  <1>. QED  BY <1>1, Piece DEF Stretch

(* The m-th frame begins at the x-th byte of the stretch from a to b. *)
Begins(s, a, b, m, x) == x = s[m] - a + 1 /\ a <= s[m] /\ s[m] < b

(* A buffer that is a piece of the stream, from behind byte a to byte b,   *)
(* holds what there is of the m-th frame.                                  *)
LEMMA FrameInPiece ==
    ASSUME NEW w, NEW F, NEW s, LaidOut(w, F, s), NEW e, Holds(w, e),
           NEW b \in 0..Len(F), NEW a \in 0..b, NEW m \in 1..Len(w),
           NEW x, Begins(s, a, b, m, x)
    PROVE  /\ x \in 1..(b - a)
           /\ (b - a) - x + 1 = b - s[m]
           /\ Agree(From(Stretch(F, a, b), x), FrameBody(e[m]))
  <1>. DEFINE raw == Stretch(F, a, b)
              f == FrameBody(e[m])
              t == From(raw, x)
  <1>1. /\ F \in Seq(Byte) /\ s[m] \in Nat /\ a \in Nat /\ b \in Nat /\ Len(F) \in Nat
        /\ \A i \in 1..Len(w[m]) : F[s[m] + i] = w[m][i]
    <2>1. F \in Seq(Byte) /\ Len(F) \in Nat /\ s[m] \in Nat
      BY LaidOutType
    <2>2. \A i \in 1..Len(w[m]) : F[s[m] + i] = w[m][i]
      BY DEF LaidOut
    <2>. QED  BY <2>1, <2>2
  <1>2. /\ raw \in Seq(Byte) /\ Len(raw) = b - a
        /\ \A i \in 1..(b - a) : raw[i] = F[a + i]
    BY <1>1, StretchBytes
  <1>3. /\ w[m] \in Seq(Byte) /\ Len(w[m]) \in Nat
        /\ f \in Seq(Byte) /\ Len(f) \in Nat /\ Len(f) <= Len(w[m])
        /\ \A i \in 1..Len(f) : w[m][i] = f[i]
    <2>1. w[m] \in Seq(Byte)
      BY DEF LaidOut
    <2>2. e[m] \in Packets /\ Len(f) <= Len(w[m]) /\ \A i \in 1..Len(f) : w[m][i] = f[i]
      BY DEF Holds, Sendable
    <2>3. f \in Seq(Byte)
      BY <2>2, FrameParts
    <2>. QED  BY <2>1, <2>2, <2>3
  <1>. HIDE DEF f
  <1>4. x \in 1..(b - a) /\ (b - a) - x + 1 = b - s[m]
    <2>. DEFINE c == s[m]
    <2>1. a \in Nat /\ b \in Nat /\ c \in Nat /\ a <= c /\ c < b /\ x = c - a + 1
      BY <1>1 DEF Begins
    <2>. HIDE DEF c
    <2>2. x \in 1..(b - a) /\ (b - a) - x + 1 = b - c
      BY <2>1
    <2>. QED  BY <2>2, Zenon DEF c
  <1>5. /\ t \in Seq(Byte) /\ Len(t) = b - s[m]
        /\ \A k \in 1..(b - s[m]) : t[k] = raw[x - 1 + k]
    <2>. HIDE DEF raw
    <2>1. x \in 1..Len(raw) /\ Len(raw) - x + 1 = b - s[m]
      BY <1>2, <1>4, Zenon
    <2>2. /\ From(raw, x) \in Seq(Byte) /\ Len(From(raw, x)) = Len(raw) - x + 1
          /\ \A k \in 1..(Len(raw) - x + 1) : From(raw, x)[k] = raw[x - 1 + k]
      BY <1>2, <2>1, FromBytes, Zenon
    <2>. QED  BY <2>1, <2>2
  <1>. HIDE DEF t
  <1>6. ASSUME NEW k \in 1..Len(t), k <= Len(f) PROVE t[k] = f[k]
    <2>1. k \in 1..(b - s[m]) /\ x - 1 + k \in 1..(b - a) /\ a + (x - 1 + k) = s[m] + k
      <3>. DEFINE c == s[m]
      <3>1. k \in 1..(b - c) /\ x = c - a + 1 /\ a <= c /\ c \in Nat /\ a \in Nat /\ b \in Nat
        BY <1>1, <1>5 DEF Begins
      <3>. HIDE DEF c
      <3>2. k \in 1..(b - c) /\ x - 1 + k \in 1..(b - a) /\ a + (x - 1 + k) = c + k
        BY <3>1
      <3>. QED  BY <3>2, Zenon DEF c
    <2>2. t[k] = F[s[m] + k]
      BY <1>2, <1>5, <2>1
    <2>3. k \in 1..Len(f) /\ k \in 1..Len(w[m])
      BY <1>3, <1>6, <2>1
    <2>. QED  BY <1>1, <1>3, <2>2, <2>3
  <1>7. Agree(t, f)
    BY <1>6 DEF Agree
  <1>. QED  BY <1>4, <1>7 DEF f, t

(* A frame begins in the piece where the piece has a START, and only there. *)
LEMMA StartInPiece ==
    ASSUME NEW w, NEW F, NEW s, LaidOut(w, F, s),
           NEW b \in 0..Len(F), NEW a \in 0..b, NEW x \in StartsAt(Stretch(F, a, b))
    PROVE  \E m \in 1..Len(w) : Begins(s, a, b, m, x) /\ s[m] < b - 1
  <1>. DEFINE raw == Stretch(F, a, b)
  <1>1. /\ F \in Seq(Byte) /\ a \in Nat /\ b \in Nat /\ Len(F) \in Nat /\ b <= Len(F)
        /\ Len(w) \in Nat /\ \A m \in 1..Len(w) : s[m] \in Nat
    BY LaidOutType
  <1>2. /\ raw \in Seq(Byte) /\ Len(raw) = b - a
        /\ \A i \in 1..(b - a) : raw[i] = F[a + i]
    BY <1>1, StretchBytes
  <1>. HIDE DEF raw
  <1>3. x \in 1..(b - a - 1) /\ raw[x] = 35 /\ raw[x + 1] = 36
    BY <1>2 DEF StartsAt, raw
  <1>4. /\ a + x \in 1..(Len(F) - 1) /\ x \in 1..(b - a) /\ x + 1 \in 1..(b - a)
        /\ a + (x + 1) = (a + x) + 1
    BY <1>1, <1>3
  <1>5. F[a + x] = 35 /\ F[(a + x) + 1] = 36
    BY <1>2, <1>3, <1>4
  <1>6. a + x \in StartsAt(F)
    BY <1>4, <1>5 DEF StartsAt
  <1>7. PICK m \in 1..Len(w) : a + x = s[m] + 1
    BY <1>6 DEF LaidOut
  <1>. DEFINE c == s[m]
  <1>8. c \in Nat /\ a + x = c + 1
    BY <1>1, <1>7
  <1>. HIDE DEF c
  <1>9. x = c - a + 1 /\ a <= c /\ c < b - 1
    BY <1>1, <1>3, <1>8
  <1>10. c < b
    BY <1>1, <1>8, <1>9
  <1>. QED  BY <1>9, <1>10, Zenon DEF c, Begins

(* The m-th frame is the first one that begins behind byte a, and it is    *)
(* all there before byte b...                                              *)
FirstWhole(e, s, a, b, m) ==
    /\ a <= s[m]
    /\ s[m] + Len(FrameBody(e[m])) <= b
    /\ \A j \in 1..(m - 1) : s[j] < a

(* ... and parse finds it in the piece. *)
FoundFirst(e, F, s, a, b, m) ==
    /\ parse(Stretch(F, a, b)) = e[m]
    /\ Begins(s, a, b, m, FoundAt(Stretch(F, a, b)))
    /\ FirstWhole(e, s, a, b, m)

(* Whatever parse finds in the piece is such a frame. *)
LEMMA FoundFrame ==
    ASSUME NEW w, NEW F, NEW s, LaidOut(w, F, s), NEW e, Holds(w, e),
           NEW b \in 0..Len(F), NEW a \in 0..b,
           FoundAt(Stretch(F, a, b)) # 0
    PROVE  \E m \in 1..Len(w) : FoundFirst(e, F, s, a, b, m)
  <1>. DEFINE raw == Stretch(F, a, b)
              i == FoundAt(raw)
  <1>1. /\ F \in Seq(Byte) /\ a \in Nat /\ b \in Nat /\ Len(F) \in Nat /\ a <= b
        /\ Len(w) \in Nat /\ \A m \in 1..Len(w) : s[m] \in Nat
        /\ \A j, m \in 1..Len(w) : j < m => s[j] < s[m]
    BY LaidOutType
  <1>2. raw \in Seq(Byte) /\ Len(raw) = b - a
    BY <1>1, StretchBytes
  <1>3. i \in Deciding(raw) /\ Whole(raw, i) /\ \A y \in Deciding(raw) : i <= y
    <2>1. Deciding(raw) # {} /\ i = Least(Deciding(raw)) /\ Whole(raw, i)
      BY DEF FoundAt
    <2>2. Deciding(raw) \in SUBSET Nat
      BY <1>2 DEF Deciding, StartsAt
    <2>. QED  BY <2>1, <2>2, LeastIs
  <1>4. i \in StartsAt(raw)
    BY <1>3 DEF Deciding
  <1>s. \A x \in StartsAt(raw) : \E m \in 1..Len(w) : Begins(s, a, b, m, x)
    BY StartInPiece, Zenon
  <1>b. PICK m \in 1..Len(w) : Begins(s, a, b, m, i)
    BY <1>4, <1>s, Zenon
  <1>5. i = s[m] - a + 1 /\ a <= s[m]
    BY <1>b DEF Begins
  <1>6. s[m] \in Nat /\ s[m] < b
    BY <1>1, <1>b DEF Begins
  <1>p. \A k \in 1..Len(w) : \A x : Begins(s, a, b, k, x) =>
            /\ x \in 1..(b - a)
            /\ (b - a) - x + 1 = b - s[k]
            /\ Agree(From(raw, x), FrameBody(e[k]))
    BY FrameInPiece, Zenon
  <1>7. /\ i \in 1..Len(raw) /\ Len(raw) - i + 1 = b - s[m]
        /\ Agree(From(raw, i), FrameBody(e[m]))
    BY <1>2, <1>b, <1>p, Zenon
  <1>8. Sendable(e[m])
    BY DEF Holds
  <1>9. Split(DataAt(raw, i)) = e[m] /\ Len(FrameBody(e[m])) <= b - s[m]
    BY <1>2, <1>3, <1>7, <1>8, FrameReadAnywhere
  <1>10. parse(raw) = e[m]
    BY <1>9 DEF parse
  <1>11. s[m] + Len(FrameBody(e[m])) <= b
    <2>1. e[m] \in Packets
      BY <1>8 DEF Sendable
    <2>2. FrameBody(e[m]) \in Seq(Byte)
      BY <2>1, FrameParts
    <2>3. Len(FrameBody(e[m])) \in Nat
      BY <2>2
    <2>. QED  BY <1>1, <1>6, <1>9, <2>3
  <1>. HIDE DEF i, raw
  <1>12. ASSUME NEW j \in 1..(m - 1), ~(s[j] < a) PROVE FALSE
    <2>. DEFINE x == s[j] - a + 1
    <2>1. j \in 1..Len(w) /\ s[j] \in Nat /\ s[j] < s[m]
      BY <1>1, <1>12
    <2>2. a <= s[j] /\ s[j] < b
      BY <1>1, <1>6, <1>12, <2>1
    <2>3. x \in 1..Len(raw) /\ Agree(From(raw, x), FrameBody(e[j])) /\ Len(raw) - x + 1 = b - s[j]
      <3>1. Begins(s, a, b, j, x)
        BY <2>2, Zenon DEF Begins
      <3>. QED  BY <1>2, <1>p, <2>1, <3>1, Zenon
    <2>4. Sendable(e[j])
      BY <2>1 DEF Holds
    <2>5. Whole(raw, x) => ChecksumOK(raw, x)
      BY <1>2, <2>3, <2>4, FrameReadAnywhere
    <2>6. x \in Nat /\ i \in Nat /\ x < i /\ x + 1 <= i /\ b - s[j] >= 2 /\ b - s[j] \in Nat
      <3>. DEFINE c == s[j]
                  d == s[m]
      <3>1. c \in Nat /\ d \in Nat /\ c < d /\ d < b /\ a <= c /\ i = d - a + 1
            /\ a \in Nat /\ b \in Nat /\ x = c - a + 1
        BY <1>1, <1>5, <1>6, <2>1, <2>2
      <3>. HIDE DEF c, d, x, i
      <3>2. x \in Nat /\ i \in Nat /\ x < i /\ x + 1 <= i /\ b - c >= 2 /\ b - c \in Nat
        BY <3>1
      <3>. QED  BY <3>2, Zenon DEF c
    <2>7. x \in StartsAt(raw)
      <3>. DEFINE t == From(raw, x)
                  f == FrameBody(e[j])
      <3>1. t \in Seq(Byte) /\ Len(t) = b - s[j] /\ t[1] = raw[x] /\ (Len(t) >= 2 => t[2] = raw[x + 1])
        <4>1. t \in Seq(Byte) /\ Len(t) = b - s[j]
              /\ \A k \in 1..(b - s[j]) : t[k] = raw[x - 1 + k]
          BY <1>2, <2>3, FromBytes
        <4>2. 1 \in 1..(b - s[j]) /\ x - 1 + 1 = x
          <5>. HIDE DEF x
          <5>. QED  BY <2>6
        <4>3. x - 1 + 2 = x + 1 /\ (Len(t) >= 2 => 2 \in 1..(b - s[j]))
          <5>. HIDE DEF x, t
          <5>. QED  BY <2>6, <4>1
        <4>. HIDE DEF t, x
        <4>. QED  BY <4>1, <4>2, <4>3
      <3>2. e[j] \in Packets
        BY <2>4 DEF Sendable
      <3>3. Len(f) >= 7 /\ Len(f) \in Nat /\ f[1] = 35 /\ f[2] = 36
        <4>1. Len(f) = 7 + data_size(e[j]) /\ data_size(e[j]) \in Nat /\ f[1] = 35 /\ f[2] = 36
          BY <3>2, FrameParts, DataType DEF OVERHEAD
        <4>. HIDE DEF f
        <4>. QED  BY <4>1
      <3>4. Len(t) >= 2
        BY <2>6, <3>1, Zenon
      <3>5. t[1] = 35 /\ t[2] = 36
        <4>1. 1 \in 1..Len(t) /\ 2 \in 1..Len(t) /\ 1 <= Len(f) /\ 2 <= Len(f)
          BY <3>1, <3>3, <3>4
        <4>2. Agree(t, f)
          BY <2>3
        <4>. HIDE DEF t, f
        <4>. QED  BY <3>3, <4>1, <4>2 DEF Agree
      <3>6. x \in 1..(Len(raw) - 1)
        BY <1>2, <2>3, <2>6, <1>7
      <3>. HIDE DEF t, x
      <3>. QED  BY <3>1, <3>4, <3>5, <3>6 DEF StartsAt
    <2>8. x \in Deciding(raw)
      BY <2>5, <2>7 DEF Deciding
    <2>9. i <= x
      BY <1>3, <2>8, Zenon DEF i
    <2>. HIDE DEF x
    <2>. QED  BY <2>6, <2>9
  <1>13. \A j \in 1..(m - 1) : s[j] < a
    BY <1>12
  <1>. QED  BY <1>b, <1>5, <1>10, <1>11, <1>13, Zenon DEF i, raw, FoundFirst, FirstWhole

(* The first frame that begins in the piece is found when it is all there. *)
LEMMA FindsFrame ==
    ASSUME NEW w, NEW F, NEW s, LaidOut(w, F, s), NEW e, Holds(w, e),
           NEW b \in 0..Len(F), NEW a \in 0..b, NEW m \in 1..Len(w),
           FirstWhole(e, s, a, b, m), data_size(e[m]) >= 1
    PROVE  FoundFirst(e, F, s, a, b, m) /\ FoundAt(Stretch(F, a, b)) # 0
  <1>. DEFINE raw == Stretch(F, a, b)
              x == s[m] - a + 1
              f == FrameBody(e[m])
              t == From(raw, x)
              n == data_size(e[m])
  <1>1. /\ F \in Seq(Byte) /\ a \in Nat /\ b \in Nat /\ Len(F) \in Nat /\ a <= b
        /\ Len(w) \in Nat /\ \A k \in 1..Len(w) : s[k] \in Nat
        /\ \A j, k \in 1..Len(w) : j < k => s[j] < s[k]
    BY LaidOutType
  <1>0. /\ a <= s[m] /\ s[m] + Len(FrameBody(e[m])) <= b
        /\ \A j \in 1..(m - 1) : s[j] < a
    BY DEF FirstWhole
  <1>2. Sendable(e[m]) /\ e[m] \in Packets
    BY DEF Holds, Sendable
  <1>3. n \in Nat /\ n >= 1 /\ Len(f) = 7 + n /\ f[1] = 35 /\ f[2] = 36
    BY <1>2, FrameParts, DataType DEF OVERHEAD
  <1>4. s[m] + (7 + n) <= b
    BY <1>0, <1>3
  <1>. HIDE DEF n
  <1>5. s[m] < b
    BY <1>1, <1>3, <1>4
  <1>6. /\ raw \in Seq(Byte) /\ Len(raw) = b - a /\ x \in 1..Len(raw)
        /\ Len(raw) - x + 1 = b - s[m] /\ Agree(t, f)
    <2>1. raw \in Seq(Byte) /\ Len(raw) = b - a
      BY <1>1, StretchBytes
    <2>2. /\ x \in 1..(b - a) /\ (b - a) - x + 1 = b - s[m]
          /\ Agree(From(Stretch(F, a, b), x), f)
      <3>1. Begins(s, a, b, m, x)
        BY <1>0, <1>5, Zenon DEF Begins
      <3>2. \A y : Begins(s, a, b, m, y) =>
                /\ y \in 1..(b - a)
                /\ (b - a) - y + 1 = b - s[m]
                /\ Agree(From(Stretch(F, a, b), y), FrameBody(e[m]))
        BY FrameInPiece, Zenon
      <3>. HIDE DEF x
      <3>. QED  BY <3>1, <3>2, Zenon
    <2>. QED  BY <2>1, <2>2, Zenon
  <1>7. /\ t \in Seq(Byte) /\ Len(t) = b - s[m]
        /\ \A k \in 1..(b - s[m]) : t[k] = raw[x - 1 + k]
    BY <1>6, FromBytes
  <1>8. Len(t) >= 7 + n /\ Len(t) >= 8 /\ Len(t) \in Nat
    <2>. DEFINE c == s[m]
    <2>1. c \in Nat /\ b \in Nat /\ Len(t) = b - c /\ c + (7 + n) <= b
      BY <1>1, <1>4, <1>7
    <2>. HIDE DEF c, t
    <2>. QED  BY <1>3, <2>1
  <1>9. SizeAt(t, 1) = n
    BY <1>2, <1>6, <1>7, <1>8, FrameSize DEF n
  <1>10. /\ t[1] = raw[x] /\ t[2] = raw[x + 1] /\ t[3] = raw[x + 2] /\ t[4] = raw[x + 3]
         /\ t[5] = raw[x + 4] /\ t[6] = raw[x + 5]
    <2>1. x \in Nat
      BY <1>6
    <2>2. \A k \in 1..6 : k \in 1..(b - s[m])
      BY <1>7, <1>8
    <2>3. x - 1 + 1 = x /\ x - 1 + 2 = x + 1 /\ x - 1 + 3 = x + 2 /\ x - 1 + 4 = x + 3
          /\ x - 1 + 5 = x + 4 /\ x - 1 + 6 = x + 5
      <3>. HIDE DEF x
      <3>. QED  BY <2>1
    <2>4. 1 \in 1..6 /\ 2 \in 1..6 /\ 3 \in 1..6 /\ 4 \in 1..6 /\ 5 \in 1..6 /\ 6 \in 1..6
      OBVIOUS
    <2>. HIDE DEF t, x
    <2>. QED  BY <1>7, <2>2, <2>3, <2>4
  <1>11. SizeAt(raw, x) = n
    <2>. HIDE DEF t, x
    <2>1. SizeAt(raw, x) = t[3] + 256 * t[4] + 65536 * t[5] + 16777216 * t[6]
      BY <1>10, SMT DEF SizeAt
    <2>2. SizeAt(t, 1) = t[3] + 256 * t[4] + 65536 * t[5] + 16777216 * t[6]
      BY SMT DEF SizeAt
    <2>. QED  BY <1>9, <2>1, <2>2
  <1>12. Whole(raw, x)
    <2>. DEFINE r == Len(raw) - x + 1
    <2>1. r = Len(t)
      BY <1>6, <1>7, Zenon
    <2>2. r >= 8 /\ n <= r - 7
      <3>. HIDE DEF r, t
      <3>. QED  BY <1>3, <1>8, <2>1
    <2>. HIDE DEF x, t
    <2>. QED  BY <1>11, <2>2 DEF Whole, PACKET_MIN, OVERHEAD
  <1>13. /\ ChecksumOK(raw, x) /\ Split(DataAt(raw, x)) = e[m] /\ Decodable(e[m].key_str)
    BY <1>2, <1>6, <1>12, FrameReadAnywhere
  <1>14. x \in Deciding(raw)
    <2>1. t[1] = 35 /\ t[2] = 36
      <3>1. 1 \in 1..Len(t) /\ 2 \in 1..Len(t) /\ 1 <= Len(f) /\ 2 <= Len(f)
        BY <1>3, <1>8
      <3>. HIDE DEF t, f
      <3>. QED  BY <1>3, <1>6, <3>1 DEF Agree
    <2>2. x \in 1..(Len(raw) - 1)
      <3>. HIDE DEF x, t, raw
      <3>1. Len(raw) - x + 1 >= 8 /\ Len(raw) \in Nat /\ x \in 1..Len(raw)
        BY <1>6, <1>7, <1>8
      <3>. QED  BY <3>1
    <2>. HIDE DEF t, x
    <2>3. x \in StartsAt(raw)
      BY <1>10, <2>1, <2>2 DEF StartsAt
    <2>. QED  BY <1>13, <2>3 DEF Deciding
  <1>15. ASSUME NEW y \in Deciding(raw) PROVE x <= y
    <2>1. PICK k \in 1..Len(w) : y = s[k] - a + 1 /\ a <= s[k]
      <3>1. y \in StartsAt(raw)
        BY DEF Deciding
      <3>2. \A z \in StartsAt(raw) : \E k \in 1..Len(w) : Begins(s, a, b, k, z)
        BY StartInPiece, Zenon
      <3>. QED  BY <3>1, <3>2, Zenon DEF Begins
    <2>2. ~(k < m)
      <3>1. k < m => k \in 1..(m - 1)
        OBVIOUS
      <3>2. s[k] \in Nat
        BY <1>1
      <3>. QED  BY <1>0, <1>1, <2>1, <3>1, <3>2
    <2>3. k = m \/ m < k
      BY <2>2
    <2>4. s[m] <= s[k] /\ s[k] \in Nat
      BY <1>1, <2>3
    <2>. QED  BY <1>1, <2>1, <2>4
  <1>. HIDE DEF x
  <1>16. Deciding(raw) \in SUBSET Nat
    BY <1>6 DEF Deciding, StartsAt
  <1>17. Least(Deciding(raw)) = x
    BY <1>14, <1>15, <1>16, LeastOf, Zenon
  <1>18. FoundAt(raw) = x
    BY <1>12, <1>13, <1>14, <1>17 DEF FoundAt
  <1>19. parse(raw) = e[m]
    BY <1>13, <1>18 DEF parse
  <1>20. x # 0
    BY <1>6
  <1>21. Begins(s, a, b, m, x)
    BY <1>0, <1>5, Zenon DEF Begins, x
  <1>. QED  BY <1>18, <1>19, <1>20, <1>21, Zenon DEF raw, FoundFirst

(* Two stretches one after the other, a stretch without its front, and a   *)
(* stretch of a stream that goes on.                                       *)
LEMMA StretchJoin ==
    ASSUME NEW F \in Seq(Byte), NEW c \in 0..Len(F), NEW b \in 0..c, NEW a \in 0..b
    PROVE  Stretch(F, a, b) \o Stretch(F, b, c) = Stretch(F, a, c)
  <1>. DEFINE x == Stretch(F, a, b)
              y == Stretch(F, b, c)
              z == Stretch(F, a, c)
  <1>1. a \in Nat /\ b \in Nat /\ c \in Nat /\ a <= b /\ b <= c /\ b \in 0..Len(F) /\ a \in 0..c
    OBVIOUS
  <1>2. /\ x \in Seq(Byte) /\ Len(x) = b - a /\ \A i \in 1..(b - a) : x[i] = F[a + i]
        /\ y \in Seq(Byte) /\ Len(y) = c - b /\ \A i \in 1..(c - b) : y[i] = F[b + i]
        /\ z \in Seq(Byte) /\ Len(z) = c - a /\ \A i \in 1..(c - a) : z[i] = F[a + i]
    BY <1>1, StretchBytes
  <1>. HIDE DEF x, y, z
  <1>3. /\ x \o y \in Seq(Byte) /\ Len(x \o y) = c - a
        /\ \A i \in 1..(b - a) : (x \o y)[i] = x[i]
        /\ \A i \in 1..(c - b) : (x \o y)[(b - a) + i] = y[i]
    <2>1. /\ x \o y \in Seq(Byte) /\ Len(x \o y) = Len(x) + Len(y)
          /\ \A i \in 1..Len(x) : (x \o y)[i] = x[i]
          /\ \A i \in 1..Len(y) : (x \o y)[Len(x) + i] = y[i]
      <3>1. x \in Seq(Byte) /\ y \in Seq(Byte)
        BY <1>2
      <3>. QED  BY <3>1, Joined
    <2>2. Len(x) = b - a /\ Len(y) = c - b /\ (b - a) + (c - b) = c - a
      BY <1>1, <1>2
    <2>. QED  BY <2>1, <2>2, Zenon
  <1>4. ASSUME NEW i \in 1..(c - a) PROVE (x \o y)[i] = z[i]
    <2>1. CASE i <= b - a
      <3>1. i \in 1..(b - a)
        BY <1>1, <2>1
      <3>. QED  BY <1>2, <1>3, <3>1
    <2>2. CASE ~(i <= b - a)
      <3>. DEFINE j == i - (b - a)
      <3>1. j \in 1..(c - b) /\ (b - a) + j = i /\ b + j = a + i
        BY <1>1, <2>2
      <3>. HIDE DEF j
      <3>2. (x \o y)[(b - a) + j] = y[j] /\ y[j] = F[b + j]
        BY <1>2, <1>3, <3>1, Zenon
      <3>. QED  BY <1>2, <3>1, <3>2, Zenon
    <2>. QED  BY <2>1, <2>2
  <1>5. x \o y = z
    BY <1>2, <1>3, <1>4, SameSeq
  <1>. QED  BY <1>5 DEF x, y, z

LEMMA StretchRest ==
    ASSUME NEW F \in Seq(Byte), NEW b \in 0..Len(F), NEW a \in 0..b, NEW k \in 0..(b - a)
    PROVE  SubSeq(Stretch(F, a, b), k + 1, Len(Stretch(F, a, b))) = Stretch(F, a + k, b)
  <1>. DEFINE x == Stretch(F, a, b)
              y == Stretch(F, a + k, b)
              z == SubSeq(x, k + 1, b - a)
  <1>1. a \in Nat /\ b \in Nat /\ k \in Nat /\ a + k \in 0..b
    OBVIOUS
  <1>2. /\ x \in Seq(Byte) /\ Len(x) = b - a /\ \A i \in 1..(b - a) : x[i] = F[a + i]
        /\ y \in Seq(Byte) /\ Len(y) = b - (a + k)
        /\ \A i \in 1..(b - (a + k)) : y[i] = F[(a + k) + i]
    BY <1>1, StretchBytes
  <1>. HIDE DEF x, y
  <1>3. /\ z \in Seq(Byte) /\ Len(z) = (b - a) - k
        /\ \A i \in 1..((b - a) - k) : z[i] = x[k + i]
    <2>1. b - a \in 0..Len(x) /\ k <= b - a
      BY <1>1, <1>2
    <2>. QED  BY <1>1, <1>2, <2>1, Piece
  <1>. HIDE DEF z
  <1>4. ASSUME NEW i \in 1..((b - a) - k) PROVE z[i] = y[i]
    <2>1. k + i \in 1..(b - a) /\ i \in 1..(b - (a + k)) /\ a + (k + i) = (a + k) + i
      BY <1>1
    <2>. QED  BY <1>2, <1>3, <2>1
  <1>5. (b - a) - k = b - (a + k)
    BY <1>1
  <1>6. z = y
    BY <1>2, <1>3, <1>4, <1>5, SameSeq
  <1>. QED  BY <1>2, <1>6 DEF x, y, z

LEMMA StretchMore ==
    ASSUME NEW F \in Seq(Byte), NEW v \in Seq(Byte), NEW b \in 0..Len(F), NEW a \in 0..b
    PROVE  /\ Stretch(F \o v, a, b) = Stretch(F, a, b)
           /\ Stretch(F, b, Len(F)) \o v = Stretch(F \o v, b, Len(F \o v))
  <1>. DEFINE G == F \o v
              n == Len(F)
              k == Len(v)
  <1>1. /\ G \in Seq(Byte) /\ Len(G) = n + k
        /\ \A i \in 1..n : G[i] = F[i]
        /\ \A i \in 1..k : G[n + i] = v[i]
    BY Joined
  <1>2. n \in Nat /\ k \in Nat /\ a \in Nat /\ b \in Nat /\ a <= b /\ b <= n
    OBVIOUS
  <1>. HIDE DEF G, n
  <1>3. b \in 0..(n + k) /\ n \in 0..(n + k) /\ a \in 0..n /\ b \in 0..n /\ n + k \in 0..(n + k)
    BY <1>2
  <1>p. ASSUME NEW x \in 0..n, NEW y \in 0..x PROVE Stretch(G, y, x) = Stretch(F, y, x)
    <2>. DEFINE r == Stretch(G, y, x)
                t == Stretch(F, y, x)
    <2>1. x \in 0..Len(G) /\ x \in 0..Len(F) /\ x \in Nat /\ y \in Nat /\ y <= x
      BY <1>1, <1>2 DEF n
    <2>2. /\ r \in Seq(Byte) /\ Len(r) = x - y /\ \A i \in 1..(x - y) : r[i] = G[y + i]
          /\ t \in Seq(Byte) /\ Len(t) = x - y /\ \A i \in 1..(x - y) : t[i] = F[y + i]
      BY <1>1, <2>1, StretchBytes
    <2>. HIDE DEF r, t
    <2>3. \A i \in 1..(x - y) : r[i] = t[i]
      <3>. SUFFICES ASSUME NEW i \in 1..(x - y) PROVE r[i] = t[i]
        OBVIOUS
      <3>1. y + i \in 1..n
        BY <1>2, <2>1
      <3>. QED  BY <1>1, <2>2, <3>1
    <2>4. r = t
      BY <2>2, <2>3, SameSeq
    <2>. QED  BY <2>4 DEF r, t
  <1>4. Stretch(G, a, b) = Stretch(F, a, b)
    BY <1>3, <1>p
  <1>5. Stretch(G, n, n + k) = v
    <2>. DEFINE r == Stretch(G, n, n + k)
    <2>1. r \in Seq(Byte) /\ Len(r) = (n + k) - n /\ \A i \in 1..((n + k) - n) : r[i] = G[n + i]
      <3>1. n + k \in 0..Len(G)
        BY <1>1, <1>3
      <3>. QED  BY <1>1, <1>3, <3>1, StretchBytes, Zenon
    <2>2. (n + k) - n = k
      BY <1>2
    <2>. HIDE DEF r
    <2>3. r = v
      BY <1>1, <2>1, <2>2, SameSeq
    <2>. QED  BY <2>3 DEF r
  <1>6. Stretch(G, b, n) \o Stretch(G, n, n + k) = Stretch(G, b, n + k)
    BY <1>1, <1>3, StretchJoin
  <1>7. Stretch(G, b, n) = Stretch(F, b, n)
    BY <1>2, <1>3, <1>p
  <1>. QED  BY <1>1, <1>4, <1>5, <1>6, <1>7, Zenon DEF G, n

(* Where the frames of a stream begin, the end of it included. *)
LEMMA LaidOutMarks ==
    ASSUME NEW w, NEW F, NEW s, LaidOut(w, F, s)
    PROVE  /\ Len(w) \in Nat /\ s[1] = 0 /\ s[Len(w) + 1] = Len(F)
           /\ \A m \in 1..(Len(w) + 1) : s[m] \in Nat
           /\ \A m \in 1..Len(w) : s[m + 1] = s[m] + Len(w[m])
           /\ \A j, m \in 1..(Len(w) + 1) : (s[j] < s[m] <=> j < m) /\ (j <= m => s[j] <= s[m])
  <1>. DEFINE n == Len(w)
  <1>1. /\ w \in Seq(Seq(Byte)) /\ s \in [1..(n + 1) -> Nat]
        /\ s[1] = 0 /\ s[n + 1] = Len(F)
        /\ \A m \in 1..n : s[m + 1] = s[m] + Len(w[m])
        /\ \A j, m \in 1..(n + 1) : j < m => s[j] < s[m]
    BY Zenon DEF LaidOut
  <1>2. n \in Nat
    BY <1>1
  <1>. HIDE DEF n
  <1>3. ASSUME NEW j \in 1..(n + 1), NEW m \in 1..(n + 1)
        PROVE  (s[j] < s[m] <=> j < m) /\ (j <= m => s[j] <= s[m])
    <2>1. s[j] \in Nat /\ s[m] \in Nat
      BY <1>1
    <2>2. j < m => s[j] < s[m]
      BY <1>1
    <2>3. m < j => s[m] < s[j]
      BY <1>1
    <2>. QED  BY <1>2, <2>1, <2>2, <2>3
  <1>. QED  BY <1>1, <1>2, <1>3 DEF n

LEMMA FrameEnds ==
    ASSUME NEW w, NEW F, NEW s, LaidOut(w, F, s), NEW m \in 1..Len(w)
    PROVE  /\ Len(w[m]) \in Nat /\ Len(w[m]) >= 1
           /\ F[s[m] + 1] = w[m][1]
           /\ F[s[m + 1]] = w[m][Len(w[m])]
  <1>1. s[m + 1] = s[m] + Len(w[m]) /\ s[m] \in Nat /\ Len(w[m]) \in Nat
    BY LaidOutType
  <1>2. s[m] < s[m + 1]
    <2>1. Len(w) \in Nat /\ \A j, k \in 1..(Len(w) + 1) : j < k => s[j] < s[k]
      <3>1. Len(w) \in Nat
        BY LaidOutType
      <3>. QED  BY <3>1, Zenon DEF LaidOut
    <2>. DEFINE n == Len(w)
    <2>2. n \in Nat /\ m \in 1..n
      BY <2>1
    <2>. HIDE DEF n
    <2>3. m \in 1..(n + 1) /\ m + 1 \in 1..(n + 1) /\ m < m + 1
      BY <2>2
    <2>. QED  BY <2>1, <2>3, Zenon DEF n
  <1>3. \A i \in 1..Len(w[m]) : F[s[m] + i] = w[m][i]
    BY DEF LaidOut
  <1>4. Len(w[m]) >= 1 /\ 1 \in 1..Len(w[m]) /\ Len(w[m]) \in 1..Len(w[m])
    <2>. DEFINE c == s[m]
                z == Len(w[m])
    <2>1. c \in Nat /\ z \in Nat /\ c < c + z
      BY <1>1, <1>2
    <2>. HIDE DEF c, z
    <2>2. z >= 1 /\ 1 \in 1..z /\ z \in 1..z
      BY <2>1
    <2>. QED  BY <2>2 DEF z
  <1>. QED  BY <1>1, <1>3, <1>4, Zenon
=============================================================================
