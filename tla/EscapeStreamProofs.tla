-------------------------- MODULE EscapeStreamProofs --------------------------
(***************************************************************************)
(* Theorems about the printable encoding, for values of any length made of *)
(* any bytes.  The induction is over the steps of the loops, so that no    *)
(* induction over sequences is needed until the end, where the firmware's  *)
(* decoder is run over a whole value.                                      *)
(***************************************************************************)
EXTENDS EscapeStream, WireFormatProofs

-----------------------------------------------------------------------------
(* The firmware's decoder: an output with room for the bytes of the open   *)
(* escape and the one being read is enough for any of its branches.        *)
LEMMA WithinBounded ==
    ASSUME NEW e \in Decoding, ~e.raised, NEW bytes \in Seq(0..255),
           Len(bytes) <= e.state + 1, NEW room \in Int, e.state + 1 <= room
    PROVE  Bounded(e, EmitWithin(e, bytes, room)) /\ ~EmitWithin(e, bytes, room).raised
  <1>1. Len(bytes) \in Nat /\ e.state \in 0..3
    BY DecodingFields
  <1>2. EmitWithin(e, bytes, room) = Emit(e, bytes)
    BY <1>1 DEF EmitWithin
  <1>3. Emit(e, bytes).raised = e.raised
    BY EmitType
  <1>. QED  BY <1>2, <1>3, EmitBounded

LEMMA ScannedType ==
    ASSUME NEW h \in 0..255, NEW r \in 0..255
    PROVE  Scanned(h, r) \subseteq 0..255
  BY DEF Scanned, IsHex, HexValue

LEMMA FirmwareStep ==
    ASSUME NEW e \in Decoding, ~e.raised, NEW r \in 0..255,
           NEW room \in Int, e.state + 1 <= room,
           NEW n \in FirmwareByte(e, r, room)
    PROVE  Bounded(e, n) /\ ~n.raised
  <1>0. e.state \in 0..3 /\ e.hex_1 \in 0..255
    BY DecodingFields
  <1>1. ASSUME NEW bytes \in Seq(0..255), Len(bytes) <= e.state + 1,
               n = EmitWithin(e, bytes, room)
        PROVE  Bounded(e, n) /\ ~n.raised
    BY <1>1, WithinBounded
  <1>2. ASSUME NEW k \in 0..3, k <= e.state + 1, n = [e EXCEPT !.state = k]
        PROVE  Bounded(e, n) /\ ~n.raised
    <2>1. n.raised = e.raised
      BY <1>2, SetState
    <2>. QED  BY <1>2, <2>1, SetStateBounded
  <1>3. CASE e.state = 0
    <2>1. CASE r = BACKSLASH
      <3>1. n = [e EXCEPT !.state = 1]
        BY <1>3, <2>1 DEF FirmwareByte
      <3>2. 1 \in 0..3 /\ 1 <= e.state + 1
        BY <1>3
      <3>. QED  BY <3>1, <3>2, <1>2
    <2>2. CASE r # BACKSLASH
      <3>1. n = EmitWithin(e, <<r>>, room)
        BY <1>3, <2>2 DEF FirmwareByte
      <3>2. <<r>> \in Seq(0..255) /\ Len(<<r>>) <= e.state + 1
        BY <1>3
      <3>. QED  BY <3>1, <3>2, <1>1
    <2>. QED  BY <2>1, <2>2
  <1>4. CASE e.state = 1
    <2>1. CASE r = BACKSLASH
      <3>1. n = EmitWithin(e, <<BACKSLASH>>, room)
        BY <1>4, <2>1 DEF FirmwareByte, BACKSLASH
      <3>2. <<BACKSLASH>> \in Seq(0..255) /\ Len(<<BACKSLASH>>) <= e.state + 1
        BY <1>4 DEF BACKSLASH
      <3>. QED  BY <3>1, <3>2, <1>1
    <2>2. CASE r \in {88, 120}
      <3>1. n = [e EXCEPT !.state = 2]
        BY <1>4, <2>2 DEF FirmwareByte, BACKSLASH
      <3>2. 2 \in 0..3 /\ 2 <= e.state + 1
        BY <1>4
      <3>. QED  BY <3>1, <3>2, <1>2
    <2>3. CASE r \notin {BACKSLASH, 88, 120}
      <3>1. n = EmitWithin(e, <<BACKSLASH, r>>, room)
        BY <1>4, <2>3 DEF FirmwareByte
      <3>2. <<BACKSLASH, r>> \in Seq(0..255) /\ Len(<<BACKSLASH, r>>) <= e.state + 1
        BY <1>4 DEF BACKSLASH
      <3>. QED  BY <3>1, <3>2, <1>1
    <2>. QED  BY <2>1, <2>2, <2>3
  <1>5. CASE e.state = 2
    <2>1. CASE FirmwareHex(r)
      <3>1. n = TakeDigit(e, r)
        BY <1>5, <2>1 DEF FirmwareByte
      <3>2. n.raised = e.raised
        BY <3>1, TakeDigitType
      <3>. QED  BY <1>5, <3>1, <3>2, TakeDigitBounded
    <2>2. CASE ~FirmwareHex(r)
      <3>1. n = EmitWithin(e, <<BACKSLASH, SMALL_X, r>>, room)
        BY <1>5, <2>2 DEF FirmwareByte
      <3>2. /\ <<BACKSLASH, SMALL_X, r>> \in Seq(0..255)
            /\ Len(<<BACKSLASH, SMALL_X, r>>) <= e.state + 1
        BY <1>5 DEF BACKSLASH, SMALL_X
      <3>. QED  BY <3>1, <3>2, <1>1
    <2>. QED  BY <2>1, <2>2
  <1>6. CASE e.state = 3
    <2>1. CASE ~FirmwareHex(r)
      <3>1. n = EmitWithin(e, <<BACKSLASH, SMALL_X, e.hex_1, r>>, room)
        BY <1>6, <2>1 DEF FirmwareByte
      <3>2. /\ <<BACKSLASH, SMALL_X, e.hex_1, r>> \in Seq(0..255)
            /\ Len(<<BACKSLASH, SMALL_X, e.hex_1, r>>) <= e.state + 1
        BY <1>0, <1>6 DEF BACKSLASH, SMALL_X
      <3>. QED  BY <3>1, <3>2, <1>1
    <2>2. CASE FirmwareHex(r)
      <3>1. PICK b \in Scanned(e.hex_1, r) : n = EmitWithin(e, <<b>>, room)
        BY <1>6, <2>2 DEF FirmwareByte
      <3>2. b \in 0..255
        BY <1>0, <3>1, ScannedType
      <3>3. <<b>> \in Seq(0..255) /\ Len(<<b>>) <= e.state + 1
        BY <1>6, <3>2
      <3>. QED  BY <3>1, <3>3, <1>1
    <2>. QED  BY <2>1, <2>2
  <1>. QED  BY <1>0, <1>3, <1>4, <1>5, <1>6

-----------------------------------------------------------------------------
(* Typing and the bounds on the decoders hold together: the bound of one   *)
(* step needs the length of new_raw to be a number, and the firmware's     *)
(* room is what the bound leaves it.                                       *)
IInv == TypeOK /\ DecodeNeverGrows /\ FirmwareHasRoom

LEMMA InitIInv == Init => IInv
  <1>. SUFFICES ASSUME Init PROVE IInv
    OBVIOUS
  <1>1. DecoderStart \in Decoding
    BY DEF DecoderStart, Decoding
  <1>2. /\ Len(d.new_raw) + d.state <= fed
        /\ Len(firmware.new_raw) + firmware.state <= fed
        /\ ~firmware.raised
    BY DEF Init, DecoderStart
  <1>. QED  BY <1>1, <1>2 DEF Init, IInv, TypeOK, DecodeNeverGrows, FirmwareHasRoom

LEMMA WireType ==
    ASSUME NEW r \in 0..255, NEW encodes \in BOOLEAN
    PROVE  (IF encodes THEN EncodeByte(r) ELSE <<r>>) \in Seq(0..255)
  <1>1. CASE encodes
    BY <1>1, EncodeByteType
  <1>2. CASE ~encodes
    <2>1. <<r>> \in Seq(0..255)
      OBVIOUS
    <2>. QED  BY <1>2, <2>1
  <1>. QED  BY <1>1, <1>2

LEMMA RoomLeft ==
    ASSUME NEW e \in Decoding, fed \in Nat, Len(e.new_raw) + e.state <= fed
    PROVE  Room(e) \in Int /\ e.state + 1 <= Room(e)
  <1>1. Len(e.new_raw) \in Nat /\ e.state \in Int
    BY DecodingFields
  <1>. DEFINE n == Len(e.new_raw)
              k == e.state
  <1>a. n \in Nat /\ k \in Int /\ fed \in Nat /\ n + k <= fed
    BY <1>1
  <1>. HIDE DEF n, k
  <1>b. fed + 1 - n \in Int /\ k + 1 <= fed + 1 - n
    BY <1>a
  <1>2. fed + 1 - Len(e.new_raw) \in Int /\ e.state + 1 <= fed + 1 - Len(e.new_raw)
    BY <1>b DEF n, k
  <1>. QED  BY <1>2 DEF Room

LEMMA StepIInv == IInv /\ [Next]_vars => IInv'
  <1>. SUFFICES ASSUME IInv, [Next]_vars PROVE IInv'
    OBVIOUS
  <1>. USE DEF IInv
  <1>1. CASE WriteOne
    <2>1. PICK r \in Plain :
             /\ raw_bytes' = Append(raw_bytes, r)
             /\ wire' = IF peer_encodes THEN EncodeByte(r) ELSE <<r>>
      BY <1>1 DEF WriteOne
    <2>2. r \in 0..255
      BY PlainAssumption
    <2>3. wire' \in Seq(0..255)
      BY <2>1, <2>2, WireType DEF TypeOK
    <2>4. raw_bytes' \in Seq(0..255)
      BY <2>1, <2>2 DEF TypeOK
    <2>5. TypeOK'
      BY <1>1, <2>3, <2>4 DEF TypeOK, WriteOne
    <2>6. DecodeNeverGrows' /\ FirmwareHasRoom'
      BY <1>1 DEF WriteOne, DecodeNeverGrows, FirmwareHasRoom
    <2>. QED  BY <2>5, <2>6
  <1>2. CASE DecodeOne
    <2>0. d \in Decoding /\ wire \in Seq(0..255) /\ wire # <<>>
      BY <1>2 DEF TypeOK, DecodeOne, Decoding
    <2>a. Head(wire) \in 0..255
      BY <2>0, HeadTailProperties
    <2>b. Tail(wire) \in Seq(0..255)
      BY <2>0
    <2>1. d \in Decoding /\ Head(wire) \in 0..255 /\ Tail(wire) \in Seq(0..255)
      BY <2>0, <2>a, <2>b
    <2>2. d' \in Decoding /\ Len(d'.new_raw) + d'.state <= Len(d.new_raw) + d.state + 1
      <3>1. CASE d.raised
        <4>1. d' = d
          BY <1>2, <3>1 DEF DecodeOne
        <4>. QED  BY <2>1, <4>1, DecodingFields
      <3>2. CASE ~d.raised
        BY <1>2, <2>1, <3>2, DecodeStep DEF DecodeOne, Bounded
      <3>. QED  BY <3>1, <3>2
    <2>3. /\ firmware' \in Decoding
          /\ Len(firmware'.new_raw) + firmware'.state <= Len(firmware.new_raw) + firmware.state + 1
          /\ ~firmware'.raised
      <3>1. firmware \in Decoding /\ ~firmware.raised /\ fed \in Nat
        BY DEF TypeOK, FirmwareHasRoom
      <3>2. Len(firmware.new_raw) \in Nat /\ firmware.state \in 0..3
        BY <3>1, DecodingFields
      <3>b. Len(firmware.new_raw) + firmware.state <= fed
        BY DEF FirmwareHasRoom
      <3>3. Room(firmware) \in Int /\ firmware.state + 1 <= Room(firmware)
        BY <3>1, <3>b, RoomLeft
      <3>4. firmware' \in FirmwareByte(firmware, Head(wire), Room(firmware))
        BY <1>2, <3>1 DEF DecodeOne
      <3>. QED  BY <2>1, <3>1, <3>3, <3>4, FirmwareStep DEF Bounded
    <2>4. TypeOK'
      BY <1>2, <2>1, <2>2, <2>3 DEF TypeOK, DecodeOne
    <2>c. firmware \in Decoding /\ fed \in Nat
      BY DEF TypeOK
    <2>d. \A e \in Decoding : Len(e.new_raw) + e.state \in Int
      BY DecodingFields
    <2>5. /\ Len(d.new_raw) + d.state \in Int
          /\ Len(d'.new_raw) + d'.state \in Int
          /\ Len(firmware.new_raw) + firmware.state \in Int
          /\ Len(firmware'.new_raw) + firmware'.state \in Int
      BY <2>1, <2>2, <2>3, <2>c, <2>d
    <2>6. DecodeNeverGrows'
      BY <1>2, <2>2, <2>5 DEF TypeOK, DecodeNeverGrows, DecodeOne
    <2>7. FirmwareHasRoom'
      BY <1>2, <2>3, <2>5 DEF TypeOK, FirmwareHasRoom, DecodeOne
    <2>. QED  BY <2>4, <2>6, <2>7
  <1>3. CASE UNCHANGED vars
    BY <1>3 DEF vars, TypeOK, DecodeNeverGrows, FirmwareHasRoom
  <1>. QED  BY <1>1, <1>2, <1>3 DEF Next

LEMMA IInvHolds == Spec => []IInv
  BY InitIInv, StepIInv, PTL DEF Spec

(* The decoder's state is one of 0..3 and all it holds and writes are      *)
(* bytes, whatever it reads: bytes(bytearray) never throws on them.        *)
THEOREM TypeCorrect == Spec => []TypeOK
  BY IInvHolds, PTL DEF IInv

(* A decoded value, with the escape that is still open, is never longer    *)
(* than what was read, encoded by a peer or not.                           *)
THEOREM NeverGrows == Spec => []DecodeNeverGrows
  BY IInvHolds, PTL DEF IInv

(* An output as long as the input is enough for the firmware's decoder, on *)
(* any input, whatever sscanf leaves of the digits it does not read.       *)
THEOREM HasRoom == Spec => []FirmwareHasRoom
  BY IInvHolds, PTL DEF IInv

-----------------------------------------------------------------------------
(* Where the decoder stands in the encoding of the byte r that was written *)
(* last: at its beginning, behind a backslash, or inside \xhh.             *)
Pending(r) ==
    \/ d.state = 0 /\ wire = EncodeByte(r)
    \/ d.state = 1 /\ r = BACKSLASH /\ wire = <<BACKSLASH>>
    \/ d.state = 1 /\ ~is_word(r) /\ wire = <<SMALL_X, High(r), Low(r)>>
    \/ d.state = 2 /\ ~is_word(r) /\ wire = <<High(r), Low(r)>>
    \/ d.state = 3 /\ ~is_word(r) /\ d.hex_1 = High(r) /\ wire = <<Low(r)>>

AllRead == wire = <<>> /\ d.state = 0 /\ d.new_raw = raw_bytes
OneBehind ==
    \E r \in 0..255 : raw_bytes = Append(d.new_raw, r) /\ Pending(r)
InStep == peer_encodes => ~d.raised /\ (AllRead \/ OneBehind)

RInv == TypeOK /\ InStep

LEMMA PendingNotEmpty ==
    ASSUME NEW r \in 0..255, Pending(r)
    PROVE  wire # <<>>
  <1>1. CASE wire = EncodeByte(r)
    BY <1>1, EncodeByteType
  <1>2. CASE wire = <<BACKSLASH>>
    BY <1>2
  <1>3. CASE wire = <<SMALL_X, High(r), Low(r)>>
    BY <1>3
  <1>4. CASE wire = <<High(r), Low(r)>>
    BY <1>4
  <1>5. CASE wire = <<Low(r)>>
    BY <1>5
  <1>. QED  BY <1>1, <1>2, <1>3, <1>4, <1>5 DEF Pending

(* One step of the decoder within the encoding of r, case by case. *)
LEMMA LastByteEmitted ==
    ASSUME NEW r \in 0..255, d \in Decoding, ~d.raised,
           raw_bytes = Append(d.new_raw, r),
           d' = Emit(d, <<r>>), wire' = <<>>, raw_bytes' = raw_bytes
    PROVE  ~d'.raised /\ AllRead'
  <1>1. d.new_raw \in Seq(0..255)
    BY DecodingFields
  <1>2. <<r>> \in Seq(0..255)
    OBVIOUS
  <1>3. d.new_raw \o <<r>> = Append(d.new_raw, r)
    BY <1>1
  <1>4. d'.state = 0 /\ d'.new_raw = d.new_raw \o <<r>> /\ d'.raised = d.raised
    BY <1>2, EmitType
  <1>. QED  BY <1>3, <1>4 DEF AllRead

LEMMA PendingStep ==
    ASSUME TypeOK, NEW r \in 0..255, ~d.raised, DecodeOne,
           raw_bytes = Append(d.new_raw, r), Pending(r)
    PROVE  ~d'.raised /\ (AllRead' \/ OneBehind')
  <1>1. d \in Decoding
    BY DEF TypeOK, Decoding
  <1>2. /\ d' = DecodeByte(d, Head(wire))
        /\ wire' = Tail(wire)
        /\ raw_bytes' = raw_bytes
    BY Zenon DEF DecodeOne
  <1>3. CASE d.state = 0 /\ wire = EncodeByte(r)
    <2>1. CASE /\ ~is_word(r)
               /\ EncodeByte(r) = <<BACKSLASH, SMALL_X, High(r), Low(r)>>
      <3>1. Head(wire) = BACKSLASH /\ wire' = <<SMALL_X, High(r), Low(r)>>
        BY <1>2, <1>3, <2>1
      <3>2. d' = [d EXCEPT !.state = 1]
        BY <1>2, <1>3, <3>1 DEF DecodeByte
      <3>3. d'.state = 1 /\ d'.new_raw = d.new_raw /\ d'.raised = d.raised
        <4>1. 1 \in 0..3
          OBVIOUS
        <4>. QED  BY <1>1, <3>2, <4>1, SetState, Zenon
      <3>. QED  BY <1>2, <2>1, <3>1, <3>3, Zenon DEF OneBehind, Pending
    <2>2. CASE r = BACKSLASH /\ EncodeByte(r) = <<BACKSLASH, BACKSLASH>>
      <3>1. Head(wire) = BACKSLASH /\ wire' = <<BACKSLASH>>
        BY <1>2, <1>3, <2>2
      <3>2. d' = [d EXCEPT !.state = 1]
        BY <1>2, <1>3, <3>1 DEF DecodeByte
      <3>3. d'.state = 1 /\ d'.new_raw = d.new_raw /\ d'.raised = d.raised
        <4>1. 1 \in 0..3
          OBVIOUS
        <4>. QED  BY <1>1, <3>2, <4>1, SetState, Zenon
      <3>. QED  BY <1>2, <2>2, <3>1, <3>3, Zenon DEF OneBehind, Pending
    <2>3. CASE r # BACKSLASH /\ EncodeByte(r) = <<r>>
      <3>1. Head(wire) = r /\ wire' = <<>>
        BY <1>2, <1>3, <2>3
      <3>2. d' = Emit(d, <<r>>)
        BY <1>2, <1>3, <2>3, <3>1 DEF DecodeByte
      <3>. QED  BY <1>1, <1>2, <3>1, <3>2, LastByteEmitted, Zenon
    <2>. QED  BY <2>1, <2>2, <2>3, EncodeByteCases DEF High, Low
  <1>4. CASE d.state = 1 /\ r = BACKSLASH /\ wire = <<BACKSLASH>>
    <2>1. Head(wire) = r /\ wire' = <<>>
      BY <1>2, <1>4
    <2>2. d' = Emit(d, <<r>>)
      BY <1>2, <1>4, <2>1 DEF DecodeByte, BACKSLASH
    <2>. QED  BY <1>1, <1>2, <2>1, <2>2, LastByteEmitted, Zenon
  <1>5. CASE d.state = 1 /\ ~is_word(r) /\ wire = <<SMALL_X, High(r), Low(r)>>
    <2>1. Head(wire) = SMALL_X /\ wire' = <<High(r), Low(r)>>
      BY <1>2, <1>5
    <2>2. d' = [d EXCEPT !.state = 2]
      BY <1>2, <1>5, <2>1 DEF DecodeByte, BACKSLASH, SMALL_X
    <2>3. d'.state = 2 /\ d'.new_raw = d.new_raw /\ d'.raised = d.raised
      <3>1. 2 \in 0..3
        OBVIOUS
      <3>. QED  BY <1>1, <2>2, <3>1, SetState, Zenon
    <2>. QED  BY <1>2, <1>5, <2>1, <2>3, Zenon DEF OneBehind, Pending
  <1>6. CASE d.state = 2 /\ ~is_word(r) /\ wire = <<High(r), Low(r)>>
    <2>1. Head(wire) = High(r) /\ wire' = <<Low(r)>>
      BY <1>2, <1>6
    <2>2. High(r) \in 0..255 /\ TakenAsHex(High(r))
      BY DigitsRead, Zenon
    <2>3. d' = TakeDigit(d, High(r))
      BY <1>2, <1>6, <2>1, <2>2 DEF DecodeByte
    <2>4. /\ d'.state = 3 /\ d'.hex_1 = High(r)
          /\ d'.new_raw = d.new_raw /\ d'.raised = d.raised
      BY <1>1, <2>2, <2>3, TakeDigitType, Zenon
    <2>. QED  BY <1>2, <1>6, <2>1, <2>4, Zenon DEF OneBehind, Pending
  <1>7. CASE d.state = 3 /\ ~is_word(r) /\ d.hex_1 = High(r) /\ wire = <<Low(r)>>
    <2>1. Head(wire) = Low(r) /\ wire' = <<>>
      BY <1>2, <1>7
    <2>a. /\ d.state = 3 /\ d.hex_1 = High(r)
          /\ TakenAsHex(Low(r)) /\ IsHex(d.hex_1) /\ IsHex(Low(r))
      BY <1>7, DigitsRead, Zenon
    <2>b. DecodeByte(d, Low(r)) = Emit(d, <<16 * HexValue(d.hex_1) + HexValue(Low(r))>>)
      BY <2>a DEF DecodeByte
    <2>2. 16 * HexValue(d.hex_1) + HexValue(Low(r)) = r
      BY <2>a, DigitsRead, Zenon
    <2>3. d' = Emit(d, <<r>>)
      BY <1>2, <2>1, <2>b, <2>2
    <2>. QED  BY <1>1, <1>2, <2>1, <2>3, LastByteEmitted, Zenon
  <1>. QED  BY <1>3, <1>4, <1>5, <1>6, <1>7 DEF Pending

LEMMA InitRInv == Init => RInv
  <1>. SUFFICES ASSUME Init PROVE RInv
    OBVIOUS
  <1>1. TypeOK
    BY InitIInv DEF IInv
  <1>2. InStep
    BY DEF Init, InStep, AllRead, DecoderStart
  <1>. QED  BY <1>1, <1>2 DEF RInv

LEMMA StepRInv == RInv /\ TypeOK' /\ [Next]_vars => RInv'
  <1>. SUFFICES ASSUME TypeOK, InStep, [Next]_vars, peer_encodes
                PROVE  peer_encodes' => ~d'.raised /\ (AllRead' \/ OneBehind')
    BY DEF RInv, InStep, Next, vars, WriteOne, DecodeOne
  <1>1. CASE WriteOne
    <2>1. PICK r \in Plain :
             /\ raw_bytes' = Append(raw_bytes, r)
             /\ wire' = EncodeByte(r)
      BY <1>1 DEF WriteOne
    <2>2. r \in 0..255
      BY PlainAssumption
    <2>3. AllRead
      BY <1>1, PendingNotEmpty, Zenon DEF WriteOne, InStep, OneBehind
    <2>4. d' = d
      BY <1>1 DEF WriteOne
    <2>5. ~d'.raised /\ OneBehind'
      BY <2>1, <2>2, <2>3, <2>4, Zenon DEF InStep, AllRead, OneBehind, Pending
    <2>. QED  BY <2>5
  <1>2. CASE DecodeOne
    <2>1. OneBehind /\ ~d.raised
      BY <1>2 DEF DecodeOne, InStep, AllRead
    <2>. QED  BY <1>2, <2>1, PendingStep, Zenon DEF OneBehind
  <1>3. CASE UNCHANGED vars
    <2>1. d' = d /\ wire' = wire /\ raw_bytes' = raw_bytes
      BY <1>3 DEF vars
    <2>. QED  BY <2>1, Zenon DEF InStep, AllRead, OneBehind, Pending
  <1>. QED  BY <1>1, <1>2, <1>3 DEF Next

(* Whatever bytes a value is made of and however long it is, the decoder   *)
(* returns it unchanged from its encoding and never throws on it.          *)
THEOREM RoundTripCorrect == Spec => []RoundTrip
  <1>1. RInv => RoundTrip
    BY PendingNotEmpty, Zenon DEF RInv, InStep, AllRead, OneBehind, RoundTrip
  <1>. QED  BY <1>1, InitRInv, StepRInv, TypeCorrect, PTL DEF Spec

-----------------------------------------------------------------------------
(* Where both read the digits of an escape an encoder wrote, or no escape, *)
(* the firmware's decoder has one outcome, and it is the other one's.      *)
LEMMA WithinIsEmit ==
    ASSUME NEW e \in Decoding, NEW bytes, Len(bytes) = 1,
           NEW room \in Int, e.state + 1 <= room
    PROVE  EmitWithin(e, bytes, room) = Emit(e, bytes)
  <1>1. e.state \in 0..3
    BY DecodingFields
  <1>. QED  BY <1>1 DEF EmitWithin

LEMMA AgreeStep ==
    ASSUME NEW e \in Decoding, NEW r \in 0..255, NEW room \in Int, e.state + 1 <= room,
           e.state = 1 => r \in {BACKSLASH, SMALL_X},
           e.state = 2 => IsHex(r),
           e.state = 3 => IsHex(e.hex_1) /\ IsHex(r)
    PROVE  FirmwareByte(e, r, room) = {DecodeByte(e, r)}
  <1>0. e.state \in 0..3
    BY DecodingFields
  <1>1. IsHex(r) => TakenAsHex(r) /\ FirmwareHex(r)
    BY DEF IsHex, TakenAsHex, FirmwareHex
  <1>2. CASE e.state = 0
    <2>1. CASE r = BACKSLASH
      BY <1>2, <2>1 DEF FirmwareByte, DecodeByte
    <2>2. CASE r # BACKSLASH
      <3>1. EmitWithin(e, <<r>>, room) = Emit(e, <<r>>)
        BY WithinIsEmit
      <3>. QED  BY <1>2, <2>2, <3>1 DEF FirmwareByte, DecodeByte
    <2>. QED  BY <2>1, <2>2
  <1>3. CASE e.state = 1
    <2>1. CASE r = BACKSLASH
      <3>1. EmitWithin(e, <<BACKSLASH>>, room) = Emit(e, <<BACKSLASH>>)
        BY WithinIsEmit
      <3>. QED  BY <1>3, <2>1, <3>1 DEF FirmwareByte, DecodeByte, BACKSLASH
    <2>2. CASE r = SMALL_X
      BY <1>3, <2>2 DEF FirmwareByte, DecodeByte, BACKSLASH, SMALL_X
    <2>. QED  BY <1>3, <2>1, <2>2
  <1>4. CASE e.state = 2
    BY <1>1, <1>4 DEF FirmwareByte, DecodeByte
  <1>5. CASE e.state = 3
    <2>1. Scanned(e.hex_1, r) = {16 * HexValue(e.hex_1) + HexValue(r)}
      BY <1>5 DEF Scanned
    <2>2. EmitWithin(e, <<16 * HexValue(e.hex_1) + HexValue(r)>>, room)
            = Emit(e, <<16 * HexValue(e.hex_1) + HexValue(r)>>)
      BY WithinIsEmit
    <2>3. DecodeByte(e, r) = Emit(e, <<16 * HexValue(e.hex_1) + HexValue(r)>>)
      BY <1>1, <1>5 DEF DecodeByte
    <2>4. FirmwareByte(e, r, room)
            = {EmitWithin(e, <<b>>, room) : b \in {16 * HexValue(e.hex_1) + HexValue(r)}}
      BY <1>1, <1>5, <2>1 DEF FirmwareByte
    <2>. QED  BY <2>2, <2>3, <2>4
  <1>. QED  BY <1>0, <1>2, <1>3, <1>4, <1>5

(* The next byte of an encoding, as the state of the decoder asks for it.  *)
LEMMA PendingHead ==
    ASSUME NEW r \in 0..255, Pending(r)
    PROVE  /\ d.state = 1 => Head(wire) \in {BACKSLASH, SMALL_X}
           /\ d.state = 2 => IsHex(Head(wire))
           /\ d.state = 3 => IsHex(d.hex_1) /\ IsHex(Head(wire))
  <1>1. IsHex(High(r)) /\ IsHex(Low(r))
    BY DigitsRead
  <1>2. CASE d.state = 0
    BY <1>2
  <1>3. CASE d.state = 1 /\ wire = <<BACKSLASH>>
    BY <1>3
  <1>4. CASE d.state = 1 /\ wire = <<SMALL_X, High(r), Low(r)>>
    BY <1>4
  <1>5. CASE d.state = 2 /\ wire = <<High(r), Low(r)>>
    BY <1>1, <1>5
  <1>6. CASE d.state = 3 /\ d.hex_1 = High(r) /\ wire = <<Low(r)>>
    BY <1>1, <1>6
  <1>. QED  BY <1>2, <1>3, <1>4, <1>5, <1>6 DEF Pending

(* The firmware reads every encoded value as a Python endpoint does, of    *)
(* whatever bytes and however long.                                        *)
THEOREM FirmwareAgreement == Spec => []FirmwareAgrees
  <1>1. Init => FirmwareAgrees
    BY DEF Init, FirmwareAgrees
  <1>2. IInv /\ RInv /\ FirmwareAgrees /\ [Next]_vars => FirmwareAgrees'
    <2>. SUFFICES ASSUME IInv, RInv, FirmwareAgrees, [Next]_vars, peer_encodes'
                  PROVE  firmware' = d'
      BY DEF FirmwareAgrees
    <2>1. peer_encodes /\ firmware = d
      BY DEF Next, vars, WriteOne, DecodeOne, FirmwareAgrees
    <2>2. CASE DecodeOne
      <3>1. OneBehind /\ ~d.raised
        BY <2>1, <2>2 DEF DecodeOne, RInv, InStep, AllRead
      <3>2. PICK r \in 0..255 : Pending(r)
        BY <3>1 DEF OneBehind
      <3>3. /\ d \in Decoding /\ fed \in Nat
            /\ wire \in Seq(0..255) /\ wire # <<>>
        BY <2>2 DEF IInv, TypeOK, DecodeOne
      <3>4. Head(wire) \in 0..255
        BY <3>3, HeadTailProperties
      <3>5. Room(d) \in Int /\ d.state + 1 <= Room(d)
        BY <3>3, RoomLeft DEF IInv, DecodeNeverGrows
      <3>6. FirmwareByte(d, Head(wire), Room(d)) = {DecodeByte(d, Head(wire))}
        BY <3>2, <3>3, <3>4, <3>5, PendingHead, AgreeStep
      <3>7. d' = DecodeByte(d, Head(wire))
        BY <2>2, <3>1, Zenon DEF DecodeOne
      <3>8. firmware' \in FirmwareByte(d, Head(wire), Room(d))
        BY <2>1, <2>2, <3>1, Zenon DEF DecodeOne
      <3>. QED  BY <3>6, <3>7, <3>8
    <2>3. CASE WriteOne \/ UNCHANGED vars
      BY <2>1, <2>3 DEF WriteOne, vars
    <2>. QED  BY <2>2, <2>3 DEF Next
  <1>. QED  BY <1>1, <1>2, InitRInv, StepRInv, TypeCorrect, IInvHolds, PTL DEF Spec

-----------------------------------------------------------------------------
PrintableInv == peer_encodes => wire \in Seq(32..126)

(* Only printable characters are ever written between two endpoints with   *)
(* -e, whatever the value.                                                 *)
THEOREM PrintableCorrect == Spec => []WireIsPrintable
  <1>1. Init => PrintableInv
    BY DEF Init, PrintableInv
  <1>2. PrintableInv /\ [Next]_vars => PrintableInv'
    <2>. SUFFICES ASSUME PrintableInv, [Next]_vars, peer_encodes' PROVE wire' \in Seq(32..126)
      BY DEF PrintableInv
    <2>0. peer_encodes
      BY DEF Next, vars, WriteOne, DecodeOne
    <2>1. CASE WriteOne
      <3>1. PICK r \in Plain : wire' = EncodeByte(r)
        BY <2>0, <2>1 DEF WriteOne
      <3>2. r \in 0..255
        BY PlainAssumption
      <3>3. EncodeByte(r) \in Seq(32..126)
        BY <3>2, EncodeByteType
      <3>. QED  BY <3>1, <3>3
    <2>2. CASE DecodeOne
      <3>1. wire \in Seq(32..126) /\ wire # <<>>
        BY <2>0, <2>2 DEF DecodeOne, PrintableInv
      <3>2. Tail(wire) \in Seq(32..126)
        BY <3>1
      <3>. QED  BY <2>2, <3>2 DEF DecodeOne
    <2>3. CASE UNCHANGED vars
      BY <2>0, <2>3 DEF vars, PrintableInv
    <2>. QED  BY <2>1, <2>2, <2>3 DEF Next
  <1>3. PrintableInv => WireIsPrintable
    <2>. SUFFICES ASSUME PrintableInv, peer_encodes, NEW k \in DOMAIN wire
                  PROVE  wire[k] \in 32..126
      BY DEF WireIsPrintable
    <2>1. wire \in Seq(32..126)
      BY DEF PrintableInv
    <2>2. k \in 1..Len(wire)
      BY <2>1
    <2>. QED  BY <2>1, <2>2, ElementOfSeq
  <1>. QED  BY <1>1, <1>2, <1>3, PTL DEF Spec

-----------------------------------------------------------------------------
(* The loop of the firmware's bytes_decode over a whole value.             *)
LEMMA WithinType ==
    ASSUME NEW e \in Decoding, NEW bytes \in Seq(0..255), NEW room \in Int
    PROVE  EmitWithin(e, bytes, room) \in Decoding
  <1>1. Emit(e, bytes) \in Decoding
    BY EmitType
  <1>2. [e EXCEPT !.raised = TRUE] \in Decoding
    BY SetRaised
  <1>. QED  BY <1>1, <1>2, Zenon DEF EmitWithin

LEMMA FirmwareByteType ==
    ASSUME NEW e \in Decoding, NEW r \in 0..255, NEW room \in Int
    PROVE  FirmwareByte(e, r, room) \subseteq Decoding
  <1>. SUFFICES ASSUME NEW n \in FirmwareByte(e, r, room) PROVE n \in Decoding
    BY Zenon
  <1>0. e.state \in 0..3 /\ e.hex_1 \in 0..255
    BY DecodingFields
  <1>1. ASSUME NEW bytes \in Seq(0..255), n = EmitWithin(e, bytes, room)
        PROVE  n \in Decoding
    BY <1>1, WithinType
  <1>2. ASSUME NEW k \in 0..3, n = [e EXCEPT !.state = k] PROVE n \in Decoding
    BY <1>2, SetState
  <1>b. BACKSLASH \in 0..255 /\ SMALL_X \in 0..255
    BY DEF BACKSLASH, SMALL_X
  <1>3. CASE e.state = 0
    <2>1. CASE r = BACKSLASH
      <3>1. n = [e EXCEPT !.state = 1]
        BY <1>3, <2>1 DEF FirmwareByte
      <3>. QED  BY <3>1, <1>2
    <2>2. CASE r # BACKSLASH
      <3>1. n = EmitWithin(e, <<r>>, room)
        BY <1>3, <2>2 DEF FirmwareByte
      <3>2. <<r>> \in Seq(0..255)
        BY <1>0, <1>b
      <3>. QED  BY <3>1, <3>2, <1>1
    <2>. QED  BY <2>1, <2>2
  <1>4. CASE e.state = 1
    <2>1. CASE r = BACKSLASH
      <3>1. n = EmitWithin(e, <<BACKSLASH>>, room)
        BY <1>4, <2>1 DEF FirmwareByte, BACKSLASH
      <3>2. <<BACKSLASH>> \in Seq(0..255)
        BY <1>0, <1>b
      <3>. QED  BY <3>1, <3>2, <1>1
    <2>2. CASE r \in {88, 120}
      <3>1. n = [e EXCEPT !.state = 2]
        BY <1>4, <2>2 DEF FirmwareByte, BACKSLASH
      <3>. QED  BY <3>1, <1>2
    <2>3. CASE r \notin {BACKSLASH, 88, 120}
      <3>1. n = EmitWithin(e, <<BACKSLASH, r>>, room)
        BY <1>4, <2>3 DEF FirmwareByte
      <3>2. <<BACKSLASH, r>> \in Seq(0..255)
        BY <1>0, <1>b
      <3>. QED  BY <3>1, <3>2, <1>1
    <2>. QED  BY <2>1, <2>2, <2>3
  <1>5. CASE e.state = 2
    <2>1. CASE FirmwareHex(r)
      <3>1. n = TakeDigit(e, r)
        BY <1>5, <2>1 DEF FirmwareByte
      <3>. QED  BY <3>1, TakeDigitType
    <2>2. CASE ~FirmwareHex(r)
      <3>1. n = EmitWithin(e, <<BACKSLASH, SMALL_X, r>>, room)
        BY <1>5, <2>2 DEF FirmwareByte
      <3>2. <<BACKSLASH, SMALL_X, r>> \in Seq(0..255)
        BY <1>0, <1>b
      <3>. QED  BY <3>1, <3>2, <1>1
    <2>. QED  BY <2>1, <2>2
  <1>6. CASE e.state = 3
    <2>1. CASE ~FirmwareHex(r)
      <3>1. n = EmitWithin(e, <<BACKSLASH, SMALL_X, e.hex_1, r>>, room)
        BY <1>6, <2>1 DEF FirmwareByte
      <3>2. <<BACKSLASH, SMALL_X, e.hex_1, r>> \in Seq(0..255)
        BY <1>0, <1>b
      <3>. QED  BY <3>1, <3>2, <1>1
    <2>2. CASE FirmwareHex(r)
      <3>1. PICK b \in Scanned(e.hex_1, r) : n = EmitWithin(e, <<b>>, room)
        BY <1>6, <2>2 DEF FirmwareByte
      <3>2. b \in 0..255
        BY <1>0, <3>1, ScannedType
      <3>3. <<b>> \in Seq(0..255)
        BY <3>2
      <3>. QED  BY <3>1, <3>3, <1>1
    <2>. QED  BY <2>1, <2>2
  <1>. QED  BY <1>0, <1>3, <1>4, <1>5, <1>6

(* What one byte makes of the outcomes so far. *)
FirmwareNext(D, r, room) ==
    UNION {IF e.raised THEN {e} ELSE FirmwareByte(e, r, room - Len(e.new_raw)) : e \in D}

FirmwareRun(f, raw, room) ==
    /\ f \in [0..Len(raw) -> SUBSET Decoding]
    /\ f[0] = {DecoderStart}
    /\ \A i \in 1..Len(raw) : f[i] = FirmwareNext(f[i - 1], raw[i], room)

LEMMA FirmwareNextType ==
    ASSUME NEW D \in SUBSET Decoding, NEW r \in Byte, NEW room \in Nat
    PROVE  FirmwareNext(D, r, room) \in SUBSET Decoding
  <1>. SUFFICES ASSUME NEW e \in D, ~e.raised
                PROVE  FirmwareByte(e, r, room - Len(e.new_raw)) \subseteq Decoding
    BY Zenon DEF FirmwareNext
  <1>1. e \in Decoding /\ r \in 0..255
    BY DEF Byte
  <1>2. Len(e.new_raw) \in Nat
    BY <1>1, DecodingFields
  <1>3. room - Len(e.new_raw) \in Int
    BY <1>2
  <1>. QED  BY <1>1, <1>3, FirmwareByteType, Zenon

LEMMA FirmwareRuns ==
    ASSUME NEW raw \in Seq(Byte), NEW room \in Nat
    PROVE  \E f : FirmwareRun(f, raw, room) /\ FirmwareDecoders(raw, room) = f[Len(raw)]
  <1>. DEFINE n == Len(raw)
              V == SUBSET Decoding
              F == [i \in 1..n |-> [D \in V |-> FirmwareNext(D, raw[i], room)]]
              Loop(f) == f = [i \in 0..n |->
                                IF i = 0 THEN {DecoderStart}
                                ELSE UNION {IF e.raised THEN {e}
                                            ELSE FirmwareByte(e, raw[i], room - Len(e.new_raw))
                                              : e \in f[i - 1]}]
  <1>1. n \in Nat /\ \A i \in 1..n : raw[i] \in Byte
    OBVIOUS
  <1>2. \A i \in 1..n, D \in V : FirmwareNext(D, raw[i], room) \in V
    BY <1>1, FirmwareNextType, Zenon
  <1>3. FirmwareDecoders(raw, room) = (CHOOSE f : Loop(f))[n]
    BY Zenon DEF FirmwareDecoders
  <1>. HIDE DEF n, V
  <1>4. F \in Steps(V, n)
    BY <1>2 DEF Steps
  <1>5. \A i \in 1..n, D \in V : F[i][D] = FirmwareNext(D, raw[i], room)
    OBVIOUS
  <1>. HIDE DEF F
  <1>s. {DecoderStart} \in V
    BY DecoderStartType DEF V
  <1>6. PICK g : Follows(g, V, {DecoderStart}, n, F)
    BY <1>1, <1>4, <1>s, RecursionExists, Zenon
  <1>7. /\ 0 \in 0..n
        /\ \A i \in 1..n : i - 1 \in 0..n /\ i \in 0..n /\ i # 0
        /\ \A i \in 0..n : i = 0 \/ i \in 1..n
    BY <1>1
  <1>8. \A i \in 1..n : g[i] = FirmwareNext(g[i - 1], raw[i], room)
    BY <1>5, <1>6, <1>7 DEF Follows
  <1>9. Loop(g)
    <2>1. \A i \in 0..n : g[i] = IF i = 0 THEN {DecoderStart}
                                 ELSE FirmwareNext(g[i - 1], raw[i], room)
      BY <1>6, <1>7, <1>8, Zenon DEF Follows
    <2>2. g = [i \in 0..n |-> g[i]]
      BY <1>6 DEF Follows
    <2>. QED  BY <2>1, <2>2, Zenon DEF FirmwareNext
  <1>10. PICK f : Loop(f) /\ FirmwareDecoders(raw, room) = f[n]
    BY <1>3, <1>9, Zenon
  <1>11. \A i \in 0..n : f[i] = IF i = 0 THEN {DecoderStart}
                                ELSE FirmwareNext(f[i - 1], raw[i], room)
    BY <1>10, Zenon DEF FirmwareNext
  <1>12. f[0] = {DecoderStart} /\ \A i \in 1..n : f[i] = FirmwareNext(f[i - 1], raw[i], room)
    BY <1>7, <1>11, Zenon
  <1>13. \A i \in 0..n : f[i] = g[i]
    <2>1. \A i \in 1..n : f[i - 1] = g[i - 1] => f[i] = g[i]
      BY <1>8, <1>12, Zenon
    <2>2. f[0] = g[0]
      BY <1>6, <1>12, Zenon DEF Follows
    <2>3. n \in Nat
      BY <1>1
    <2>4. \A a, h : a[0] = h[0] /\ (\A i \in 1..n : a[i - 1] = h[i - 1] => a[i] = h[i])
                   => \A i \in 0..n : a[i] = h[i]
      BY <2>3, RecursionUnique, Zenon
    <2>. QED  BY <2>1, <2>2, <2>4, Zenon
  <1>14. f \in [0..n -> V]
    <2>1. \A i \in 0..n : f[i] \in V
      BY <1>6, <1>13 DEF Follows
    <2>2. f = [i \in 0..n |-> f[i]]
      BY <1>10, Zenon
    <2>. QED  BY <2>1, <2>2
  <1>. QED  BY <1>10, <1>12, <1>14, Zenon DEF FirmwareRun, n, V

(* An output as long as the input is enough for every value: the decoder   *)
(* does not give up, whatever it reads and whatever sscanf leaves, and     *)
(* what it writes is bytes and not more than it read.                      *)
THEOREM FirmwareFinishes ==
    ASSUME NEW raw \in Seq(Byte), NEW room \in Nat, Len(raw) <= room,
           NEW e \in FirmwareDecoders(raw, room)
    PROVE  e \in Decoding /\ ~e.raised /\ Len(e.new_raw) + e.state <= Len(raw)
  <1>. DEFINE n == Len(raw)
              Fits(x, i) == x \in Decoding /\ ~x.raised /\ Len(x.new_raw) + x.state <= i
  <1>1. n \in Nat /\ n <= room /\ \A i \in 1..n : raw[i] \in 0..255
    <2>1. \A i \in 1..n : raw[i] \in Byte
      OBVIOUS
    <2>2. n \in Nat
      OBVIOUS
    <2>. HIDE DEF n
    <2>. QED  BY <2>1, <2>2 DEF Byte, n
  <1>. HIDE DEF n
  <1>2. PICK f : FirmwareRun(f, raw, room) /\ FirmwareDecoders(raw, room) = f[n]
    BY FirmwareRuns, Zenon DEF n
  <1>3. f[0] = {DecoderStart} /\ \A i \in 1..n : f[i] = FirmwareNext(f[i - 1], raw[i], room)
    BY <1>2, Zenon DEF FirmwareRun, n
  <1>. DEFINE T == {i \in 0..n : \A x \in f[i] : Fits(x, i)}
  <1>4. 0 \in T
    <2>1. Fits(DecoderStart, 0)
      BY DecoderStartType DEF DecoderStart
    <2>2. 0 \in 0..n
      BY <1>1
    <2>. HIDE DEF Fits
    <2>. QED  BY <1>3, <2>1, <2>2, Zenon
  <1>5. \A i \in 1..n : i - 1 \in T => i \in T
    <2>. SUFFICES ASSUME NEW i \in 1..n, i - 1 \in T, NEW y \in f[i] PROVE Fits(y, i)
      <3>1. \A i \in 1..n : i \in 0..n
        BY <1>1
      <3>. HIDE DEF Fits
      <3>. QED  BY <3>1, Zenon
    <2>1. y \in FirmwareNext(f[i - 1], raw[i], room)
      BY <1>3, Zenon
    <2>2. PICK x \in f[i - 1] :
             y \in IF x.raised THEN {x} ELSE FirmwareByte(x, raw[i], room - Len(x.new_raw))
      BY <2>1, Zenon DEF FirmwareNext
    <2>3. x \in Decoding /\ ~x.raised /\ Len(x.new_raw) + x.state <= i - 1
      BY <2>2, Zenon
    <2>4. /\ raw[i] \in 0..255 /\ i \in Int /\ i <= room
          /\ Len(x.new_raw) \in Nat /\ x.state \in 0..3
      BY <1>1, <2>3, DecodingFields
    <2>. DEFINE left == room - Len(x.new_raw)
    <2>5. left \in Int /\ x.state + 1 <= left
      <3>. DEFINE a == Len(x.new_raw)
                  k == x.state
      <3>1. a \in Nat /\ k \in 0..3 /\ a + k <= i - 1
        BY <2>3, <2>4
      <3>. HIDE DEF a, k
      <3>2. room - a \in Int /\ k + 1 <= room - a
        BY <2>4, <3>1
      <3>. QED  BY <3>2 DEF a, k
    <2>6. y \in FirmwareByte(x, raw[i], left)
      BY <2>2, <2>3
    <2>. HIDE DEF left
    <2>7. Bounded(x, y) /\ ~y.raised
      BY <2>3, <2>4, <2>5, <2>6, FirmwareStep, Zenon
    <2>8. y \in Decoding /\ Len(y.new_raw) + y.state <= Len(x.new_raw) + x.state + 1
      BY <2>7 DEF Bounded
    <2>9. Len(y.new_raw) + y.state <= i
      <3>. DEFINE a == Len(x.new_raw)
                  k == x.state
                  b == Len(y.new_raw)
                  m == y.state
      <3>1. b \in Nat /\ m \in 0..3
        BY <2>8, DecodingFields, Zenon
      <3>2. a \in Nat /\ k \in 0..3 /\ a + k <= i - 1 /\ b + m <= a + k + 1
        BY <2>3, <2>4, <2>8, Zenon
      <3>. HIDE DEF a, b, k, m
      <3>3. b + m <= i
        BY <2>4, <3>1, <3>2
      <3>. QED  BY <3>3 DEF b, m
    <2>. QED  BY <2>7, <2>8, <2>9
  <1>. HIDE DEF T
  <1>6. \A i \in 0..n : i \in T
    BY <1>1, <1>4, <1>5, IntervalInduction, Zenon
  <1>7. n \in T
    BY <1>1, <1>6
  <1>8. Fits(e, n)
    BY <1>2, <1>7, Zenon DEF T
  <1>. QED  BY <1>8, Zenon DEF n

LEMMA FirmwareEmpty ==
    ASSUME NEW room \in Nat
    PROVE  FirmwareDecoders(<<>>, room) = {DecoderStart}
  <1>1. <<>> \in Seq(Byte) /\ Len(<<>>) = 0
    OBVIOUS
  <1>. QED  BY <1>1, FirmwareRuns, Zenon DEF FirmwareRun

LEMMA FirmwareAppend ==
    ASSUME NEW raw \in Seq(Byte), NEW r \in Byte, NEW room \in Nat
    PROVE  FirmwareDecoders(Append(raw, r), room)
             = FirmwareNext(FirmwareDecoders(raw, room), r, room)
  <1>. DEFINE n == Len(raw)
              more == Append(raw, r)
  <1>1. /\ n \in Nat /\ more \in Seq(Byte) /\ Len(more) = n + 1
        /\ more[n + 1] = r /\ \A i \in 1..n : more[i] = raw[i]
    OBVIOUS
  <1>. HIDE DEF n, more
  <1>2. PICK f : FirmwareRun(f, raw, room) /\ FirmwareDecoders(raw, room) = f[n]
    BY FirmwareRuns, Zenon DEF n
  <1>3. PICK h : FirmwareRun(h, more, room) /\ FirmwareDecoders(more, room) = h[n + 1]
    BY <1>1, FirmwareRuns, Zenon
  <1>4. /\ f[0] = {DecoderStart} /\ h[0] = {DecoderStart}
        /\ \A i \in 1..n : f[i] = FirmwareNext(f[i - 1], raw[i], room)
        /\ \A i \in 1..(n + 1) : h[i] = FirmwareNext(h[i - 1], more[i], room)
    BY <1>1, <1>2, <1>3, Zenon DEF FirmwareRun, n
  <1>5. \A i \in 1..n : f[i - 1] = h[i - 1] => f[i] = h[i]
    BY <1>1, <1>4
  <1>6. \A i \in 0..n : f[i] = h[i]
    <2>1. f[0] = h[0]
      BY <1>4
    <2>2. n \in Nat
      BY <1>1
    <2>3. \A a, g :
             a[0] = g[0] /\ (\A i \in 1..n : a[i - 1] = g[i - 1] => a[i] = g[i])
               => \A i \in 0..n : a[i] = g[i]
      BY <2>2, RecursionUnique, Zenon
    <2>. QED  BY <1>5, <2>1, <2>3, Zenon
  <1>7. n \in 0..n /\ n + 1 \in 1..(n + 1) /\ (n + 1) - 1 = n
    BY <1>1
  <1>8. h[n + 1] = FirmwareNext(h[n], r, room)
    BY <1>1, <1>4, <1>7
  <1>9. f[n] = h[n]
    BY <1>6, <1>7
  <1>. QED  BY <1>2, <1>3, <1>8, <1>9 DEF more

(* The two decoders have read s alike: the firmware's has one outcome.     *)
Alike(s, room) == FirmwareDecoders(s, room) = {Decoder(s)}

(* They go on alike where AgreeStep says so. *)
LEMMA AlikeStep ==
    ASSUME NEW s \in Seq(Byte), NEW r \in Byte, NEW room \in Nat, Len(s) + 1 <= room,
           Alike(s, room), ~Decoder(s).raised,
           Decoder(s).state = 1 => r \in {BACKSLASH, SMALL_X},
           Decoder(s).state = 2 => IsHex(r),
           Decoder(s).state = 3 => IsHex(Decoder(s).hex_1) /\ IsHex(r)
    PROVE  /\ Append(s, r) \in Seq(Byte) /\ Len(Append(s, r)) = Len(s) + 1
           /\ Decoder(Append(s, r)) = DecodeByte(Decoder(s), r)
           /\ Alike(Append(s, r), room)
  <1>. DEFINE x == Decoder(s)
              left == room - Len(x.new_raw)
  <1>1. x \in Decoding /\ Len(x.new_raw) + x.state <= Len(s) /\ r \in 0..255
    BY DecoderBounded DEF Byte
  <1>2. /\ Append(s, r) \in Seq(Byte) /\ Len(Append(s, r)) = Len(s) + 1 /\ Len(s) \in Nat
    OBVIOUS
  <1>3. Decoder(Append(s, r)) = DecodeByte(x, r)
    BY DecoderAppend, Zenon DEF DecodeNext
  <1>4. left \in Int /\ x.state + 1 <= left
    <2>. DEFINE a == Len(x.new_raw)
                k == x.state
    <2>1. a \in Nat /\ k \in 0..3 /\ a + k <= Len(s)
      BY <1>1, DecodingFields, Zenon
    <2>. HIDE DEF a, k
    <2>2. room - a \in Int /\ k + 1 <= room - a
      BY <1>2, <2>1
    <2>. QED  BY <2>2 DEF a, k
  <1>5. FirmwareDecoders(Append(s, r), room) = FirmwareNext({x}, r, room)
    BY FirmwareAppend, Zenon DEF Alike
  <1>6. FirmwareNext({x}, r, room) = FirmwareByte(x, r, left)
    <2>1. ~x.raised
      OBVIOUS
    <2>. HIDE DEF x
    <2>. QED  BY <2>1 DEF FirmwareNext
  <1>7. FirmwareByte(x, r, left) = {DecodeByte(x, r)}
    <2>1. /\ x.state = 1 => r \in {BACKSLASH, SMALL_X}
          /\ x.state = 2 => IsHex(r)
          /\ x.state = 3 => IsHex(x.hex_1) /\ IsHex(r)
      OBVIOUS
    <2>. HIDE DEF x, left
    <2>. QED  BY <1>1, <1>4, <2>1, AgreeStep, Zenon
  <1>. QED  BY <1>2, <1>3, <1>5, <1>6, <1>7, Zenon DEF Alike

(* Both read the encoding of one byte alike. *)
LEMMA ReadAlike ==
    ASSUME NEW s \in Seq(Byte), NEW r \in Byte, NEW room \in Nat,
           Ready(Decoder(s)), Alike(s, room), Len(s \o EncodeByte(r)) <= room
    PROVE  Alike(s \o EncodeByte(r), room)
  <1>. DEFINE x == Decoder(s)
  <1>1. x \in Decoding /\ x.state = 0 /\ ~x.raised
    BY Zenon DEF Ready
  <1>2. BACKSLASH \in Byte /\ SMALL_X \in Byte /\ r \in 0..255 /\ Len(s) \in Nat
    BY DEF BACKSLASH, SMALL_X, Byte
  <1>3. CASE EncodeByte(r) = <<r>>
    <2>1. s \o EncodeByte(r) = Append(s, r) /\ Len(s) + 1 <= room
      BY <1>2, <1>3
    <2>2. Alike(Append(s, r), room)
      BY <1>1, <2>1, AlikeStep
    <2>. QED  BY <2>1, <2>2, Zenon
  <1>. DEFINE s1 == Append(s, BACKSLASH)
              x1 == Decoder(s1)
  <1>4. ASSUME Len(s) + 1 <= room
        PROVE  /\ s1 \in Seq(Byte) /\ Len(s1) = Len(s) + 1 /\ Alike(s1, room)
               /\ x1 \in Decoding /\ x1.state = 1 /\ ~x1.raised
    <2>1. s1 \in Seq(Byte) /\ Len(s1) = Len(s) + 1 /\ Alike(s1, room) /\ x1 = DecodeByte(x, BACKSLASH)
      BY <1>1, <1>2, <1>4, AlikeStep
    <2>2. x1 = [x EXCEPT !.state = 1]
      BY <1>1, <2>1 DEF DecodeByte
    <2>3. 1 \in 0..3
      OBVIOUS
    <2>. HIDE DEF s1, x1, x
    <2>4. x1 \in Decoding /\ x1.state = 1 /\ ~x1.raised
      <3>1. x \in Decoding /\ ~x.raised
        BY <1>1
      <3>. QED  BY <2>2, <2>3, <3>1, SetState, Zenon
    <2>. QED  BY <2>1, <2>4, Zenon
  <1>. HIDE DEF x, s1, x1
  <1>5. CASE r = BACKSLASH /\ EncodeByte(r) = <<BACKSLASH, BACKSLASH>>
    <2>1. s \o EncodeByte(r) = Append(s1, r) /\ Len(s) + 1 <= room /\ (Len(s) + 1) + 1 <= room
      BY <1>2, <1>5 DEF s1
    <2>2. Alike(Append(s1, r), room)
      BY <1>4, <1>5, <2>1, AlikeStep DEF x1
    <2>. QED  BY <2>1, <2>2, Zenon
  <1>6. CASE EncodeByte(r) = <<BACKSLASH, SMALL_X, HexDigit(r \div 16), HexDigit(r % 16)>>
    <2>. DEFINE h == High(r)
                l == Low(r)
                s2 == Append(s1, SMALL_X)
                x2 == Decoder(s2)
                s3 == Append(s2, h)
                x3 == Decoder(s3)
    <2>1. h \in 0..255 /\ l \in 0..255 /\ TakenAsHex(h) /\ IsHex(h) /\ IsHex(l)
      BY <1>2, DigitsRead, ZenonT(30)
    <2>2. EncodeByte(r) = <<BACKSLASH, SMALL_X, h, l>>
      BY <1>6, Zenon DEF High, Low
    <2>. HIDE DEF h, l
    <2>b. h \in Byte /\ l \in Byte
      BY <2>1 DEF Byte
    <2>3. /\ s \o EncodeByte(r) = Append(s3, l)
          /\ Len(s) + 1 <= room /\ (Len(s) + 1) + 1 <= room
          /\ ((Len(s) + 1) + 1) + 1 <= room /\ (((Len(s) + 1) + 1) + 1) + 1 <= room
      <3>. DEFINE t == <<BACKSLASH, SMALL_X, h, l>>
      <3>1. s \o t = Append(s3, l)
        <4>1. Append(Append(Append(Append(s, BACKSLASH), SMALL_X), h), l)
                = s \o <<BACKSLASH, SMALL_X, h, l>>
          <5>1. h \in Byte /\ l \in Byte /\ BACKSLASH \in Byte /\ SMALL_X \in Byte
            BY <2>b, <1>2
          <5>. HIDE DEF t, s2, x2, s3, x3
          <5>. QED  BY <5>1, AppendFour
        <4>. QED  BY <4>1, Zenon DEF s1
      <3>2. t \in Seq(Byte) /\ Len(t) = 4
        BY <2>b, <1>2
      <3>. HIDE DEF t
      <3>3. Len(s \o t) = Len(s) + 4 /\ Len(s \o t) <= room
        BY <2>2, <3>2 DEF t
      <3>4. Len(s) + 4 <= room
        BY <3>3, Zenon
      <3>5. /\ Len(s) + 1 <= room /\ (Len(s) + 1) + 1 <= room
            /\ ((Len(s) + 1) + 1) + 1 <= room /\ (((Len(s) + 1) + 1) + 1) + 1 <= room
        <4>. DEFINE k == Len(s)
        <4>1. k \in Nat /\ k + 4 <= room
          BY <1>2, <3>4
        <4>. HIDE DEF k
        <4>2. /\ k + 1 <= room /\ (k + 1) + 1 <= room
              /\ ((k + 1) + 1) + 1 <= room /\ (((k + 1) + 1) + 1) + 1 <= room
          BY <4>1
        <4>. QED  BY <4>2 DEF k
      <3>. QED  BY <2>2, <3>1, <3>5, Zenon DEF t
    <2>4. /\ s1 \in Seq(Byte) /\ Len(s1) = Len(s) + 1 /\ Alike(s1, room)
          /\ x1 \in Decoding /\ x1.state = 1 /\ ~x1.raised
      BY <1>4, <2>3
    <2>5. /\ s2 \in Seq(Byte) /\ Len(s2) = Len(s1) + 1 /\ Alike(s2, room)
          /\ x2 = DecodeByte(x1, SMALL_X)
      <3>1. /\ Len(s1) + 1 <= room /\ SMALL_X \in {BACKSLASH, SMALL_X}
            /\ ~(x1.state = 2) /\ ~(x1.state = 3)
        BY <2>3, <2>4
      <3>. QED  BY <1>2, <2>4, <3>1, AlikeStep, Zenon DEF x1
    <2>6. x2 = [x1 EXCEPT !.state = 2]
      BY <2>4, <2>5 DEF DecodeByte, SMALL_X, BACKSLASH
    <2>. HIDE DEF s2, x2
    <2>7. x2 \in Decoding /\ x2.state = 2 /\ ~x2.raised
      <3>1. 2 \in 0..3
        OBVIOUS
      <3>. QED  BY <2>4, <2>6, <3>1, SetState, Zenon
    <2>8. /\ s3 \in Seq(Byte) /\ Len(s3) = Len(s2) + 1 /\ Alike(s3, room)
          /\ x3 = DecodeByte(x2, h)
      BY <2>1, <2>b, <2>3, <2>4, <2>5, <2>7, AlikeStep DEF x2
    <2>9. x3 = TakeDigit(x2, h)
      BY <2>1, <2>7, <2>8 DEF DecodeByte
    <2>. HIDE DEF s3, x3
    <2>10. x3.state = 3 /\ x3.hex_1 = h /\ ~x3.raised
      <3>1. ~x2.raised /\ x2 \in Decoding /\ h \in 0..255
        BY <2>1, <2>7
      <3>2. /\ TakeDigit(x2, h).state = 3 /\ TakeDigit(x2, h).hex_1 = h
            /\ TakeDigit(x2, h).raised = x2.raised
        BY <3>1, TakeDigitType
      <3>. QED  BY <2>9, <3>1, <3>2
    <2>11. Alike(Append(s3, l), room)
      BY <2>1, <2>b, <2>3, <2>4, <2>5, <2>8, <2>10, AlikeStep DEF x3
    <2>. QED  BY <2>3, <2>11, Zenon
  <1>. QED  BY <1>2, <1>3, <1>5, <1>6, EncodeByteCases, Zenon

(* The firmware reads back every value, of any length and any bytes, from  *)
(* what an encoder made of it, into an output no longer than its input:    *)
(* sscanf is only ever given two digits, so that there is one outcome.     *)
THEOREM FirmwareUndoesEncode ==
    ASSUME NEW v \in Seq(Byte), NEW room \in Nat, Len(bytes_encode(v)) <= room,
           NEW e \in FirmwareDecoders(bytes_encode(v), room)
    PROVE  e.new_raw = v /\ ~e.raised
  <1>. DEFINE n == Len(v)
  <1>1. n \in Nat /\ \A i \in 1..n : v[i] \in Byte
    OBVIOUS
  <1>. HIDE DEF n
  <1>2. PICK f : EncodeRun(f, v) /\ bytes_encode(v) = f[n]
    BY EncodeRuns, Zenon DEF n
  <1>3. /\ f[0] = <<>>
        /\ \A i \in 1..n : f[i] = f[i - 1] \o EncodeByte(v[i])
        /\ \A i \in 0..n : f[i] \in Seq(Byte)
    BY <1>2 DEF EncodeRun, n
  <1>. DEFINE T == {i \in 0..n : Len(f[i]) <= room => Ready(Decoder(f[i])) /\ Alike(f[i], room)}
  <1>4. 0 \in T
    <2>1. Ready(DecoderStart)
      BY DecoderStartType DEF Ready, DecoderStart
    <2>2. Ready(Decoder(f[0])) /\ Alike(f[0], room)
      BY <1>3, <2>1, DecoderEmpty, FirmwareEmpty, Zenon DEF Alike
    <2>3. 0 \in 0..n
      BY <1>1
    <2>. QED  BY <2>2, <2>3, Zenon
  <1>5. \A i \in 1..n : i - 1 \in T => i \in T
    <2>. SUFFICES ASSUME NEW i \in 1..n, i - 1 \in T, Len(f[i]) <= room
                  PROVE  Ready(Decoder(f[i])) /\ Alike(f[i], room)
      <3>1. \A i \in 1..n : i \in 0..n
        BY <1>1
      <3>. QED  BY <3>1, Zenon
    <2>1. i \in 0..n /\ i - 1 \in 0..n
      BY <1>1
    <2>2. v[i] \in Byte /\ f[i - 1] \in Seq(Byte) /\ f[i] = f[i - 1] \o EncodeByte(v[i])
      BY <1>1, <1>3, <2>1
    <2>3. Len(f[i - 1]) <= room
      <3>1. EncodeByte(v[i]) \in Seq(Byte)
        BY <2>2, EncodeByteBytes
      <3>. DEFINE a == f[i - 1]
                  b == EncodeByte(v[i])
      <3>2. a \in Seq(Byte) /\ b \in Seq(Byte) /\ Len(a \o b) <= room
        BY <2>2, <3>1
      <3>. HIDE DEF a, b
      <3>3. Len(a) <= room
        BY <3>2
      <3>. QED  BY <3>3 DEF a
    <2>4. Ready(Decoder(f[i - 1])) /\ Alike(f[i - 1], room)
      BY <2>3, Zenon
    <2>5. Ready(Decoder(f[i]))
      BY <2>2, <2>4, ReadEncoded, Zenon
    <2>6. Alike(f[i], room)
      BY <2>2, <2>4, ReadAlike, Zenon
    <2>. QED  BY <2>5, <2>6
  <1>. HIDE DEF T
  <1>6. \A i \in 0..n : i \in T
    BY <1>1, <1>4, <1>5, IntervalInduction, Zenon
  <1>7. n \in T
    BY <1>1, <1>6
  <1>8. Alike(bytes_encode(v), room)
    BY <1>2, <1>7, Zenon DEF T
  <1>9. e = Decoder(bytes_encode(v))
    BY <1>8, Zenon DEF Alike
  <1>. QED  BY <1>9, DecodeUndoesEncode, Zenon DEF bytes_decode, DecodeRaises
=============================================================================
