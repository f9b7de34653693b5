----------------------------- MODULE WuartEscape -----------------------------
(***************************************************************************)
(* The printable encoding of values used when both endpoints run with -e:  *)
(* Packet.bytes_encode, Packet.bytes_decode and Packet.is_word, and the    *)
(* decoder of the firmware, bytes_decode of wuart_utils.c.  Its encoder    *)
(* writes what the Python one writes, as long as its output has room.      *)
(***************************************************************************)
EXTENDS Integers, Sequences

(* Definitions named X_y are X with the defect y: what the code would be   *)
(* if it were wrong there.  They show that the properties notice it, and   *)
(* nothing else uses them.                                                 *)

BACKSLASH == 92
SMALL_X == 120

is_word_withDEL(char) == char \in 32..127
is_word(char) == char \in 32..126

(* One lower case hexadecimal digit, as "%02x" prints it. *)
HexDigit(n) == IF n < 10 THEN 48 + n ELSE 87 + n

EncodeByte_bareBackslash(r) ==
    IF is_word(r) THEN <<r>> ELSE <<BACKSLASH, SMALL_X, HexDigit(r \div 16), HexDigit(r % 16)>>

(* What one input byte becomes in the encoded value. *)
EncodeByte(r) ==
    IF ~is_word(r) THEN <<BACKSLASH, SMALL_X, HexDigit(r \div 16), HexDigit(r % 16)>>
    ELSE IF r = BACKSLASH THEN <<BACKSLASH, BACKSLASH>>
    ELSE <<r>>

bytes_encode(raw) ==
    LET enc[i \in 0..Len(raw)] == IF i = 0 THEN <<>> ELSE enc[i - 1] \o EncodeByte(raw[i])
    IN  enc[Len(raw)]

-----------------------------------------------------------------------------
(* The decoder's local variables: state 0 normal, 1 after a backslash,     *)
(* 2 after \x, 3 after \x and one digit.  "raised" is set when             *)
(* bytes.fromhex throws.                                                   *)
Decoding == [state : 0..3, hex_1 : 0..255, new_raw : Seq(0..255), raised : BOOLEAN]
DecoderStart == [state |-> 0, hex_1 |-> 0, new_raw |-> <<>>, raised |-> FALSE]

(* The bytes states 2 and 3 accept: 0x30-0x3f, a-h and A-H. *)
TakenAsHex(r) == r \in (48..63) \union (97..104) \union (65..72)

(* The digits bytes.fromhex accepts among them. *)
IsHex(r) == r \in (48..57) \union (97..102) \union (65..70)
HexValue_digitsOnly(r) == r - 48
HexValue(r) == IF r <= 57 THEN r - 48 ELSE IF r <= 70 THEN r - 55 ELSE r - 87

Emit_keepsState(d, bytes) == [d EXCEPT !.new_raw = @ \o bytes]
Emit(d, bytes) ==
    [state |-> 0, hex_1 |-> d.hex_1, new_raw |-> d.new_raw \o bytes, raised |-> d.raised]
TakeDigit(d, r) ==
    [state |-> 3, hex_1 |-> r, new_raw |-> d.new_raw, raised |-> d.raised]

(* One iteration of the loop of bytes_decode. *)
DecodeByte(d, r) ==
    CASE d.state = 1 /\ r = BACKSLASH -> Emit(d, <<BACKSLASH>>)
      [] d.state = 1 /\ r \in {88, 120} -> [d EXCEPT !.state = 2]
      [] d.state = 1 /\ r \notin {BACKSLASH, 88, 120} -> Emit(d, <<BACKSLASH, r>>)
      [] d.state = 2 /\ TakenAsHex(r) -> TakeDigit(d, r)
      [] d.state = 2 /\ ~TakenAsHex(r) -> Emit(d, <<BACKSLASH, SMALL_X, r>>)
      [] d.state = 3 /\ ~TakenAsHex(r) -> Emit(d, <<BACKSLASH, SMALL_X, d.hex_1, r>>)
      [] d.state = 3 /\ TakenAsHex(r) /\ IsHex(d.hex_1) /\ IsHex(r) ->
             Emit(d, <<16 * HexValue(d.hex_1) + HexValue(r)>>)
      [] d.state = 3 /\ TakenAsHex(r) /\ ~(IsHex(d.hex_1) /\ IsHex(r)) ->
             [d EXCEPT !.raised = TRUE]
      [] d.state = 0 /\ r = BACKSLASH -> [d EXCEPT !.state = 1]
      [] d.state = 0 /\ r # BACKSLASH -> Emit(d, <<r>>)

(* The decoder after a whole value; an exception leaves the loop. *)
Decoder(raw) ==
    LET dec[i \in 0..Len(raw)] ==
            IF i = 0 THEN DecoderStart
            ELSE IF dec[i - 1].raised THEN dec[i - 1]
            ELSE DecodeByte(dec[i - 1], raw[i])
    IN  dec[Len(raw)]

bytes_decode(raw) == Decoder(raw).new_raw
DecodeRaises(raw) == Decoder(raw).raised

-----------------------------------------------------------------------------
(* The firmware's decoder has the same variables; "raised" stands for its  *)
(* giving up with 0, which it does when fewer than Len(bytes) bytes of its *)
(* output are left.  Its char is unsigned, as the Xtensa compiler has it.  *)
EmitWithin_strictly(e, bytes, room) ==
    IF Len(bytes) < room THEN Emit(e, bytes) ELSE [e EXCEPT !.raised = TRUE]
EmitWithin(e, bytes, room) ==
    IF Len(bytes) <= room THEN Emit(e, bytes) ELSE [e EXCEPT !.raised = TRUE]

FirmwareHex(r) == r \in (48..57) \union (97..104) \union (65..72)

Scanned_swapped(hex_1, r) == {16 * HexValue(r) + HexValue(hex_1)}

(* What sscanf("%x") of two such characters leaves in hex_int: the digits  *)
(* up to the first g or h; without any, what was on the stack before.      *)
Scanned(hex_1, r) ==
    IF ~IsHex(hex_1) THEN 0..255
    ELSE IF ~IsHex(r) THEN {HexValue(hex_1)}
    ELSE {16 * HexValue(hex_1) + HexValue(r)}

(* One iteration of its loop, as the set of possible outcomes. *)
FirmwareByte(e, r, room) ==
    CASE e.state = 1 /\ r = BACKSLASH -> {EmitWithin(e, <<BACKSLASH>>, room)}
      [] e.state = 1 /\ r \in {88, 120} -> {[e EXCEPT !.state = 2]}
      [] e.state = 1 /\ r \notin {BACKSLASH, 88, 120} ->
             {EmitWithin(e, <<BACKSLASH, r>>, room)}
      [] e.state = 2 /\ FirmwareHex(r) -> {TakeDigit(e, r)}
      [] e.state = 2 /\ ~FirmwareHex(r) -> {EmitWithin(e, <<BACKSLASH, SMALL_X, r>>, room)}
      [] e.state = 3 /\ FirmwareHex(r) ->
             {EmitWithin(e, <<b>>, room) : b \in Scanned(e.hex_1, r)}
      [] e.state = 3 /\ ~FirmwareHex(r) ->
             {EmitWithin(e, <<BACKSLASH, SMALL_X, e.hex_1, r>>, room)}
      [] e.state = 0 /\ r = BACKSLASH -> {[e EXCEPT !.state = 1]}
      [] e.state = 0 /\ r # BACKSLASH -> {EmitWithin(e, <<r>>, room)}

(* The firmware's decoder after a whole value, with an output of room      *)
(* bytes; giving up leaves the loop.                                       *)
FirmwareDecoders(raw, room) ==
    LET dec[i \in 0..Len(raw)] ==
            IF i = 0 THEN {DecoderStart}
            ELSE UNION {IF e.raised THEN {e}
                        ELSE FirmwareByte(e, raw[i], room - Len(e.new_raw)) : e \in dec[i - 1]}
    IN  dec[Len(raw)]
=============================================================================
