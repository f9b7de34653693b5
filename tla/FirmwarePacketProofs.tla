------------------------- MODULE FirmwarePacketProofs -------------------------
(***************************************************************************)
(* Proofs about FirmwarePacket, for any heap, any keys and values and any  *)
(* allocations that fail.  The invariant says of a packet that has been    *)
(* made that it is Sound: of its types, every block in use owned once, and *)
(* a size of the value that is 0.  The last part is what carries the       *)
(* others: with it packet_do_encode and packet_do_decode return before     *)
(* they get to the calls of free that would release a block twice.         *)
(* Whether the memory has been corrupted is followed beside that: only the *)
(* release of what an uninitialised packet holds and a copy into no bytes  *)
(* change it.                                                              *)
(***************************************************************************)
EXTENDS FirmwarePacket, WireFormatProofs

Memory ==
    [live : SUBSET Blocks, text : [Blocks -> Seq(Byte)], pack : Packet_t,
     corrupt : BOOLEAN, ret : BOOLEAN]

(* The blocks the packet points to and those of others have one owner each. *)
OwnedBy(x, others) ==
    /\ x.live = Pointers(x) \union others
    /\ Pointers(x) \intersect others = {}
    /\ x.pack.key_str = x.pack.val_bytes => x.pack.key_str = NULL

Sound(x, others) ==
    /\ x \in Memory
    /\ x.pack.val_size = 0
    /\ others \subseteq Blocks
    /\ OwnedBy(x, others)

-----------------------------------------------------------------------------
(* What malloc, free and return do to a memory.                            *)

LEMMA FreshBlock ==
    ASSUME NEW x \in Memory, x.live # Blocks
    PROVE  Fresh(x) \in Blocks /\ Fresh(x) \notin x.live
<1>1. \E a \in Blocks : a \notin x.live
  BY DEF Memory
<1> QED
  BY <1>1 DEF Fresh

LEMMA FilledBlock ==
    ASSUME NEW x \in Memory, NEW a \in Blocks, NEW bytes \in Seq(Byte)
    PROVE  /\ Filled(x, a, bytes) \in Memory
           /\ Filled(x, a, bytes).live = x.live \union {a}
           /\ Filled(x, a, bytes).text = [x.text EXCEPT ![a] = bytes]
           /\ Filled(x, a, bytes).pack = x.pack
           /\ Filled(x, a, bytes).corrupt = x.corrupt
BY DEF Filled, Memory

LEMMA FreedBlock ==
    ASSUME NEW x \in Memory, NEW a, a # NULL => a \in x.live
    PROVE  /\ FreeIfSet(x, a) \in Memory
           /\ FreeIfSet(x, a).live = x.live \ {a}
           /\ \A b \in Blocks : b # a => FreeIfSet(x, a).text[b] = x.text[b]
           /\ FreeIfSet(x, a).pack = x.pack
           /\ FreeIfSet(x, a).corrupt = x.corrupt
<1>1. CASE a = NULL
  <2>1. x.live \ {a} = x.live
    BY <1>1, FirmwareAssumption DEF Memory
  <2> QED
    BY <1>1, <2>1 DEF FreeIfSet
<1>2. CASE a # NULL
  <2>1. FreeIfSet(x, a) = [x EXCEPT !.live = @ \ {a}, !.text[a] = <<>>]
    BY <1>2 DEF FreeIfSet, Free
  <2>2. a \in Blocks
    BY <1>2 DEF Memory
  <2>3. <<>> \in Seq(Byte)
    OBVIOUS
  <2>4. FreeIfSet(x, a) \in Memory
    <3>1. x.live \ {a} \in SUBSET Blocks
      BY DEF Memory
    <3>2. [x.text EXCEPT ![a] = <<>>] \in [Blocks -> Seq(Byte)]
      BY <2>2, <2>3 DEF Memory
    <3> QED
      BY <2>1, <3>1, <3>2 DEF Memory
  <2>5. /\ FreeIfSet(x, a).live = x.live \ {a}
        /\ FreeIfSet(x, a).text = [x.text EXCEPT ![a] = <<>>]
        /\ FreeIfSet(x, a).pack = x.pack
        /\ FreeIfSet(x, a).corrupt = x.corrupt
    BY <2>1 DEF Memory
  <2>6. \A b \in Blocks : b # a => FreeIfSet(x, a).text[b] = x.text[b]
    BY <2>2, <2>5 DEF Memory
  <2> QED
    BY <2>4, <2>5, <2>6
<1> QED
  BY <1>1, <1>2

LEMMA ReturnsSound ==
    ASSUME NEW x, NEW others, Sound(x, others), NEW value \in BOOLEAN
    PROVE  /\ Sound(Returns(x, value), others)
           /\ Returns(x, value).ret = value
           /\ Returns(x, value).pack = x.pack
           /\ Returns(x, value).live = x.live
           /\ Returns(x, value).text = x.text
           /\ Returns(x, value).corrupt = x.corrupt
<1>1. /\ Returns(x, value) \in Memory
      /\ Returns(x, value).ret = value
      /\ Returns(x, value).pack = x.pack
      /\ Returns(x, value).live = x.live
      /\ Returns(x, value).text = x.text
      /\ Returns(x, value).corrupt = x.corrupt
  BY DEF Returns, Sound, Memory
<1> QED
  BY <1>1 DEF Sound, OwnedBy, Pointers
WithKey(x, a) == [x EXCEPT !.pack.key_str = a]
WithValue(x, a) == [x EXCEPT !.pack.val_bytes = a]

LEMMA KeyPointed ==
    ASSUME NEW x \in Memory, NEW a \in Blocks
    PROVE  /\ WithKey(x, a) \in Memory
           /\ WithKey(x, a).live = x.live /\ WithKey(x, a).text = x.text /\ WithKey(x, a).corrupt = x.corrupt
           /\ WithKey(x, a).pack.key_str = a
           /\ WithKey(x, a).pack.val_bytes = x.pack.val_bytes
           /\ WithKey(x, a).pack.val_size = x.pack.val_size
           /\ WithKey(x, a).pack.checksum = x.pack.checksum
           /\ WithKey(x, a).pack.ready = x.pack.ready
<1>1. WithKey(x, a).pack = [x.pack EXCEPT !.key_str = a]
  BY DEF Memory, WithKey
<1>2. x.pack \in Packet_t
  BY DEF Memory
<1>3. WithKey(x, a).pack \in Packet_t
  BY <1>1, <1>2 DEF Packet_t
<1>4. WithKey(x, a) \in Memory
  BY <1>3 DEF Memory, WithKey
<1> QED
  BY <1>1, <1>2, <1>4 DEF Memory, Packet_t, WithKey

LEMMA ValuePointed ==
    ASSUME NEW x \in Memory, NEW a \in Blocks \union {NULL}
    PROVE  /\ WithValue(x, a) \in Memory
           /\ WithValue(x, a).live = x.live /\ WithValue(x, a).text = x.text /\ WithValue(x, a).corrupt = x.corrupt
           /\ WithValue(x, a).pack.val_bytes = a
           /\ WithValue(x, a).pack.key_str = x.pack.key_str
           /\ WithValue(x, a).pack.val_size = x.pack.val_size
           /\ WithValue(x, a).pack.checksum = x.pack.checksum
           /\ WithValue(x, a).pack.ready = x.pack.ready
<1>1. WithValue(x, a).pack = [x.pack EXCEPT !.val_bytes = a]
  BY DEF Memory, WithValue
<1>2. x.pack \in Packet_t
  BY DEF Memory
<1>3. WithValue(x, a).pack \in Packet_t
  BY <1>1, <1>2 DEF Packet_t
<1>4. WithValue(x, a) \in Memory
  BY <1>3 DEF Memory, WithValue
<1> QED
  BY <1>1, <1>2, <1>4 DEF Memory, Packet_t, WithValue

-----------------------------------------------------------------------------
(* The two copies: the new block takes the place of the old one.           *)

LEMMA KeySet ==
    ASSUME NEW x, NEW others, Sound(x, others), NEW key \in Seq(Byte), NEW fails,
           NEW y, y = set_str_auto_alloc(x, key, FALSE, fails)
    PROVE  /\ Sound(y, others)
           /\ y.corrupt = x.corrupt
           /\ y.ret \in BOOLEAN
           /\ y.ret => Key(y) = key
<1>1. CASE ~Gets(x, "key", fails)
  <2>1. y = Returns(x, FALSE)
    BY <1>1 DEF set_str_auto_alloc
  <2> QED
    BY <2>1, ReturnsSound, ZenonT(30)
<1>2. CASE Gets(x, "key", fails)
  <2> DEFINE a == Fresh(x)
  <2> DEFINE old == x.pack.key_str
  <2> DEFINE filled == Filled(x, a, key)
  <2> DEFINE copied == FreeIfSet(filled, old)
  <2> DEFINE z == WithKey(copied, a)
  <2>1. y = Returns(z, TRUE)
    BY <1>2 DEF set_str_auto_alloc, WithKey
  <2>2. x \in Memory /\ x.pack \in Packet_t
    BY DEF Sound, Memory
  <2>3. a \in Blocks /\ a \notin x.live
    BY <1>2, <2>2, FreshBlock DEF Gets
  <2>4. /\ filled \in Memory
        /\ filled.live = x.live \union {a}
        /\ filled.text = [x.text EXCEPT ![a] = key]
        /\ filled.pack = x.pack
        /\ filled.corrupt = x.corrupt
    BY <2>2, <2>3, FilledBlock
  <2>5. old # NULL => old \in x.live
    BY DEF Sound, OwnedBy, Pointers
  <2>6. /\ copied \in Memory
        /\ copied.live = filled.live \ {old}
        /\ \A b \in Blocks : b # old => copied.text[b] = filled.text[b]
        /\ copied.pack = x.pack
        /\ copied.corrupt = x.corrupt
    <3> HIDE DEF filled, old
    <3>1. old # NULL => old \in filled.live
      BY <2>4, <2>5
    <3> QED
      BY <2>4, <3>1, FreedBlock, ZenonT(30)
  <2>7. /\ z \in Memory
        /\ z.live = copied.live /\ z.text = copied.text /\ z.corrupt = copied.corrupt
        /\ z.pack.key_str = a
        /\ z.pack.val_bytes = copied.pack.val_bytes
        /\ z.pack.val_size = copied.pack.val_size
    <3> HIDE DEF copied, a
    <3> QED
      BY <2>3, <2>6, KeyPointed, ZenonT(30)
  <2> HIDE DEF z, copied, filled, a
  <2>8. z.live = (x.live \union {a}) \ {old}
    BY <2>4, <2>6, <2>7
  <2>9. OwnedBy(z, others)
    BY <2>3, <2>6, <2>7, <2>8, FirmwareAssumption DEF Sound, OwnedBy, Pointers
  <2>10. Sound(z, others)
    BY <2>6, <2>7, <2>9 DEF Sound
  <2>11. a # old
    BY <2>3, <2>5, FirmwareAssumption
  <2>12. a \in z.live /\ z.text[a] = key
    BY <2>2, <2>3, <2>4, <2>6, <2>7, <2>8, <2>11 DEF Memory
  <2>13. /\ Sound(y, others)
         /\ y.ret = TRUE
         /\ y.pack = z.pack /\ y.live = z.live /\ y.text = z.text /\ y.corrupt = z.corrupt
    BY <2>1, <2>10, ReturnsSound, Zenon
  <2>14. y.corrupt = x.corrupt
    BY <2>6, <2>7, <2>13
  <2> QED
    BY <2>7, <2>12, <2>13, <2>14 DEF Key, Text
<1> QED
  BY <1>1, <1>2

LEMMA ValueSet ==
    ASSUME NEW x, NEW others, Sound(x, others), NEW val \in Seq(Byte), NEW fails,
           NEW y, y = set_bytes_auto_alloc(x, val, fails)
    PROVE  /\ Sound(y, others)
           /\ y.corrupt = x.corrupt
           /\ y.ret \in BOOLEAN
           /\ y.ret => Key(y) = Key(x) /\ Value(y) = val
<1> DEFINE old == x.pack.val_bytes
<1>1. /\ x \in Memory /\ x.pack \in Packet_t
      /\ old # NULL => old \in x.live
  BY DEF Sound, Memory, OwnedBy, Pointers
<1>2. CASE val = <<>>
  <2> DEFINE freed == FreeIfSet(x, old)
  <2> DEFINE z == WithValue(freed, NULL)
  <2>1. y = Returns(z, TRUE)
    BY <1>2 DEF set_bytes_auto_alloc, WithValue
  <2>2. /\ freed \in Memory
        /\ freed.live = x.live \ {old}
        /\ \A b \in Blocks : b # old => freed.text[b] = x.text[b]
        /\ freed.pack = x.pack
        /\ freed.corrupt = x.corrupt
    <3> HIDE DEF old
    <3> QED
      BY <1>1, FreedBlock, Zenon
  <2>3. /\ z \in Memory
        /\ z.live = freed.live /\ z.text = freed.text /\ z.corrupt = freed.corrupt
        /\ z.pack.val_bytes = NULL
        /\ z.pack.key_str = freed.pack.key_str
        /\ z.pack.val_size = freed.pack.val_size
    <3> HIDE DEF freed
    <3> QED
      BY <2>2, ValuePointed, ZenonT(30)
  <2> HIDE DEF z, freed
  <2>4. OwnedBy(z, others)
    BY <2>2, <2>3, FirmwareAssumption DEF Sound, OwnedBy, Pointers
  <2>5. Sound(z, others)
    BY <2>2, <2>3, <2>4 DEF Sound
  <2>6. /\ Sound(y, others)
        /\ y.ret = TRUE
        /\ y.pack = z.pack /\ y.live = z.live /\ y.text = z.text /\ y.corrupt = z.corrupt
    BY <2>1, <2>5, ReturnsSound, Zenon
  <2>7. Key(y) = Key(x)
    <3>1. CASE x.pack.key_str = NULL
      BY <1>1, <2>2, <2>3, <2>6, <3>1, FirmwareAssumption DEF Key, Text, Memory
    <3>2. CASE x.pack.key_str # NULL
      <4>1. x.pack.key_str \in Blocks /\ x.pack.key_str # old /\ x.pack.key_str \in x.live
        BY <1>1, <3>2 DEF Sound, OwnedBy, Pointers, Memory
      <4> QED
        BY <2>2, <2>3, <2>6, <4>1 DEF Key, Text
    <3> QED
      BY <3>1, <3>2
  <2>8. Value(y) = <<>>
    BY <2>2, <2>3, <2>6, FirmwareAssumption DEF Value, Text, Memory
  <2>9. y.corrupt = x.corrupt
    BY <2>2, <2>3, <2>6
  <2> QED
    BY <1>2, <2>6, <2>7, <2>8, <2>9
<1>3. CASE val # <<>> /\ ~Gets(x, "val", fails)
  <2>1. y = Returns(x, FALSE)
    BY <1>3 DEF set_bytes_auto_alloc
  <2> QED
    BY <2>1, ReturnsSound, ZenonT(30)
<1>4. CASE val # <<>> /\ Gets(x, "val", fails)
  <2> DEFINE a == Fresh(x)
  <2> DEFINE filled == Filled(x, a, val)
  <2> DEFINE copied == FreeIfSet(filled, old)
  <2> DEFINE z == WithValue(copied, a)
  <2>1. y = Returns(z, TRUE)
    BY <1>4 DEF set_bytes_auto_alloc, WithValue
  <2>3. a \in Blocks /\ a \notin x.live
    BY <1>1, <1>4, FreshBlock DEF Gets
  <2>4. /\ filled \in Memory
        /\ filled.live = x.live \union {a}
        /\ filled.text = [x.text EXCEPT ![a] = val]
        /\ filled.pack = x.pack
        /\ filled.corrupt = x.corrupt
    BY <1>1, <2>3, FilledBlock
  <2>6. /\ copied \in Memory
        /\ copied.live = filled.live \ {old}
        /\ \A b \in Blocks : b # old => copied.text[b] = filled.text[b]
        /\ copied.pack = x.pack
        /\ copied.corrupt = x.corrupt
    <3> HIDE DEF filled, old
    <3>1. old # NULL => old \in filled.live
      BY <1>1, <2>4
    <3> QED
      BY <2>4, <3>1, FreedBlock, ZenonT(30)
  <2>7. /\ z \in Memory
        /\ z.live = copied.live /\ z.text = copied.text /\ z.corrupt = copied.corrupt
        /\ z.pack.val_bytes = a
        /\ z.pack.key_str = copied.pack.key_str
        /\ z.pack.val_size = copied.pack.val_size
    <3>1. a \in Blocks \union {NULL}
      BY <2>3
    <3> HIDE DEF copied, a
    <3> QED
      BY <2>6, <3>1, ValuePointed, Zenon
  <2> HIDE DEF z, copied, filled, a
  <2>8. z.live = (x.live \union {a}) \ {old}
    BY <2>4, <2>6, <2>7
  <2>9. OwnedBy(z, others)
    BY <2>3, <2>6, <2>7, <2>8, FirmwareAssumption DEF Sound, OwnedBy, Pointers
  <2>10. Sound(z, others)
    BY <2>6, <2>7, <2>9 DEF Sound
  <2>11. a # old
    BY <1>1, <2>3, FirmwareAssumption
  <2>12. a \in z.live /\ z.text[a] = val
    BY <1>1, <2>3, <2>4, <2>6, <2>7, <2>8, <2>11 DEF Memory
  <2>13. /\ Sound(y, others)
         /\ y.ret = TRUE
         /\ y.pack = z.pack /\ y.live = z.live /\ y.text = z.text /\ y.corrupt = z.corrupt
    BY <2>1, <2>10, ReturnsSound, Zenon
  <2>14. Value(y) = val
    BY <2>7, <2>12, <2>13 DEF Value, Text
  <2>15. Key(y) = Key(x)
    <3>1. CASE x.pack.key_str = NULL
      <4>1. NULL \notin x.live /\ NULL \notin z.live
        BY <2>7, FirmwareAssumption DEF Sound, Memory
      <4> QED
        BY <2>6, <2>7, <2>13, <3>1, <4>1 DEF Key, Text
    <3>2. CASE x.pack.key_str # NULL
      <4>1. /\ x.pack.key_str \in Blocks /\ x.pack.key_str # old /\ x.pack.key_str \in x.live
            /\ x.pack.key_str # a
        BY <1>1, <2>3, <3>2 DEF Sound, OwnedBy, Pointers, Memory
      <4>2. z.text[x.pack.key_str] = x.text[x.pack.key_str]
        BY <1>1, <2>4, <2>6, <2>7, <4>1 DEF Memory
      <4> QED
        BY <2>6, <2>7, <2>8, <2>13, <4>1, <4>2 DEF Key, Text
    <3> QED
      BY <3>1, <3>2
  <2>16. y.corrupt = x.corrupt
    BY <2>4, <2>6, <2>7, <2>13
  <2> QED
    BY <2>13, <2>14, <2>15, <2>16
<1> QED
  BY <1>2, <1>3, <1>4

-----------------------------------------------------------------------------
(* The functions of the packet.                                            *)

LEMMA Released ==
    ASSUME NEW x, NEW others, Sound(x, others)
    PROVE  /\ Sound(packet_release(x), others)
           /\ packet_release(x).corrupt = x.corrupt
<1> DEFINE one == FreeIfSet(x, x.pack.key_str)
<1> DEFINE two == FreeIfSet(one, x.pack.val_bytes)
<1> DEFINE z == [two EXCEPT !.pack = NoPacket]
<1>1. packet_release(x) = Returns(z, TRUE)
  BY DEF packet_release
<1>2. x \in Memory
  BY DEF Sound
<1>3. x.pack.key_str # NULL => x.pack.key_str \in x.live
  BY DEF Sound, OwnedBy, Pointers
<1>4. /\ one \in Memory
      /\ one.live = x.live \ {x.pack.key_str}
      /\ one.corrupt = x.corrupt
  BY <1>2, <1>3, FreedBlock
<1>5. x.pack.val_bytes # NULL => x.pack.val_bytes \in one.live
  <2> HIDE DEF one
  <2> QED
    BY <1>4 DEF Sound, OwnedBy, Pointers
<1>6. /\ two \in Memory
      /\ two.live = one.live \ {x.pack.val_bytes}
      /\ two.corrupt = one.corrupt
  <2> HIDE DEF one
  <2> QED
    BY <1>4, <1>5, FreedBlock, Zenon
<1> HIDE DEF two, one
<1>7. NoPacket \in Packet_t
  BY DEF NoPacket, Packet_t, Byte
<1>8. /\ z \in Memory
      /\ z.live = two.live /\ z.corrupt = two.corrupt
      /\ z.pack = NoPacket
  BY <1>6, <1>7 DEF Memory
<1> HIDE DEF z
<1>9. OwnedBy(z, others)
  <2>1. z.pack.key_str = NULL /\ z.pack.val_bytes = NULL
    BY <1>8 DEF NoPacket
  <2>2. Pointers(z) = {}
    BY <2>1 DEF Pointers
  <2>3. z.live = (x.live \ {x.pack.key_str}) \ {x.pack.val_bytes}
    BY <1>4, <1>6, <1>8
  <2>4. z.live = others
    BY <1>2, <2>3, FirmwareAssumption DEF Sound, OwnedBy, Pointers, Memory
  <2> QED
    BY <2>1, <2>2, <2>4 DEF OwnedBy
<1>10. Sound(z, others)
  BY <1>8, <1>9 DEF Sound, NoPacket
<1>11. z.corrupt = x.corrupt
  BY <1>4, <1>6, <1>8
<1> QED
  BY <1>1, <1>10, <1>11, ReturnsSound, Zenon

(* What the first packet_init does with a packet nobody has initialised:   *)
(* the memory is corrupted if and only if a pointer is not NULL.           *)
LEMMA ReleasedFirst ==
    ASSUME NEW x \in Memory, x.live \subseteq Blocks,
           x.pack.key_str \in {NULL, Wild}, x.pack.val_bytes \in {NULL, Wild}
    PROVE  /\ Sound(packet_release(x), x.live)
           /\ packet_release(x).corrupt = (x.corrupt \/ Pointers(x) # {})
<1> DEFINE one == FreeIfSet(x, x.pack.key_str)
<1> DEFINE two == FreeIfSet(one, x.pack.val_bytes)
<1> DEFINE z == [two EXCEPT !.pack = NoPacket]
<1>1. packet_release(x) = Returns(z, TRUE)
  BY DEF packet_release
<1>2. ASSUME NEW w \in Memory, w.live = x.live, NEW a \in {NULL, Wild}
      PROVE  /\ FreeIfSet(w, a) \in Memory
             /\ FreeIfSet(w, a).live = w.live
             /\ FreeIfSet(w, a).corrupt = (w.corrupt \/ a # NULL)
  <2>1. CASE a = NULL
    BY <2>1 DEF FreeIfSet, Memory
  <2>2. CASE a # NULL
    <3>1. a \notin w.live
      BY <1>2, <2>2, FirmwareAssumption
    <3>2. FreeIfSet(w, a) = [w EXCEPT !.corrupt = TRUE]
      BY <2>2, <3>1 DEF FreeIfSet, Free
    <3> QED
      BY <2>2, <3>2 DEF Memory
  <2> QED
    BY <2>1, <2>2
<1>3. /\ one \in Memory
      /\ one.live = x.live
      /\ one.corrupt = (x.corrupt \/ x.pack.key_str # NULL)
  <2> DEFINE a == x.pack.key_str
  <2>1. a \in {NULL, Wild}
    OBVIOUS
  <2> HIDE DEF a
  <2>2. /\ FreeIfSet(x, a) \in Memory
        /\ FreeIfSet(x, a).live = x.live
        /\ FreeIfSet(x, a).corrupt = (x.corrupt \/ a # NULL)
    BY <1>2, <2>1
  <2> QED
    BY <2>2 DEF a
<1>4. /\ two \in Memory
      /\ two.live = x.live
      /\ two.corrupt = (x.corrupt \/ x.pack.key_str # NULL \/ x.pack.val_bytes # NULL)
  <2> DEFINE a == x.pack.val_bytes
  <2>1. a \in {NULL, Wild}
    OBVIOUS
  <2> HIDE DEF a, one
  <2>2. /\ FreeIfSet(one, a) \in Memory
        /\ FreeIfSet(one, a).live = one.live
        /\ FreeIfSet(one, a).corrupt = (one.corrupt \/ a # NULL)
    BY <1>2, <1>3, <2>1
  <2> QED
    BY <1>3, <2>2 DEF a
<1> HIDE DEF two, one
<1>5. NoPacket \in Packet_t
  BY DEF NoPacket, Packet_t, Byte
<1>6. /\ z \in Memory
      /\ z.live = two.live /\ z.corrupt = two.corrupt
      /\ z.pack = NoPacket
  BY <1>4, <1>5 DEF Memory
<1> HIDE DEF z
<1>7. Sound(z, x.live)
  <2>1. Pointers(z) = {}
    BY <1>6 DEF Pointers, NoPacket
  <2>2. OwnedBy(z, x.live)
    BY <1>4, <1>6, <2>1 DEF OwnedBy, NoPacket
  <2> QED
    BY <1>6, <2>2 DEF Sound, NoPacket
<1>8. z.corrupt = (x.corrupt \/ Pointers(x) # {})
  BY <1>4, <1>6 DEF Pointers
<1>9. Sound(Returns(z, TRUE), x.live) /\ Returns(z, TRUE).corrupt = z.corrupt
  BY <1>7, ReturnsSound, Zenon
<1> QED
  BY <1>1, <1>8, <1>9

LEMMA Texts ==
    ASSUME NEW x, NEW others, Sound(x, others)
    PROVE  Key(x) \in Seq(Byte) /\ Value(x) \in Seq(Byte)
BY DEF Sound, Memory, Key, Value, Text

LEMMA Summed ==
    ASSUME NEW x, NEW others, Sound(x, others), NEW fails
    PROVE  /\ Sound(packet_calc_checksum(x, fails), others)
           /\ Key(packet_calc_checksum(x, fails)) = Key(x)
           /\ Value(packet_calc_checksum(x, fails)) = Value(x)
           /\ packet_calc_checksum(x, fails).ret = x.ret
           /\ packet_calc_checksum(x, fails).corrupt = x.corrupt
<1> DEFINE sum == IF Key(x) = <<>> \/ ~Gets(x, "sum", fails) THEN 0
                  ELSE calc_checksum(packet_get_data_bytes(x))
<1> DEFINE y == packet_calc_checksum(x, fails)
<1>1. packet_get_data_bytes(x) = Key(x)
  BY DEF packet_get_data_bytes, Sound
<1>2. sum \in Byte
  <2>1. calc_checksum(Key(x)) \in Byte
    BY Texts, ChecksumIsByte
  <2> QED
    BY <1>1, <2>1 DEF Byte
<1>3. y = [x EXCEPT !.pack.checksum = sum]
  BY DEF packet_calc_checksum
<1> HIDE DEF sum, y
<1>4. x \in Memory /\ x.pack \in Packet_t
  BY DEF Sound, Memory
<1>5. y.pack = [x.pack EXCEPT !.checksum = sum]
  BY <1>3, <1>4 DEF Memory
<1>6. /\ y.pack \in Packet_t
      /\ y.pack.key_str = x.pack.key_str
      /\ y.pack.val_bytes = x.pack.val_bytes
      /\ y.pack.val_size = x.pack.val_size
  BY <1>2, <1>4, <1>5 DEF Packet_t
<1>7. /\ y \in Memory
      /\ y.live = x.live /\ y.text = x.text /\ y.corrupt = x.corrupt /\ y.ret = x.ret
  BY <1>3, <1>4, <1>5, <1>6 DEF Memory
<1>8. Sound(y, others)
  BY <1>6, <1>7 DEF Sound, OwnedBy, Pointers
<1>9. Key(y) = Key(x) /\ Value(y) = Value(x)
  BY <1>6, <1>7 DEF Key, Value, Text
<1> QED
  BY <1>7, <1>8, <1>9 DEF y

Keeps(x, y, others) == Sound(y, others) /\ y.corrupt = x.corrupt

LEMMA SetSound ==
    ASSUME NEW x, NEW others, Sound(x, others), NEW key \in Seq(Byte), NEW val \in Seq(Byte),
           NEW fails, NEW y, y = packet_set_key_value(x, key, FALSE, val, fails)
    PROVE  /\ Keeps(x, y, others)
           /\ y.ret \in BOOLEAN
           /\ y.ret => /\ key # <<>> /\ y.pack.checksum # 0
                       /\ Key(y) = key /\ Value(y) = val
<1> USE DEF Keeps
<1> DEFINE named == set_str_auto_alloc(x, key, FALSE, fails)
<1> DEFINE valued == set_bytes_auto_alloc(named, val, fails)
<1> DEFINE summed == packet_calc_checksum(valued, fails)
<1>1. y = IF key = <<>> THEN Returns(x, FALSE)
          ELSE IF ~named.ret THEN named
          ELSE IF ~valued.ret THEN valued
          ELSE Returns(summed, summed.pack.checksum # 0)
  BY DEF packet_set_key_value
<1>2. /\ Sound(named, others)
      /\ named.corrupt = x.corrupt
      /\ named.ret \in BOOLEAN
      /\ named.ret => Key(named) = key
  BY KeySet
<1>3. /\ Sound(valued, others)
      /\ valued.corrupt = x.corrupt
      /\ valued.ret \in BOOLEAN
      /\ valued.ret => Key(valued) = Key(named) /\ Value(valued) = val
  <2> HIDE DEF named
  <2> QED
    BY <1>2, ValueSet
<1>4. /\ Sound(summed, others)
      /\ summed.corrupt = x.corrupt
      /\ Key(summed) = Key(valued) /\ Value(summed) = Value(valued)
  <2> HIDE DEF valued
  <2> QED
    BY <1>3, Summed
<1> HIDE DEF named, valued, summed
<1>5. CASE key = <<>>
  <2>1. y = Returns(x, FALSE)
    BY <1>1, <1>5
  <2>2. /\ Sound(Returns(x, FALSE), others)
        /\ Returns(x, FALSE).ret = FALSE
        /\ Returns(x, FALSE).corrupt = x.corrupt
    BY ReturnsSound, Zenon
  <2> QED
    BY <2>1, <2>2
<1>6. CASE key # <<>> /\ ~named.ret
  <2>1. y = named
    BY <1>1, <1>6, Zenon
  <2> QED
    BY <1>2, <1>6, <2>1, Zenon
<1>7. CASE key # <<>> /\ named.ret /\ ~valued.ret
  <2>1. y = valued
    BY <1>1, <1>7, Zenon
  <2> QED
    BY <1>3, <1>7, <2>1, Zenon
<1>8. CASE key # <<>> /\ named.ret /\ valued.ret
  <2> DEFINE summedUp == summed.pack.checksum # 0
  <2>1. y = Returns(summed, summedUp)
    BY <1>1, <1>8
  <2>2. summedUp \in BOOLEAN
    OBVIOUS
  <2>3. summedUp => summed.pack.checksum # 0
    OBVIOUS
  <2> HIDE DEF summedUp
  <2>4. /\ Sound(y, others)
        /\ y.ret = summedUp
        /\ y.pack = summed.pack /\ y.live = summed.live /\ y.text = summed.text
        /\ y.corrupt = summed.corrupt
    <3>1. Sound(summed, others)
      BY <1>4
    <3>2. /\ Sound(Returns(summed, summedUp), others)
          /\ Returns(summed, summedUp).ret = summedUp
          /\ Returns(summed, summedUp).pack = summed.pack
          /\ Returns(summed, summedUp).live = summed.live
          /\ Returns(summed, summedUp).text = summed.text
          /\ Returns(summed, summedUp).corrupt = summed.corrupt
      BY <3>1, <2>2, ReturnsSound, Zenon
    <3> QED
      BY <2>1, <3>2, Zenon
  <2>5. Key(y) = Key(summed) /\ Value(y) = Value(summed)
    BY <2>4 DEF Key, Value, Text
  <2> QED
    BY <1>2, <1>3, <1>4, <1>8, <2>2, <2>3, <2>4, <2>5
<1> QED
  BY <1>2, <1>3, <1>5, <1>6, <1>7, <1>8

LEMMA InitSound ==
    ASSUME NEW x, NEW others, Sound(packet_release(x), others), NEW key \in Seq(Byte),
           NEW val \in Seq(Byte), NEW fails, NEW y, y = packet_init(x, key, val, fails)
    PROVE  /\ Sound(y, others)
           /\ y.corrupt = packet_release(x).corrupt
           /\ y.ret => packet_is_valid(y) /\ Key(y) = key /\ Value(y) = val
           /\ ~y.ret => ~packet_is_valid(y)
<1> DEFINE set == packet_set_key_value(packet_release(x), key, FALSE, val, fails)
<1>1. y = [set EXCEPT !.pack.ready = set.ret]
  BY DEF packet_init
<1>2. /\ Sound(set, others)
      /\ set.corrupt = packet_release(x).corrupt
      /\ set.ret \in BOOLEAN
      /\ set.ret => /\ key # <<>> /\ set.pack.checksum # 0
                    /\ Key(set) = key /\ Value(set) = val
  <2>1. /\ Keeps(packet_release(x), set, others)
        /\ set.ret \in BOOLEAN
        /\ set.ret => /\ key # <<>> /\ set.pack.checksum # 0
                      /\ Key(set) = key /\ Value(set) = val
    BY SetSound, Zenon
  <2> HIDE DEF set
  <2> QED
    BY <2>1, Zenon DEF Keeps
<1> HIDE DEF set
<1>3. set \in Memory /\ set.pack \in Packet_t
  BY <1>2 DEF Sound, Memory
<1>4. y.pack = [set.pack EXCEPT !.ready = set.ret]
  BY <1>1, <1>3 DEF Memory
<1>5. /\ y.pack \in Packet_t
      /\ y.pack.ready = set.ret
      /\ y.pack.key_str = set.pack.key_str
      /\ y.pack.val_bytes = set.pack.val_bytes
      /\ y.pack.val_size = set.pack.val_size
      /\ y.pack.checksum = set.pack.checksum
  BY <1>2, <1>3, <1>4 DEF Packet_t
<1>6. /\ y \in Memory
      /\ y.live = set.live /\ y.text = set.text /\ y.corrupt = set.corrupt /\ y.ret = set.ret
  BY <1>1, <1>3, <1>4, <1>5 DEF Memory
<1>7. Sound(y, others)
  BY <1>2, <1>5, <1>6 DEF Sound, OwnedBy, Pointers
<1>8. Key(y) = Key(set) /\ Value(y) = Value(set)
  BY <1>5, <1>6 DEF Key, Value, Text
<1>9. y.ret => packet_is_valid(y) /\ Key(y) = key /\ Value(y) = val
  BY <1>2, <1>5, <1>6, <1>8, Zenon DEF packet_is_valid
<1>10. ~y.ret => ~packet_is_valid(y)
  BY <1>5, <1>6, Zenon DEF packet_is_valid
<1> QED
  BY <1>2, <1>6, <1>7, <1>9, <1>10

(* As long as the size of the value is 0, encoding and decoding change     *)
(* nothing.                                                                *)
LEMMA EncodeSound ==
    ASSUME NEW x, NEW others, Sound(x, others), NEW fails
    PROVE  /\ Sound(packet_do_encode(x, fails), others)
           /\ packet_do_encode(x, fails).corrupt = x.corrupt
<1>1. x.pack.val_size = 0
  BY DEF Sound
<1>2. CASE packet_is_valid(x)
  <2>1. packet_do_encode(x, fails) = Returns(x, TRUE)
    BY <1>1, <1>2, Zenon DEF packet_do_encode
  <2> QED
    BY <2>1, ReturnsSound, Zenon
<1>3. CASE ~packet_is_valid(x)
  <2>1. packet_do_encode(x, fails) = Returns(x, FALSE)
    BY <1>3, Zenon DEF packet_do_encode
  <2> QED
    BY <2>1, ReturnsSound, Zenon
<1> QED
  BY <1>2, <1>3

LEMMA DecodeSound ==
    ASSUME NEW x, NEW others, Sound(x, others), NEW e, NEW fails
    PROVE  /\ Sound(packet_do_decode(x, e, fails), others)
           /\ packet_do_decode(x, e, fails).corrupt = x.corrupt
<1>1. x.pack.val_size = 0
  BY DEF Sound
<1>2. CASE packet_is_valid(x)
  <2>1. packet_do_decode(x, e, fails) = Returns(x, TRUE)
    BY <1>1, <1>2, Zenon DEF packet_do_decode
  <2> QED
    BY <2>1, ReturnsSound, Zenon
<1>3. CASE ~packet_is_valid(x)
  <2>1. packet_do_decode(x, e, fails) = Returns(x, FALSE)
    BY <1>3, Zenon DEF packet_do_decode
  <2> QED
    BY <2>1, ReturnsSound, Zenon
<1> QED
  BY <1>2, <1>3

(* The copies into buffers of the caller's stay inside them ... *)
LEMMA CopiesFit ==
    ASSUME NEW limit \in Nat, limit # 0, NEW len \in Nat, NEW tsize \in {1, 4}
    PROVE  /\ ~(set_str_on_preallocated(limit, len) > limit)
           /\ ~(set_list_on_preallocated(tsize, limit, len) > limit)
<1>1. ~(set_str_on_preallocated(limit, len) > limit)
  BY DEF set_str_on_preallocated
<1>2. CASE tsize = 1
  BY <1>1, <1>2 DEF set_list_on_preallocated
<1>3. CASE tsize = 4
  BY <1>1, <1>3 DEF set_list_on_preallocated
<1> QED
  BY <1>2, <1>3

(* ... unless there is no room at all. *)
LEMMA NoRoom ==
    ASSUME NEW limit \in Nat, limit = 0, NEW len \in Nat
    PROVE  set_str_on_preallocated(limit, len) > limit
BY DEF set_str_on_preallocated

-----------------------------------------------------------------------------
(* The specification.                                                      *)

IInv ==
    /\ m \in Memory
    /\ strings \subseteq Blocks
    /\ made \in BOOLEAN
    /\ misused \in BOOLEAN
    /\ m.corrupt = misused
    /\ made => Sound(m, strings)
    /\ ~made => /\ m.live = strings
                /\ m.pack.key_str \in {NULL, Wild}
                /\ m.pack.val_bytes \in {NULL, Wild}

LEMMA BootSound ==
    ASSUME NEW left \in Leftovers
    PROVE  /\ Boot(left) \in Memory
           /\ Boot(left).live = {}
           /\ Boot(left).corrupt = FALSE
           /\ Boot(left).pack.key_str \in {NULL, Wild}
           /\ Boot(left).pack.val_bytes \in {NULL, Wild}
<1>1. left \in [ready : BOOLEAN, key_str : {NULL, Wild}, val_bytes : {NULL, Wild},
               val_size : Nat, checksum : Byte]
  BY FirmwareAssumption
<1>2. /\ left.ready \in BOOLEAN
      /\ left.key_str \in {NULL, Wild}
      /\ left.val_bytes \in {NULL, Wild}
      /\ left.val_size \in Nat
      /\ left.checksum \in Byte
      /\ left = [ready |-> left.ready, key_str |-> left.key_str, val_bytes |-> left.val_bytes,
                 val_size |-> left.val_size, checksum |-> left.checksum]
  BY <1>1
<1>3. left \in Packet_t
  BY <1>2 DEF Packet_t
<1>4. [a \in Blocks |-> <<>>] \in [Blocks -> Seq(Byte)]
  OBVIOUS
<1>5. Boot(left) \in Memory
  BY <1>3, <1>4 DEF Boot, Memory
<1> QED
  BY <1>2, <1>5 DEF Boot

LEMMA InvInit == Init => IInv
BY BootSound DEF Init, IInv

(* A call on a packet that has been made which leaves the rest alone.      *)
LEMMA InvCall ==
    ASSUME IInv, made, Sound(m', strings'), m'.corrupt = m.corrupt,
           UNCHANGED <<made, misused>>
    PROVE  IInv'
BY DEF IInv, Sound

LEMMA InvNext == IInv /\ [Next]_vars => IInv'
<1> SUFFICES ASSUME IInv, [Next]_vars
             PROVE  IInv'
  OBVIOUS
<1>0. made => Sound(m, strings)
  BY Zenon DEF IInv
<1>1. CASE ~m.corrupt /\ CallInit
  <2>1. PICK key \in Keys, val \in Values, fails \in SetFailures :
            m' = packet_init(m, key, val, fails)
    BY <1>1 DEF CallInit
  <2>2. key \in Seq(Byte) /\ val \in Seq(Byte)
    BY FirmwareAssumption
  <2>3. /\ strings' = strings /\ made' = TRUE
        /\ misused' = (misused \/ (~made /\ Pointers(m) # {}))
    BY <1>1 DEF CallInit
  <2>4. m.corrupt = FALSE /\ misused = FALSE
    BY <1>1 DEF IInv, Memory
  <2>5. CASE made
    <3>1. /\ Sound(packet_release(m), strings)
          /\ packet_release(m).corrupt = FALSE
      BY <1>0, <2>4, <2>5, Released
    <3>2. Sound(m', strings) /\ m'.corrupt = FALSE
      BY <2>1, <2>2, <3>1, InitSound
    <3>3. misused' = FALSE
      BY <2>3, <2>4, <2>5
    <3> QED
      BY <2>3, <3>2, <3>3 DEF IInv, Sound
  <2>6. CASE ~made
    <3>1. /\ m \in Memory /\ m.live = strings /\ strings \subseteq Blocks
          /\ m.pack.key_str \in {NULL, Wild} /\ m.pack.val_bytes \in {NULL, Wild}
      BY <2>6 DEF IInv
    <3>2. /\ Sound(packet_release(m), strings)
          /\ packet_release(m).corrupt = (m.corrupt \/ Pointers(m) # {})
      BY <2>4, <3>1, ReleasedFirst
    <3>3. Sound(m', strings) /\ m'.corrupt = (Pointers(m) # {})
      BY <2>1, <2>2, <2>4, <3>2, InitSound
    <3>4. misused' = (Pointers(m) # {})
      BY <2>3, <2>4, <2>6, Zenon
    <3> QED
      BY <2>3, <3>3, <3>4 DEF IInv, Sound
  <2> QED
    BY <2>5, <2>6
<1>2. CASE CallSetKeyValue
  <2>1. PICK key \in Keys, val \in Values, fails \in SetFailures :
            m' = packet_set_key_value(m, key, FALSE, val, fails)
    BY <1>2 DEF CallSetKeyValue
  <2>2. key \in Seq(Byte) /\ val \in Seq(Byte)
    BY FirmwareAssumption
  <2>3. made /\ UNCHANGED <<strings, made, misused>>
    BY <1>2 DEF CallSetKeyValue
  <2>4. Sound(m, strings)
    BY <1>0, <2>3
  <2>5. Keeps(m, m', strings)
    BY <2>1, <2>2, <2>4, SetSound
  <2>6. Sound(m', strings') /\ m'.corrupt = m.corrupt
    BY <2>3, <2>5 DEF Keeps
  <2> QED
    BY <2>3, <2>6, InvCall
<1>3. CASE CallEncode
  <2>1. made /\ UNCHANGED <<strings, made, misused>>
    BY <1>3 DEF CallEncode
  <2>2. Sound(m', strings') /\ m'.corrupt = m.corrupt
    BY <1>0, <1>3, <2>1, EncodeSound DEF CallEncode
  <2> QED
    BY <2>1, <2>2, InvCall
<1>4. CASE CallDecode
  <2>1. made /\ UNCHANGED <<strings, made, misused>>
    BY <1>4 DEF CallDecode
  <2>2. Sound(m', strings') /\ m'.corrupt = m.corrupt
    BY <1>0, <1>4, <2>1, DecodeSound DEF CallDecode
  <2> QED
    BY <2>1, <2>2, InvCall
<1>5. CASE CallRelease
  <2>1. made /\ UNCHANGED <<strings, made, misused>>
    BY <1>5 DEF CallRelease
  <2>2. Sound(m', strings') /\ m'.corrupt = m.corrupt
    BY <1>0, <1>5, <2>1, Released DEF CallRelease
  <2> QED
    BY <2>1, <2>2, InvCall
<1>6. CASE CallToString
  <2> DEFINE a == Fresh(m)
  <2> DEFINE filled == Filled(m, a, <<>>)
  <2>1. /\ m' = Returns(filled, TRUE) /\ strings' = strings \union {a}
        /\ UNCHANGED <<made, misused>>
    BY <1>6 DEF CallToString
  <2>2. m \in Memory /\ a \in Blocks /\ a \notin m.live
    BY <1>6, FreshBlock DEF CallToString, IInv
  <2>3. <<>> \in Seq(Byte)
    OBVIOUS
  <2>4. /\ filled \in Memory
        /\ filled.live = m.live \union {a}
        /\ filled.pack = m.pack
        /\ filled.corrupt = m.corrupt
    <3> HIDE DEF a
    <3>1. ASSUME NEW bytes \in Seq(Byte)
          PROVE  /\ Filled(m, a, bytes) \in Memory
                 /\ Filled(m, a, bytes).live = m.live \union {a}
                 /\ Filled(m, a, bytes).pack = m.pack
                 /\ Filled(m, a, bytes).corrupt = m.corrupt
      BY <2>2, FilledBlock, ZenonT(30)
    <3> QED
      BY <2>3, <3>1, Zenon
  <2> HIDE DEF filled, a
  <2>5. /\ m' \in Memory /\ m'.live = m.live \union {a}
        /\ m'.pack = m.pack /\ m'.corrupt = m.corrupt
    BY <2>1, <2>4 DEF Returns, Memory
  <2>6. made => Sound(m', strings')
    <3> SUFFICES ASSUME made PROVE Sound(m', strings')
      OBVIOUS
    <3>1. OwnedBy(m', strings \union {a})
      BY <1>0, <2>2, <2>5 DEF Sound, OwnedBy, Pointers
    <3> QED
      BY <1>0, <2>1, <2>2, <2>5, <3>1 DEF Sound
  <2> QED
    BY <2>1, <2>2, <2>5, <2>6 DEF IInv
<1>7. CASE ToStringCrashes
  <2>1. PICK left \in Leftovers : m' = Boot(left)
    BY <1>7 DEF ToStringCrashes
  <2>2. strings' = {} /\ made' = FALSE /\ misused' = FALSE
    BY <1>7 DEF ToStringCrashes
  <2> QED
    BY <2>1, <2>2, BootSound DEF IInv
<1>8. CASE \E a \in strings : FreeString(a)
  <2>1. PICK a \in strings : /\ m' = Free(m, a) /\ strings' = strings \ {a}
                            /\ UNCHANGED <<made, misused>>
    BY <1>8 DEF FreeString
  <2>2. m \in Memory /\ a \in m.live /\ a # NULL
    BY <1>0, FirmwareAssumption DEF IInv, Sound, OwnedBy
  <2>3. m' = FreeIfSet(m, a)
    BY <2>1, <2>2 DEF FreeIfSet
  <2>4. /\ m' \in Memory
        /\ m'.live = m.live \ {a}
        /\ m'.pack = m.pack
        /\ m'.corrupt = m.corrupt
    BY <2>2, <2>3, FreedBlock
  <2>5. made => Sound(m', strings')
    BY <1>0, <2>1, <2>4 DEF Sound, OwnedBy, Pointers
  <2> QED
    BY <2>1, <2>4, <2>5 DEF IInv
<1>9. CASE ~m.corrupt /\ CallPreallocated
  <2>1. PICK limit \in Limits, src \in Keys, tsize \in {1, 4} :
            /\ m' = [m EXCEPT !.ret = TRUE, !.corrupt =
                       \/ @
                       \/ set_str_on_preallocated(limit, Len(src)) > limit
                       \/ set_list_on_preallocated(tsize, limit, Len(src)) > limit]
            /\ misused' = (misused \/ limit = 0)
    BY <1>9 DEF CallPreallocated
  <2> DEFINE len == Len(src)
  <2>2. limit \in Nat /\ len \in Nat
    BY FirmwareAssumption
  <2> HIDE DEF len
  <2> DEFINE past ==
                    \/ m.corrupt
                    \/ set_str_on_preallocated(limit, len) > limit
                    \/ set_list_on_preallocated(tsize, limit, len) > limit
  <2>3. m' = [m EXCEPT !.ret = TRUE, !.corrupt = past]
    BY <2>1 DEF len
  <2>4. /\ m \in Memory /\ m.corrupt = FALSE /\ misused = FALSE
        /\ UNCHANGED <<strings, made>>
    BY <1>9 DEF CallPreallocated, IInv, Memory
  <2>5. past = (limit = 0)
    <3>1. CASE limit = 0
      <4>1. set_str_on_preallocated(limit, len) > limit
        BY <2>2, <3>1, NoRoom
      <4> QED
        BY <3>1, <4>1, Zenon
    <3>2. CASE limit # 0
      <4>1. /\ ~(set_str_on_preallocated(limit, len) > limit)
            /\ ~(set_list_on_preallocated(tsize, limit, len) > limit)
        BY <2>2, <3>2, CopiesFit
      <4> QED
        BY <2>4, <3>2, <4>1, Zenon
    <3> QED
      BY <3>1, <3>2
  <2> HIDE DEF past
  <2>6. misused' = past
    BY <2>1, <2>4, <2>5, Zenon
  <2>7. past \in BOOLEAN
    BY <2>5, Zenon
  <2>8. /\ m' \in Memory
        /\ m'.live = m.live /\ m'.pack = m.pack /\ m'.corrupt = past
    BY <2>3, <2>4, <2>7 DEF Memory
  <2>9. made => Sound(m', strings')
    BY <1>0, <2>4, <2>8 DEF Sound, OwnedBy, Pointers
  <2> QED
    BY <2>4, <2>6, <2>7, <2>8, <2>9 DEF IInv
<1>10. CASE UNCHANGED vars
  BY <1>10 DEF vars, IInv
<1> QED
  BY <1>1, <1>2, <1>3, <1>4, <1>5, <1>6, <1>7, <1>8, <1>9, <1>10 DEF Next

LEMMA Invariance == Spec => []IInv
<1> QED
  BY InvInit, InvNext, PTL DEF Spec

(* Whatever the packet's functions are called with and whichever of their  *)
(* allocations fail, its fields keep their types: the checksum is a byte,  *)
(* and a pointer is NULL, names a block, or is what the stack held.        *)
THEOREM TypeCorrect == Spec => []TypeOK
<1>1. IInv => TypeOK
  BY DEF IInv, Memory, TypeOK
<1> QED
  BY <1>1, Invariance, PTL

(* On a heap of any size and over any sequence of calls, something is      *)
(* freed that is not in use, or written past its end, if and only if a     *)
(* first packet_init has found pointers that are not NULL or a caller has  *)
(* passed a buffer of no bytes.                                            *)
THEOREM OnlyMisuseCorrupts == Spec => []HeapSound
<1>1. IInv => HeapSound
  BY DEF IInv, Memory, HeapSound
<1> QED
  BY <1>1, Invariance, PTL

(* Every block in use has exactly one owner, also after calls that failed  *)
(* half-way: no leak, no dangling pointer, no shared block.                *)
THEOREM Ownership == Spec => []Owned
<1>1. IInv => Owned
  BY DEF IInv, Sound, OwnedBy, Owned
<1> QED
  BY <1>1, Invariance, PTL

(* In every reachable memory packet_init either fills the packet with the  *)
(* key and value given, or leaves one that is not valid, or corrupts the   *)
(* memory, as it does with what an uninitialised packet may hold.          *)
THEOREM InitComplete == Spec => []InitAllOrNothing
<1>1. IInv => InitAllOrNothing
  <2> SUFFICES ASSUME IInv, NEW key \in Keys, NEW val \in Values, NEW fails \in SetFailures,
                      ~packet_init(m, key, val, fails).corrupt
               PROVE  LET n == packet_init(m, key, val, fails)
                      IN  IF n.ret THEN packet_is_valid(n) /\ Key(n) = key /\ Value(n) = val
                                   ELSE ~packet_is_valid(n)
    BY DEF InitAllOrNothing
  <2>1. key \in Seq(Byte) /\ val \in Seq(Byte)
    BY FirmwareAssumption
  <2>2. Sound(packet_release(m), strings)
    <3>1. CASE made
      BY <3>1, Released DEF IInv
    <3>2. CASE ~made
      BY <3>2, ReleasedFirst DEF IInv, Memory
    <3> QED
      BY <3>1, <3>2
  <2> QED
    BY <2>1, <2>2, InitSound
<1> QED
  BY <1>1, Invariance, PTL
=============================================================================
