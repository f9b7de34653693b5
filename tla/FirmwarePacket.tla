---------------------------- MODULE FirmwarePacket ----------------------------
(***************************************************************************)
(* The packet object of the firmware, Packet_t of wuart_packet.c, with the *)
(* helpers of wuart_utils.c it is built from: who owns which block of the  *)
(* heap over any sequence of calls, when any allocation may fail.          *)
(*                                                                         *)
(* Every function is an operator on the memory m, its return value being   *)
(* m.ret.  "fails" names the allocations of a call that fail.  Buffers     *)
(* that a call allocates and frees itself are not seen between calls; they *)
(* matter only in that a full heap refuses them.                           *)
(***************************************************************************)
EXTENDS WuartPacket, WuartEscape

CONSTANTS
    Blocks,        \* the blocks malloc can hand out
    NULL,
    Wild,          \* a pointer to no block in use
    Leftovers,     \* what the stack may hold where app_main puts its Packet_t
    Keys, Values,  \* what callers pass: C strings, and bytes with their length
    Limits         \* sizes of buffers callers pass to the preallocated helpers

Packet_t ==
    [ready : BOOLEAN, key_str : Blocks \union {NULL, Wild}, val_bytes : Blocks \union {NULL, Wild},
     val_size : Nat, checksum : Byte]

ASSUME FirmwareAssumption ==
    /\ NULL \notin Blocks
    /\ Wild \notin Blocks \union {NULL}
    /\ Leftovers \subseteq [ready : BOOLEAN, key_str : {NULL, Wild}, val_bytes : {NULL, Wild},
                            val_size : Nat, checksum : Byte]
    /\ Keys \subseteq Seq(Byte)
    /\ Values \subseteq Seq(Byte)
    /\ Limits \subseteq Nat

VARIABLES
    m,             \* the memory: live and text, the blocks in use and what is in them;
                   \* pack, the Packet_t; corrupt, whether a call freed what was not its
                   \* own or wrote past the end of a block; ret, what it returned
    strings,       \* results of packet_to_string the caller has not freed yet
    made,          \* packet_init has been called on the Packet_t
    misused        \* a caller has passed what the functions cannot take: to the first
                   \* packet_init a Packet_t whose pointers are not NULL, or a buffer
                   \* of no bytes

vars == <<m, strings, made, misused>>

NoPacket == [ready |-> FALSE, key_str |-> NULL, val_bytes |-> NULL, val_size |-> 0, checksum |-> 0]

(* app_main does not initialise its Packet_t. *)
Boot(left) ==
    [live |-> {}, text |-> [a \in Blocks |-> <<>>], corrupt |-> FALSE, ret |-> FALSE,
     pack |-> left]

Init ==
    /\ \E left \in Leftovers : m = Boot(left)
    /\ strings = {}
    /\ made = FALSE
    /\ misused = FALSE

-----------------------------------------------------------------------------
(* malloc, calloc and free. *)
Gets(x, alloc, fails) == alloc \notin fails /\ x.live # Blocks
Fresh(x) == CHOOSE a \in Blocks : a \notin x.live
Filled(x, a, bytes) == [x EXCEPT !.live = @ \union {a}, !.text[a] = bytes]

Free(x, a) ==
    IF a \in x.live THEN [x EXCEPT !.live = @ \ {a}, !.text[a] = <<>>]
    ELSE [x EXCEPT !.corrupt = TRUE]

FreeIfSet(x, a) == IF a = NULL THEN x ELSE Free(x, a)

Returns(x, value) == [x EXCEPT !.ret = value]

(* The strings and bytes behind the pointers of the packet. *)
Text(x, a) == IF a \in x.live THEN x.text[a] ELSE <<>>
Key(x) == Text(x, x.pack.key_str)
Value(x) == Text(x, x.pack.val_bytes)

-----------------------------------------------------------------------------
(* Definitions named X_y are X with the defect y: what the code would be   *)
(* if it were wrong there.  They show that the properties notice it, and   *)
(* no specification uses them.                                             *)

(* wuart_utils.c: the copies that replace what a pointer of the packet     *)
(* points to.  own says that the source is that pointer itself.            *)
set_str_auto_alloc_freesFirst(x, key, own, fails) ==
    IF own THEN Returns(x, TRUE)
    ELSE LET freed == FreeIfSet(x, x.pack.key_str)
             a == Fresh(freed)
         IN  IF ~Gets(freed, "key", fails) THEN Returns(freed, FALSE)
             ELSE Returns([Filled(freed, a, key) EXCEPT !.pack.key_str = a], TRUE)

set_str_auto_alloc(x, key, own, fails) ==
    IF own THEN Returns(x, TRUE)
    ELSE IF ~Gets(x, "key", fails) THEN Returns(x, FALSE)
    ELSE LET a == Fresh(x)
             copied == FreeIfSet(Filled(x, a, key), x.pack.key_str)
         IN  Returns([copied EXCEPT !.pack.key_str = a], TRUE)

set_bytes_auto_alloc(x, val, fails) ==
    IF val = <<>>
    THEN Returns([FreeIfSet(x, x.pack.val_bytes) EXCEPT !.pack.val_bytes = NULL], TRUE)
    ELSE IF ~Gets(x, "val", fails) THEN Returns(x, FALSE)
    ELSE LET a == Fresh(x)
             copied == FreeIfSet(Filled(x, a, val), x.pack.val_bytes)
         IN  Returns([copied EXCEPT !.pack.val_bytes = a], TRUE)

(* The copies into a buffer of the caller's, of limit bytes: how many      *)
(* bytes they write.  limit - 1 is a size_t: for a limit of 0 it is the    *)
(* largest there is, and no bound at all.                                  *)
set_str_on_preallocated(limit, len) ==
    (IF limit = 0 \/ len <= limit - 1 THEN len ELSE limit - 1) + 1

set_list_on_preallocated(tsize, limit, num) ==
    LET max == IF tsize * num > limit THEN limit ELSE tsize * num
    IN  tsize * (max \div tsize)

-----------------------------------------------------------------------------
(* wuart_packet.c *)
packet_is_valid(x) == x.pack.ready /\ Key(x) # <<>> /\ x.pack.checksum # 0

packet_release(x) ==
    LET freed == FreeIfSet(FreeIfSet(x, x.pack.key_str), x.pack.val_bytes)
    IN  Returns([freed EXCEPT !.pack = NoPacket], TRUE)

(* What packet_get_data_bytes writes into a buffer with room for it. *)
packet_get_data_bytes(x) ==
    IF x.pack.val_size > 0
    THEN Key(x) \o <<EQ>> \o SubSeq(Value(x), 1, x.pack.val_size)
    ELSE Key(x)

packet_calc_checksum(x, fails) ==
    [x EXCEPT !.pack.checksum =
        IF Key(x) = <<>> \/ ~Gets(x, "sum", fails) THEN 0
        ELSE calc_checksum(packet_get_data_bytes(x))]

packet_set_key_value_setsSize(x, key, own, val, fails) ==
    LET named == set_str_auto_alloc(x, key, own, fails)
        valued == [set_bytes_auto_alloc(named, val, fails) EXCEPT !.pack.val_size = Len(val)]
        summed == packet_calc_checksum(valued, fails)
    IN  IF key = <<>> THEN Returns(x, FALSE)
        ELSE IF ~named.ret THEN named
        ELSE IF ~valued.ret THEN valued
        ELSE Returns(summed, summed.pack.checksum # 0)

packet_set_key_value_ignoresVal(x, key, own, val, fails) ==
    LET named == set_str_auto_alloc(x, key, own, fails)
        summed == packet_calc_checksum(set_bytes_auto_alloc(named, val, fails), fails)
    IN  IF key = <<>> THEN Returns(x, FALSE)
        ELSE IF ~named.ret THEN named
        ELSE Returns(summed, summed.pack.checksum # 0)

(* The size of the value is not set, here or anywhere else.  A failure on  *)
(* the way leaves what was done before it, the old checksum included.      *)
packet_set_key_value(x, key, own, val, fails) ==
    LET named == set_str_auto_alloc(x, key, own, fails)
        valued == set_bytes_auto_alloc(named, val, fails)
        summed == packet_calc_checksum(valued, fails)
    IN  IF key = <<>> THEN Returns(x, FALSE)
        ELSE IF ~named.ret THEN named
        ELSE IF ~valued.ret THEN valued
        ELSE Returns(summed, summed.pack.checksum # 0)

packet_init(x, key, val, fails) ==
    LET set == packet_set_key_value(packet_release(x), key, FALSE, val, fails)
    IN  [set EXCEPT !.pack.ready = set.ret]

(* The end of packet_do_encode and packet_do_decode: the output, in a, is  *)
(* set as the value and freed, and then freed once more.                   *)
Replace(x, a, output, fails) ==
    Returns(Free(Free(packet_set_key_value(x, Key(x), TRUE, output, fails), a), a), TRUE)

(* sprintf ends an escape with a NUL, one byte behind the room it was      *)
(* tested for.                                                             *)
NulPastEnd(input, olen) ==
    \E i \in DOMAIN input :
        ~is_word(input[i]) /\ Len(bytes_encode(SubSeq(input, 1, i))) = olen

packet_do_encode(x, fails) ==
    LET input == SubSeq(Value(x), 1, x.pack.val_size)
        output == bytes_encode(input)
        olen == Len(input) * (IF "wide" \in fails THEN 2 ELSE 4)
        a == Fresh(x)
        written == [Filled(x, a, output) EXCEPT !.corrupt = @ \/ NulPastEnd(input, olen)]
    IN  IF ~packet_is_valid(x) THEN Returns(x, FALSE)
        ELSE IF x.pack.val_size = 0 THEN Returns(x, TRUE)
        ELSE IF ~Gets(x, "wide", fails) /\ ~Gets(x, "narrow", fails) THEN Returns(x, FALSE)
        ELSE IF Len(output) <= olen THEN Replace(written, a, output, fails)
        ELSE Returns(Free(written, a), FALSE)

(* ... with e the outcome of bytes_decode. *)
Decoders(x) ==
    LET input == SubSeq(Value(x), 1, x.pack.val_size)
    IN  FirmwareDecoders(input, Len(input))

packet_do_decode(x, e, fails) ==
    LET a == Fresh(x)
        written == Filled(x, a, e.new_raw)
    IN  IF ~packet_is_valid(x) THEN Returns(x, FALSE)
        ELSE IF x.pack.val_size = 0 THEN Returns(x, TRUE)
        ELSE IF ~Gets(x, "wide", fails) THEN Returns(x, FALSE)
        ELSE IF ~e.raised /\ e.new_raw # <<>> THEN Replace(written, a, e.new_raw, fails)
        ELSE Returns(Free(written, a), FALSE)

-----------------------------------------------------------------------------
(* The calls.  Before its first packet_init app_main only reads the        *)
(* Packet_t.                                                               *)
SetFailures == SUBSET {"key", "val", "sum"}
Failures == SUBSET {"key", "val", "sum", "wide", "narrow"}

Pointers(x) == {x.pack.key_str, x.pack.val_bytes} \ {NULL}

CallInit ==
    /\ \E key \in Keys, val \in Values, fails \in SetFailures :
           m' = packet_init(m, key, val, fails)
    /\ made' = TRUE
    /\ misused' = (misused \/ (~made /\ Pointers(m) # {}))
    /\ UNCHANGED strings

CallSetKeyValue ==
    /\ made
    /\ \E key \in Keys, val \in Values, fails \in SetFailures :
           m' = packet_set_key_value(m, key, FALSE, val, fails)
    /\ UNCHANGED <<strings, made, misused>>

CallEncode ==
    /\ made
    /\ \E fails \in Failures : m' = packet_do_encode(m, fails)
    /\ UNCHANGED <<strings, made, misused>>

CallDecode ==
    /\ made
    /\ \E fails \in Failures, e \in Decoders(m) : m' = packet_do_decode(m, e, fails)
    /\ UNCHANGED <<strings, made, misused>>

CallRelease ==
    /\ made
    /\ m' = packet_release(m)
    /\ UNCHANGED <<strings, made, misused>>

(* packet_to_string gives its block away ... *)
CallToString ==
    /\ m.live # Blocks
    /\ m' = Returns(Filled(m, Fresh(m), <<>>), TRUE)
    /\ strings' = strings \union {Fresh(m)}
    /\ UNCHANGED <<made, misused>>

(* ... and writes to address 0 when it gets none: the chip restarts.  So   *)
(* may its reading of a Packet_t that nobody has initialised.              *)
ToStringCrashes ==
    /\ \E left \in Leftovers : m' = Boot(left)
    /\ strings' = {}
    /\ made' = FALSE
    /\ misused' = FALSE

FreeString(a) ==
    /\ m' = Free(m, a)
    /\ strings' = strings \ {a}
    /\ UNCHANGED <<made, misused>>

CallPreallocated ==
    /\ \E limit \in Limits, src \in Keys, tsize \in {1, 4} :
           /\ m' = [m EXCEPT !.ret = TRUE, !.corrupt =
                       \/ @
                       \/ set_str_on_preallocated(limit, Len(src)) > limit
                       \/ set_list_on_preallocated(tsize, limit, Len(src)) > limit]
           /\ misused' = (misused \/ limit = 0)
    /\ UNCHANGED <<strings, made>>

(* What a program does after it has corrupted its memory is undefined, and *)
(* not modelled.                                                           *)
Next ==
    /\ ~m.corrupt
    /\ \/ CallInit \/ CallSetKeyValue \/ CallEncode \/ CallDecode \/ CallRelease
       \/ CallToString \/ ToStringCrashes
       \/ \E a \in strings : FreeString(a)
       \/ CallPreallocated

Spec == Init /\ [][Next]_vars

-----------------------------------------------------------------------------
TypeOK ==
    /\ m \in [live : SUBSET Blocks, text : [Blocks -> Seq(Byte)], pack : Packet_t,
              corrupt : BOOLEAN, ret : BOOLEAN]
    /\ strings \subseteq Blocks
    /\ made \in BOOLEAN
    /\ misused \in BOOLEAN

(* What makes the packet's functions free what is not in use, or write     *)
(* behind a block: a first packet_init on a Packet_t whose pointers are    *)
(* not NULL, which it frees, or a buffer of no bytes, and nothing else     *)
(* over any sequence of calls and whichever allocations fail.  app_main is *)
(* a caller of the first kind, with whatever its stack holds.              *)
HeapSound == m.corrupt <=> misused

(* Every block in use has one owner, which will free it: the key or the    *)
(* value of the packet, or a string its reader still holds.  No pointer of *)
(* the packet dangles, and nothing is leaked when a call fails half-way.   *)
Owned ==
    ~m.corrupt =>
        IF made
        THEN /\ m.live = Pointers(m) \union strings
             /\ Pointers(m) \intersect strings = {}
             /\ m.pack.key_str = m.pack.val_bytes => m.pack.key_str = NULL
        ELSE m.live = strings

(* packet_init does all or nothing, whatever it finds in the packet and    *)
(* whichever allocations fail, unless it corrupts the memory: when it      *)
(* returns true the packet is valid and holds the key and the value it was *)
(* given, and when it returns false packet_is_valid says so.               *)
InitAllOrNothing ==
    \A key \in Keys, val \in Values, fails \in SetFailures :
        LET n == packet_init(m, key, val, fails)
        IN  ~n.corrupt =>
              IF n.ret THEN packet_is_valid(n) /\ Key(n) = key /\ Value(n) = val
                       ELSE ~packet_is_valid(n)

(* The checksum of a valid packet is that of its data bytes, the key and   *)
(* the value as the wire format joins them.                                *)
ChecksumCoversPacket ==
    made /\ ~m.corrupt /\ packet_is_valid(m)
        => m.pack.checksum = calc_checksum(data_bytes(Packet(Key(m), Value(m))))
=============================================================================
