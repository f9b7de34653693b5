----------------------------- MODULE MCReceiver -----------------------------
(* The packets and the configurations of the runs of WuartReceiver. *)
EXTENDS WuartReceiver

path(v) == Packet(<<112, 97, 116, 104>>, v)        \* path=v
baud(v) == Packet(<<98, 97, 117, 100>>, v)         \* baud=v
start == Packet(<<115, 116, 97, 114, 116>>, <<>>)  \* start
data(v) == Packet(<<100, 97, 116, 97>>, v)         \* data=v

B115200 == <<49, 49, 53, 50, 48, 48>>
B921600 == <<57, 50, 49, 54, 48, 48>>

(* The packets a client sends when it connects, and some data. *)
Opening == {path(<<67, 79, 77, 56>>), baud(B115200), start, data(<<104, 105>>)}
Opening921600 == {path(<<67, 79, 77, 56>>), baud(B921600), start}

(* Values with white space at their ends, with '=', START and END inside,  *)
(* and values that are longer when encoded.                                *)
Mixed == {data(<<32, 13, 10>>), data(<<35, 36, 61>>), data(<<0, 1>>), data(<<92, 120>>), start}

(* Values a decoder reads as escapes when no encoder wrote them: the first *)
(* holds two characters that only look like digits to it.                  *)
Escapes == {data(<<92, 120, 58, 103>>), data(<<92, 120, 52, 49, 32>>), data(<<35, 36, 61>>), start}

Endpoint(encode, cuts, packets) ==
    [sender |-> "endpoint", encodes |-> encode, decodes |-> encode, network |-> cuts, offers |-> packets]
Generator(decode, cuts, packets) ==
    [sender |-> "generator", encodes |-> FALSE, decodes |-> decode, network |-> cuts, offers |-> packets]

AnyCut == {Endpoint(FALSE, "any", Escapes), Generator(TRUE, "any", Escapes)}
KindCuts ==
    {Endpoint(FALSE, "coalesced", Opening), Generator(FALSE, "coalesced", Opening),
     Endpoint(FALSE, "paced", Mixed), Endpoint(TRUE, "paced", Mixed)}
Coalesced921600 == {Endpoint(FALSE, "coalesced", Opening921600)}

All == Opening \union Opening921600 \union Mixed \union Escapes
=============================================================================
