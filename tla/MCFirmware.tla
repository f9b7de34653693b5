------------------------------ MODULE MCFirmware ------------------------------
(* The values of the runs of FirmwarePacket. *)
EXTENDS FirmwarePacket

(* Whatever the fields hold, each alone and with the others. *)
SomeLeftovers ==
    [ready : BOOLEAN, key_str : {NULL, Wild}, val_bytes : {NULL, Wild},
     val_size : {0, 3}, checksum : {0, 7}]

(* No key, a plain one, and one whose checksum is 0. *)
SomeKeys == {<<>>, <<107, 101, 121, 49>>, <<97, 97>>}

(* No value, a plain one, and one with bytes to escape. *)
SomeValues == {<<>>, <<49>>, <<0, 92>>}
=============================================================================
