-------------------------------- MODULE MCLink --------------------------------
(* One client, which may be restarted, and a server with one port. *)
EXTENDS WuartLink

OneBaud == {115200}
=============================================================================
