---------------------------- MODULE MCEscapeStream ----------------------------
(* The bytes of the runs of EscapeStream. *)
EXTENDS EscapeStream

(* At least one byte of each class the decoder tells apart: plain, NUL,    *)
(* backslash, x and X, digits, a colon, letters in and out of a-f and a-h, *)
(* white space, DEL and a byte above 127.                                  *)
Classes == {0, 10, 32, 48, 58, 65, 72, 88, 92, 102, 104, 105, 120, 127, 255}
=============================================================================
