--------------------------- MODULE MCUnitBuilder ---------------------------
(* UnitBuilder with radix 2, so that messages of two bytes and more have a *)
(* header of several bytes, and with the shape of the default delimiter    *)
(* "\r\n\r\n", of which a proper part is again a prefix.                   *)
EXTENDS UnitBuilder, TLC

CRLFCRLF == <<1, 2, 1, 2>>
=============================================================================
