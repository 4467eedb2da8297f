--------------------------- MODULE MCUDTTransport ---------------------------
(***************************************************************************)
(* UDTTransport on a small instance.                                       *)
(***************************************************************************)
EXTENDS UDTTransport

CONSTANTS s1, s2

OneSocket  == {s1}
TwoSockets == {s1, s2}
=============================================================================
