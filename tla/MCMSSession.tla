----------------------------- MODULE MCMSSession -----------------------------
(***************************************************************************)
(* MSSession on a small instance: one server and one client.               *)
(***************************************************************************)
EXTENDS MSSession

CONSTANTS c1, v1, s1, s2

OneClient    == {c1}
OneServer    == {v1}
TwoSockets   == {s1, s2}
=============================================================================
