---------------------------- MODULE MCIMSession ----------------------------
(***************************************************************************)
(* IMSession on small instances: ann signs in at two computers and bob,    *)
(* her contact, at one of them.                                            *)
(***************************************************************************)
EXTENDS IMSession

CONSTANTS ann, bob, p1, p2

TwoUsers  == {ann, bob}
TwoPlaces == {p1, p2}

\* Who signs in where.
AnnEverywhere == [p \in Places |-> IF p = p1 THEN {ann} ELSE {ann, bob}]

Friends == [u \in Users |-> Users \ {u}]

Right    == {TRUE}
AnyPassword == BOOLEAN
AllOnline  == [u \in Users |-> {"online"}]
BobHides   == [u \in Users |-> {IF u = bob THEN "invisible" ELSE "online"}]
=============================================================================
