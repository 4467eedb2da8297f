---------------------------- MODULE MCIMMessages ----------------------------
(***************************************************************************)
(* IMMessages on a small instance: ann and bob write to each other and to  *)
(* the group that both are in; ann signs in once, hidden, bob twice.       *)
(***************************************************************************)
EXTENDS IMMessages

CONSTANTS ann, bob, team, a1, b1, b2

TwoUsers == {ann, bob}
OneGroup == {team}
Everyone == [g \in Groups |-> Users]

ThreeSockets == {a1, b1, b2}
AnnAndBob    == [s \in Sockets |-> IF s = a1 THEN ann ELSE bob]

AnnHides == [u \in Users |-> {IF u = ann THEN "invisible" ELSE "online"}]

\* Bob's sockets are alike.
BobsSockets == Permutations({b1, b2})
=============================================================================
