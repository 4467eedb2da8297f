----------------------------- MODULE Selection -----------------------------
(***************************************************************************)
(* What is selected from a sequence by a set: SelectSeq of the module      *)
(* Sequences, with a set for the test and a definition that can be         *)
(* reasoned about.                                                         *)
(***************************************************************************)
EXTENDS Integers, Sequences

\* The elements of q that are in set, in their order.
Selected(q, set) ==
  LET upTo[i \in 0 .. Len(q)] ==
        IF i = 0 THEN <<>>
        ELSE IF q[i] \in set THEN Append(upTo[i - 1], q[i]) ELSE upTo[i - 1]
  IN  upTo[Len(q)]
=============================================================================
