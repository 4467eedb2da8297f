---------------------------- MODULE MCIMContacts ----------------------------
(***************************************************************************)
(* IMContacts on a small instance: ann has to be asked, bob has not.       *)
(***************************************************************************)
EXTENDS IMContacts

CONSTANTS ann, bob

TwoUsers == {ann, bob}
OnlyBob  == {bob}
=============================================================================
