---------------------------- MODULE MCMultiline ----------------------------
(***************************************************************************)
(* An instance of Multiline for TLC: two senders, lines 0, 1 and 2.        *)
(***************************************************************************)
EXTENDS Multiline
============================================================================
