------------------------------ MODULE MCRingI ------------------------------
(***************************************************************************)
(* The instance of RingI for TLC: five words, records of two, so that every *)
(* lap ends in a pad of one word, and the index wraps after two laps.      *)
(***************************************************************************)
EXTENDS RingI
=============================================================================
