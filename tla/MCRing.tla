------------------------------- MODULE MCRing -------------------------------
(***************************************************************************)
(* Instances of Ring for TLC.  The constants are numbers, given in the     *)
(* configurations: a ring of a few words whose records take two or three,  *)
(* an index that wraps after two laps, a sequence number that wraps too.   *)
(***************************************************************************)
EXTENDS Ring
=============================================================================
