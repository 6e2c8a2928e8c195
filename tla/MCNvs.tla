-------------------------------- MODULE MCNvs --------------------------------
(* Numbers below, inside and above the limits of the two variables; a      *)
(* frame rate is at most 3.  The two credentials a phone may send are      *)
(* never told apart but by equality.                                       *)
EXTENDS Nvs, TLC

MCRaw == {-1, 3, 300}
NetsAlike == Permutations(Nets)
=============================================================================
