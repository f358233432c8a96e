------------------------------ MODULE MCRelay ------------------------------
(* Instance of Relay for TLC: every StartUpOnOff value the code tells apart *)
(* and a reserved one (3), a two-position and a multi-function switch type  *)
(* and one beyond the last (4), every coupling value and one that is       *)
(* neither (2).                                                            *)
EXTENDS Relay

MCStartUps == {0, 1, 2, 3, 255}
MCOneStartUp == {1}
MCTypes == {1, 2, 4}
MCMultiTypes == {1, 2}
MCOneAction == {0}
MCDecoupled == {0, 1, 2}
None == {}

=============================================================================
