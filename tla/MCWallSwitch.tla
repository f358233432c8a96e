---------------------------- MODULE MCWallSwitch ----------------------------
(* Instances of WallSwitch for TLC: all types, of which the two-position    *)
(* ones may be rewritten under a gesture, and each half of them alone.     *)
EXTENDS WallSwitch

MCTwoPosition == {TypeToggle, TypeMomentary}
MCGestures == {Multifunction, LightControl}
MCNone == {}
MCAll == TypeToggle .. LightControl

=============================================================================
