---------------------------- MODULE MCReporting ----------------------------
(* Instances of Reporting for TLC: Configure Reporting commands on one      *)
(* analog attribute, and two others that share the common timer.           *)
EXTENDS Reporting

C(lo, hi, r) == [min |-> lo, max |-> hi, change |-> r]

Two == {"onOff", "decoupled"}
OneAnalog == {"input"}
NoAttribute == {}
TwoValues == {0, 1}
ThreeValues == {0, 1, 2}

MCConfigs ==
  {C(1, 1, 0), C(2, 2, 2), C(2, 0, 0), C(2, 1, 0), C(0, None16, 0),
   C(None16, 0, 0)}

NoConfig == {}

=============================================================================
