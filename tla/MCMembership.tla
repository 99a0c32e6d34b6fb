---------------------------- MODULE MCMembership ----------------------------
(***************************************************************************)
(* Instances of Membership for TLC: two organizations that both have the   *)
(* unit "default", as every organization does, one of which has a unit of  *)
(* its own besides.                                                        *)
(***************************************************************************)
EXTENDS Membership, TLC

CONSTANTS o1, o2, default, fauna

MCOrgs == {o1, o2}
MCUnitIds == {default, fauna}
MCUnits == {<<o1, default>>, <<o2, default>>, <<o1, fauna>>}

=============================================================================
