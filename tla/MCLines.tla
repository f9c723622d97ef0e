------------------------------ MODULE MCLines -------------------------------
(* Instances of VTermLines for TLC. *)
EXTENDS VTermLines

OneZone  == {1}
TwoZones == {1, 2}

=============================================================================
