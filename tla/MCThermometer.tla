---------------------------- MODULE MCThermometer ----------------------------
(***************************************************************************)
(* Instances of Thermometer for TLC: an E-KEY for each prefix and day.     *)
(***************************************************************************)
EXTENDS Thermometer

CONSTANTS r1, r2

MCEKey == [type : Prefix, slot : {Day(h) : h \in Hour}]
=============================================================================
