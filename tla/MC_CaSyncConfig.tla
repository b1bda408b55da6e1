-------------------------- MODULE MC_CaSyncConfig --------------------------
(***************************************************************************)
(* Constants for TLC: up to two seed stores (the bound where a second     *)
(* registration follows a first), with every setter failure or none.      *)
(***************************************************************************)
EXTENDS CaSyncConfig

MCFaults == FaultPoints
MCNoFaults == {}
====
