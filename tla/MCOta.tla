------------------------------- MODULE MCOta -------------------------------
(***************************************************************************)
(* Instances of Ota for TLC: two builds, so that an update can meet what   *)
(* an interrupted one left behind, and every place of build.prop.          *)
(***************************************************************************)
EXTENDS Ota

MCLayouts == Places
=============================================================================
