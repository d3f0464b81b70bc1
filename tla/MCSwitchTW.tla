----------------------------- MODULE MCSwitchTW -----------------------------
(* Instances of SwitchTW for TLC. *)
EXTENDS SwitchTW, SwitchSetup
=============================================================================
