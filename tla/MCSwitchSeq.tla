----------------------------- MODULE MCSwitchSeq -----------------------------
(* Instances of SwitchSeq for TLC. *)
EXTENDS SwitchSeq, SwitchSetup
=============================================================================
