----------------------------- MODULE MCEventBus -----------------------------
(***************************************************************************)
(* Small instances of EventBus for TLC: the cfgs give the constants model  *)
(* values.                                                                 *)
(***************************************************************************)
EXTENDS EventBus
=============================================================================
