----------------------------- MODULE MCSettings -----------------------------
(***************************************************************************)
(* A small parameter surface for Settings: depth_mode (1, an Enum),        *)
(* scene_illuminance (2, read-only) and fps (3), which config.json may     *)
(* give a value that set_parameter does not admit (3); nobody registered   *)
(* key 4.                                                                  *)
(***************************************************************************)
EXTENDS Settings

MCLegal == [k \in Registered |-> {1, 2}]
MCDefault == [k \in Registered |-> 1]
=============================================================================
