-------------------------- MODULE MCEventDispatch --------------------------
(* EventDispatch for TLC: two events, channels of capacity one.          *)
EXTENDS EventDispatch
=============================================================================
