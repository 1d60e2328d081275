----------------------------- MODULE MCInterop -----------------------------
(* Instance of Interop for TLC: two instances, failures and delays.          *)
EXTENDS Interop
============================================================================
